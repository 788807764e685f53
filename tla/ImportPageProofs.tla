-------------------------- MODULE ImportPageProofs --------------------------
(***************************************************************************)
(* For all wristbands, files, sources and texts, and any number of acts:   *)
(* the device selected is in the list, an open editor is over the file and *)
(* the source it was opened for, and the term on the page, and the one     *)
(* pushed, is that of the schedule prepared.  The list comes to be what is *)
(* connected, the page drawn the state, the schedule that of the file      *)
(* picked last.                                                            *)
(***************************************************************************)
EXTENDS ImportPage, TLAPS

-----------------------------------------------------------------------------
(* Conversion                                                              *)

\* r is the schedule of a file's content, with the term given where one is.
IsSchedule(r, content, source, name, start) ==
    /\ r \in Schedules /\ r.of = content /\ r.by = source
    /\ r.name # "" /\ (name # "" => r.name = name)
    /\ start # "" => Dated[start] = {r.start}

\* What convert_ics_file yields, if it yields anything: one schedule.
LEMMA Converted ==
  ASSUME NEW c \in Contents, NEW s \in Sources, NEW name \in Texts, NEW start \in Texts,
         NEW r \in Convert(c, s, name, start)
  PROVE  /\ IsSchedule(r, c, s, name, start)
         /\ \A q \in Convert(c, s, name, start) : q = r
<1> DEFINE ds == IF Inferred[c][s] = {} \/ start = "" THEN Inferred[c][s] ELSE Dated[start]
<1>1. PICK d \in ds : r = [of |-> c, by |-> s,
                           name |-> IF name = "" THEN NameFor[d] ELSE name, start |-> d]
  BY DEF Convert
<1>2. ds \subseteq Dates
  <2>1. Inferred[c][s] \subseteq Dates
    BY TextAssumption
  <2>2. Dated[start] \subseteq Dates
    BY DEF Dates
  <2> QED
    BY <2>1, <2>2
<1>3. d # "" /\ d \in Texts /\ Dated[d] = {d} /\ NameFor[d] \in Texts \ {""}
  BY <1>1, <1>2, TextAssumption
<1>4. \A e \in ds : e = d
  BY <1>1, TextAssumption
<1>5. start # "" => ds = Dated[start]
  BY <1>1
<1>6. start # "" => Dated[start] = {d}
  BY <1>1, <1>4, <1>5
<1>7. \A q \in Convert(c, s, name, start) : q = r
  BY <1>1, <1>4 DEF Convert
<1> QED
  BY <1>1, <1>2, <1>3, <1>6, <1>7 DEF Schedules, IsSchedule

Medias == [Names -> Contents \cup {NoFile}]
IsPrepared(r, disk, path, source, name, start) ==
    /\ r \in Prepareds /\ r.path = path
    /\ IsSchedule(r.schedule, disk[path], source, name, start)

\* prepare_file: what it yields is of the file found at the path.
LEMMA FilePrepared ==
  ASSUME NEW disk \in Medias, NEW path \in Names, NEW s \in Sources,
         NEW name \in Texts, NEW start \in Texts,
         NEW r \in PrepareFile(disk, path, s, name, start)
  PROVE  /\ IsPrepared(r, disk, path, s, name, start)
         /\ \A q \in PrepareFile(disk, path, s, name, start) : q = r
<1>1. disk[path] # NoFile /\ disk[path] \in Contents
  BY DEF PrepareFile, Medias
<1>2. PICK c \in Convert(disk[path], s, name, start) : r = [path |-> path, schedule |-> c]
  BY <1>1 DEF PrepareFile
<1>3. /\ IsSchedule(c, disk[path], s, name, start)
      /\ \A q \in Convert(disk[path], s, name, start) : q = c
  BY <1>1, <1>2, Converted
<1>4. \A q \in PrepareFile(disk, path, s, name, start) : q = r
  BY <1>1, <1>2, <1>3 DEF PrepareFile
<1>5. c \in Schedules
  BY <1>3 DEF IsSchedule
<1> QED
  BY <1>2, <1>3, <1>4, <1>5 DEF Prepareds, IsPrepared

\* prepare_file for what is prepared: the same path, the source of the state.
LEMMA AgainPrepared ==
  ASSUME media \in Medias, NEW s \in UiStates, \A p, q \in s.prepared : p = q,
         NEW name \in Texts, NEW start \in Texts, NEW r \in Reprepared(s, name, start)
  PROVE  /\ s.prepared # {} /\ \A p \in s.prepared : p.path = r.path
         /\ IsPrepared(r, media, r.path, s.source, name, start)
         /\ \A q \in Reprepared(s, name, start) : q = r
<1>1. PICK p \in s.prepared : r \in PrepareFile(media, p.path, s.source, name, start)
  BY DEF Reprepared
<1>2. p.path \in Names /\ s.source \in Sources
  BY <1>1 DEF UiStates, Prepareds
<1>3. \A q \in Reprepared(s, name, start) : q \in PrepareFile(media, p.path, s.source, name, start)
  BY <1>1 DEF Reprepared
<1>4. /\ IsPrepared(r, media, p.path, s.source, name, start)
      /\ \A q \in PrepareFile(media, p.path, s.source, name, start) : q = r
  BY <1>1, <1>2, FilePrepared
<1>5. r.path = p.path
  BY <1>4 DEF IsPrepared
<1> QED
  BY <1>1, <1>3, <1>4, <1>5

-----------------------------------------------------------------------------
(* The device selected                                                     *)

\* EVENT_DEVICE selects a device of the list, or none other than before.
LEMMA ChosenIsListed ==
  ASSUME NEW s, NEW value
  PROVE  Chosen(s, value) \in ListedAddresses(s.devices) \cup {s.selected}
<1>1. FirstNamed(s.devices, value) \subseteq ListedAddresses(s.devices)
  BY DEF FirstNamed, ListedAddresses
<1>2. FirstNamed(s.devices, value) # {} =>
        The(FirstNamed(s.devices, value)) \in FirstNamed(s.devices, value)
  BY DEF The
<1> QED
  BY <1>1, <1>2 DEF Chosen

\* refresh_devices selects a device of the new list if there is one.
LEMMA SelectionIsListed ==
  ASSUME NEW s, NEW list \in Seq(Devices)
  PROVE  Selection(s, list) \in ListedAddresses(list) \cup (IF list = <<>> THEN {""} ELSE {})
<1>1. CASE list = <<>>
  BY <1>1 DEF Selection
<1>2. CASE list # <<>>
  <2>1. 1 \in DOMAIN list
    BY <1>2
  <2> QED
    BY <1>2, <2>1 DEF Selection, ListedAddresses
<1> QED
  BY <1>1, <1>2

-----------------------------------------------------------------------------
(* The inductive invariant.  A term shown is never blank: a blank one would *)
(* be inferred anew and differ from the field.                              *)

WorldInv ==
    /\ media \in Medias
    /\ connected \in Seq(Devices)
    /\ lists \in Seq([for : {"load", "page"}, list : Seq(Devices)])
    /\ picks \in Seq(Files)

OnePrepared ==
    /\ \A p, q \in ui.prepared : p = q
    /\ ui.prepared # {} => ui.name # "" /\ ui.start # ""

PageInv == ui \in UiStates /\ OnePrepared /\ SelectedIsListed /\ EditsThisTerm /\ TermIsShown
ImportInv == WorldInv /\ PageInv

LEMMA InitImport == Init => ImportInv
<1> SUFFICES ASSUME Init PROVE ImportInv
  OBVIOUS
<1>1. ui \in UiStates
  <2>1. <<>> \in Seq(Devices)
    OBVIOUS
  <2>2. "" \in Texts /\ FirstSource \in Sources
    BY SourceAssumption, TextAssumption
  <2>3. ui = [tab |-> "import", source |-> FirstSource, devices |-> <<>>,
              selected |-> "", prepared |-> {}, name |-> "", start |-> "",
              editing |-> "none", draft |-> "", busy |-> FALSE]
    BY DEF Init
  <2> QED
    BY <2>1, <2>2, <2>3, Zenon DEF UiStates, EditingTerms
<1>2. media \in Medias /\ lists = <<>> /\ picks = <<>>
  BY DEF Init, Medias
<1>3. connected \in Seq(Devices)
  <2>1. CASE connected = <<>>
    BY <2>1
  <2>2. CASE connected \in {<<d>> : d \in Devices}
    <3>1. PICK d \in Devices : connected = <<d>>
      BY <2>2
    <3> QED
      BY <3>1
  <2> QED
    BY <2>1, <2>2 DEF Init
<1>4. ui.prepared = {} /\ ui.editing = "none" /\ ui.devices = <<>> /\ ui.selected = ""
  BY DEF Init
<1>5. SelectedIsListed /\ EditsThisTerm /\ TermIsShown /\ OnePrepared
  BY <1>4 DEF SelectedIsListed, EditsThisTerm, TermIsShown, OnePrepared
<1>6. <<>> \in Seq([for : {"load", "page"}, list : Seq(Devices)]) /\ <<>> \in Seq(Files)
  OBVIOUS
<1> QED
  BY <1>1, <1>2, <1>3, <1>5, <1>6 DEF ImportInv, WorldInv, PageInv

\* What the host and the handlers do to files, dialogs and lists.
LEMMA WorldStep == WorldInv /\ [Next]_vars => WorldInv'
<1> SUFFICES ASSUME WorldInv, [Next]_vars PROVE WorldInv'
  OBVIOUS
<1> USE DEF WorldInv
<1>1. CASE ConnectionChanges
  <2>1. PICK n \in 0 .. MaxDevices : connected' \in [1 .. n -> Devices]
    BY <1>1 DEF ConnectionChanges
  <2>2. connected' \in Seq(Devices)
    BY <2>1
  <2> QED
    BY <1>1, <2>2 DEF ConnectionChanges, fileVars
<1>2. CASE \E caller \in {"load", "page"} : HostLists(caller)
  BY <1>2 DEF HostLists, fileVars
<1>3. CASE DevicesListed
  BY <1>3 DEF DevicesListed, fileVars
<1>4. CASE \E file \in Files : DialogAnswers(file)
  <2>1. PICK file \in Files : DialogAnswers(file)
    BY <1>4
  <2>2. file.name \in Names /\ file.content \in Contents
    BY DEF Names, Contents
  <2>3. media' \in Medias
    BY <2>1, <2>2 DEF DialogAnswers, Medias
  <2> QED
    BY <2>1, <2>3 DEF DialogAnswers, deviceVars
<1>5. CASE FilePicked
  <2>1. picks[1] \in Files /\ picks' \in Seq(Files)
    BY <1>5 DEF FilePicked
  <2>2. picks[1].name \in Names /\ picks[1].content \in Contents
    BY <2>1 DEF Names, Contents
  <2>3. \/ media' = media
        \/ media' = [media EXCEPT ![picks[1].name] = picks[1].content]
    BY <1>5 DEF FilePicked
  <2>4. media' \in Medias
    BY <2>2, <2>3 DEF Medias
  <2> QED
    BY <1>5, <2>1, <2>4 DEF FilePicked, deviceVars
<1>6. CASE \E name \in Names : FileLost(name)
  BY <1>6 DEF FileLost, deviceVars, Medias
<1>7. CASE DialogEnds
  BY <1>7 DEF DialogEnds, deviceVars
<1>8. CASE RenderMainUi
  BY <1>8 DEF RenderMainUi, deviceVars, fileVars
<1>9. CASE UserActs
  BY <1>9 DEF UserActs, deviceVars, fileVars
<1>10. CASE DeviceAction
  BY <1>10 DEF DeviceAction, fileVars
<1>11. CASE PushHandler \/ PushHandlerReturns
  BY <1>11 DEF PushHandler, PushHandlerReturns, deviceVars, fileVars
<1>12. CASE EventNext
  <2>1. CASE EventRefresh
    BY <2>1 DEF EventRefresh, fileVars
  <2>2. CASE EventPick
    BY <2>2 DEF EventPick, deviceVars
  <2>3. CASE EventApply \/ EventCancel \/ EventPush
    BY <2>3 DEF EventApply, EventCancel, EventPush, deviceVars, fileVars
  <2>4. CASE \E t \in {"import", "settings"} : EventTab(t)
    BY <2>4 DEF EventTab, deviceVars, fileVars
  <2>5. CASE \E d \in Devices : EventDevice(d.name)
    BY <2>5 DEF EventDevice, deviceVars, fileVars
  <2>6. CASE \E s \in Sources : EventSource(s)
    BY <2>6 DEF EventSource, deviceVars, fileVars
  <2>7. CASE \E f \in {"name", "start"} : EventEdit(f)
    BY <2>7 DEF EventEdit, deviceVars, fileVars
  <2>8. CASE \E t \in Typed : EventDraft(t)
    BY <2>8 DEF EventDraft, deviceVars, fileVars
  <2> QED
    BY <1>12, <2>1, <2>2, <2>3, <2>4, <2>5, <2>6, <2>7, <2>8 DEF EventNext
<1>13. CASE UNCHANGED vars
  BY <1>13 DEF vars, deviceVars, fileVars
<1> QED
  BY <1>1, <1>2, <1>3, <1>4, <1>5, <1>6, <1>7, <1>8, <1>9, <1>10, <1>11, <1>12, <1>13
     DEF Next, HostNext, ResumeNext

-----------------------------------------------------------------------------
(* Steps of the page                                                        *)

\* Nothing is asked of a step that leaves the file, the source and the term.
LEMMA SameTerm ==
  ASSUME PageInv, ui' \in UiStates, SelectedIsListed',
         ui'.source = ui.source, ui'.prepared = ui.prepared,
         ui'.name = ui.name, ui'.start = ui.start,
         ui'.editing \in {"none", ui.editing}, editFor' = editFor,
         refused' = refused
  PROVE  PageInv'
<1>1. OnePrepared'
  BY DEF PageInv, OnePrepared
<1>2. EditsThisTerm'
  BY DEF PageInv, EditsThisTerm
<1>3. TermIsShown'
  BY DEF PageInv, TermIsShown
<1> QED
  BY <1>1, <1>2, <1>3 DEF PageInv

\* What a step that prepares r must show for the page to be right again.
LEMMA NewTerm ==
  ASSUME NEW r, ui' \in UiStates, SelectedIsListed', EditsThisTerm',
         ui'.prepared = {r}, ui'.name # "", ui'.start # "",
         r.schedule.by = ui'.source, r.schedule.name = ui'.name,
         Dated[ui'.start] = {r.schedule.start}
  PROVE  PageInv'
  BY DEF PageInv, OnePrepared, TermIsShown

\* The device selected is not touched by what concerns the file.
LEMMA SameDevice ==
  ASSUME SelectedIsListed, ui'.devices = ui.devices, ui'.selected = ui.selected
  PROVE  SelectedIsListed'
  BY DEF SelectedIsListed

\* sync_term_fields_from_prepared after an inferring prepare_file.
LEMMA Synced ==
  ASSUME NEW s \in UiStates, NEW r, NEW disk, NEW path, s.prepared = {r},
         IsPrepared(r, disk, path, s.source, "", "")
  PROVE  LET t == SyncTermFields(s)
         IN  /\ t \in UiStates
             /\ t.source = s.source /\ t.devices = s.devices /\ t.selected = s.selected
             /\ t.editing = s.editing /\ t.prepared = s.prepared
             /\ t.name = r.schedule.name /\ t.name # ""
             /\ Dated[t.start] = {r.schedule.start} /\ t.start # ""
<1> DEFINE t == SyncTermFields(s)
           d == r.schedule.start
<1>1. The(s.prepared) = r
  BY DEF The
<1>2. t = [s EXCEPT !.name = r.schedule.name, !.start = d]
  BY <1>1 DEF SyncTermFields
<1>3. r.schedule.name \in Texts /\ r.schedule.name # "" /\ d \in Dates
  BY DEF IsPrepared, IsSchedule, Schedules
<1>4. d \in Texts /\ d # "" /\ Dated[d] = {d}
  BY <1>3, TextAssumption
<1> QED
  BY <1>2, <1>3, <1>4 DEF UiStates

LEMMA TailElements ==
  ASSUME NEW S, NEW q \in Seq(S), q # <<>>
  PROVE  /\ Tail(q) \in Seq(S) /\ Len(q) \in Nat \ {0} /\ Len(Tail(q)) = Len(q) - 1
         /\ \A i \in 1 .. Len(q) - 1 : Tail(q)[i] = q[i + 1]
  OBVIOUS

LEMMA FirstElement == ASSUME NEW S, NEW s \in Seq(S), s # <<>> PROVE s[1] \in S
  OBVIOUS

LEMMA ListStep == ImportInv /\ DevicesListed => PageInv'
<1> SUFFICES ASSUME ImportInv, DevicesListed PROVE PageInv'
  OBVIOUS
<1> DEFINE l == lists[1].list
<1>1. l \in Seq(Devices)
  <2>1. lists \in Seq([for : {"load", "page"}, list : Seq(Devices)]) /\ lists # <<>>
    BY DEF ImportInv, WorldInv, DevicesListed
  <2>2. lists[1] \in [for : {"load", "page"}, list : Seq(Devices)]
    BY <2>1, FirstElement
  <2> QED
    BY <2>2
<1>2. Selection(ui, l) \in ListedAddresses(l) \cup (IF l = <<>> THEN {""} ELSE {})
  BY <1>1, SelectionIsListed
<1>3. ListedAddresses(l) \subseteq Addresses
  BY <1>1 DEF ListedAddresses, Addresses
<1>4. ui' = [ui EXCEPT !.devices = l, !.selected = Selection(ui, l)]
  BY DEF DevicesListed
<1>5. ui \in UiStates
  BY DEF ImportInv, PageInv
<1>6. ui'.devices = l /\ ui'.selected = Selection(ui, l)
  BY <1>4, <1>5 DEF UiStates
<1>7. SelectedIsListed'
  BY <1>2, <1>6 DEF SelectedIsListed
<1>8. ui' \in UiStates
  BY <1>1, <1>2, <1>3, <1>4, <1>5 DEF UiStates
<1>9. /\ ui'.source = ui.source /\ ui'.prepared = ui.prepared
      /\ ui'.name = ui.name /\ ui'.start = ui.start /\ ui'.editing = ui.editing
  BY <1>4, <1>5 DEF UiStates
<1>10. editFor' = editFor /\ refused' = refused
  BY DEF DevicesListed
<1> QED
  BY <1>7, <1>8, <1>9, <1>10, SameTerm DEF ImportInv

LEMMA DeviceStep == ASSUME NEW v PROVE PageInv /\ EventDevice(v) => PageInv'
<1> SUFFICES ASSUME PageInv, EventDevice(v) PROVE PageInv'
  OBVIOUS
<1>1. Chosen(ui, v) \in ListedAddresses(ui.devices) \cup {ui.selected}
  BY ChosenIsListed
<1>2. ui' = [ui EXCEPT !.selected = Chosen(ui, v)]
  BY DEF EventDevice
<1>3. ui \in UiStates /\ SelectedIsListed
  BY DEF PageInv
<1>4. ListedAddresses(ui.devices) \subseteq Addresses
  <2>1. ui.devices \in Seq(Devices)
    BY <1>3 DEF UiStates
  <2> QED
    BY <2>1 DEF ListedAddresses, Addresses
<1>5. ui'.devices = ui.devices /\ ui'.selected = Chosen(ui, v)
  BY <1>2, <1>3 DEF UiStates
<1>6. SelectedIsListed'
  BY <1>1, <1>3, <1>5 DEF SelectedIsListed
<1>7. ui' \in UiStates
  BY <1>1, <1>2, <1>3, <1>4 DEF UiStates
<1>8. /\ ui'.source = ui.source /\ ui'.prepared = ui.prepared
      /\ ui'.name = ui.name /\ ui'.start = ui.start /\ ui'.editing = ui.editing
  BY <1>2, <1>3 DEF UiStates
<1>9. editFor' = editFor /\ refused' = refused
  BY DEF EventDevice
<1> QED
  BY <1>6, <1>7, <1>8, <1>9, SameTerm

LEMMA TabStep == ASSUME NEW t \in {"import", "settings"} PROVE PageInv /\ EventTab(t) => PageInv'
<1> SUFFICES ASSUME PageInv, EventTab(t) PROVE PageInv'
  OBVIOUS
<1>1. ui \in UiStates /\ ui' = [ui EXCEPT !.tab = t] /\ editFor' = editFor /\ refused' = refused
  BY DEF PageInv, EventTab
<1>2. ui' \in UiStates
  BY <1>1 DEF UiStates
<1>3. /\ ui'.devices = ui.devices /\ ui'.selected = ui.selected
      /\ ui'.source = ui.source /\ ui'.prepared = ui.prepared
      /\ ui'.name = ui.name /\ ui'.start = ui.start /\ ui'.editing = ui.editing
  BY <1>1 DEF UiStates
<1> QED
  BY <1>1, <1>2, <1>3, SameTerm, SameDevice DEF PageInv

\* What is typed changes the draft alone, and closing the editor no more.
LEMMA DraftStep == ASSUME NEW t \in Typed PROVE PageInv /\ EventDraft(t) => PageInv'
<1> SUFFICES ASSUME PageInv, EventDraft(t) PROVE PageInv'
  OBVIOUS
<1>1. ui \in UiStates /\ ui' = [ui EXCEPT !.draft = t] /\ editFor' = editFor /\ refused' = refused
  BY DEF PageInv, EventDraft
<1>2. ui' \in UiStates
  BY <1>1, TextAssumption DEF UiStates
<1>3. /\ ui'.devices = ui.devices /\ ui'.selected = ui.selected
      /\ ui'.source = ui.source /\ ui'.prepared = ui.prepared
      /\ ui'.name = ui.name /\ ui'.start = ui.start /\ ui'.editing = ui.editing
  BY <1>1 DEF UiStates
<1> QED
  BY <1>1, <1>2, <1>3, SameTerm, SameDevice DEF PageInv

LEMMA Closed ==
  ASSUME NEW s \in UiStates
  PROVE  LET t == ClearTermEditing(s)
         IN  /\ t \in UiStates /\ t.editing = "none"
             /\ t.source = s.source /\ t.devices = s.devices /\ t.selected = s.selected
             /\ t.prepared = s.prepared /\ t.name = s.name /\ t.start = s.start
  BY TextAssumption DEF ClearTermEditing, UiStates, EditingTerms

LEMMA CancelStep == PageInv /\ EventCancel => PageInv'
<1> SUFFICES ASSUME PageInv, EventCancel PROVE PageInv'
  OBVIOUS
<1>1. ui \in UiStates /\ ui' = ClearTermEditing(ui) /\ editFor' = editFor /\ refused' = refused
  BY DEF PageInv, EventCancel
<1> QED
  BY <1>1, Closed, SameTerm, SameDevice DEF PageInv

LEMMA EditStep == ASSUME NEW f \in {"name", "start"} PROVE PageInv /\ EventEdit(f) => PageInv'
<1> SUFFICES ASSUME PageInv, EventEdit(f), ui.prepared # {} PROVE PageInv'
  BY DEF EventEdit, PageInv, OnePrepared, SelectedIsListed, EditsThisTerm, TermIsShown
<1>1. /\ ui \in UiStates /\ ui' = OpenEditor(ui, f) /\ refused' = refused
      /\ editFor' = <<The(ui.prepared).path, ui.source, f>>
  BY DEF PageInv, EventEdit
<1>2. /\ ui' \in UiStates /\ ui'.editing = f
      /\ ui'.devices = ui.devices /\ ui'.selected = ui.selected
      /\ ui'.source = ui.source /\ ui'.prepared = ui.prepared
      /\ ui'.name = ui.name /\ ui'.start = ui.start
  BY <1>1 DEF OpenEditor, TermField, UiStates, EditingTerms
<1>3. The(ui.prepared) \in ui'.prepared
  BY <1>2 DEF The
<1>4. EditsThisTerm'
  BY <1>1, <1>2, <1>3 DEF EditsThisTerm
<1>5. OnePrepared' /\ TermIsShown'
  BY <1>1, <1>2 DEF PageInv, OnePrepared, TermIsShown
<1> QED
  BY <1>2, <1>4, <1>5, SameDevice DEF PageInv

\* A file that is prepared anew, with its term inferred, and the editor closed.
LEMMA InferredPage ==
  ASSUME PageInv, NEW s \in UiStates, s.devices = ui.devices, s.selected = ui.selected,
         s.editing = "none",
         NEW disk, NEW path, NEW r, IsPrepared(r, disk, path, s.source, "", ""),
         ui' = SyncTermFields([s EXCEPT !.prepared = {r}])
  PROVE  PageInv'
<1> DEFINE t == [s EXCEPT !.prepared = {r}]
<1>1. r \in Prepareds
  BY DEF IsPrepared
<1>2. /\ t \in UiStates /\ t.prepared = {r} /\ t.source = s.source
      /\ t.devices = s.devices /\ t.selected = s.selected /\ t.editing = "none"
  BY <1>1 DEF UiStates
<1>3. IsPrepared(r, disk, path, t.source, "", "")
  BY <1>2
<1> HIDE DEF t
<1>4. /\ ui' \in UiStates
      /\ ui'.source = t.source /\ ui'.devices = t.devices /\ ui'.selected = t.selected
      /\ ui'.editing = t.editing /\ ui'.prepared = t.prepared
      /\ ui'.name = r.schedule.name /\ ui'.name # ""
      /\ Dated[ui'.start] = {r.schedule.start} /\ ui'.start # ""
  BY <1>2, <1>3, Synced DEF t
<1>5. SelectedIsListed'
  BY <1>2, <1>4, SameDevice DEF PageInv
<1>6. EditsThisTerm'
  BY <1>2, <1>4 DEF EditsThisTerm
<1>7. r.schedule.by = ui'.source
  BY <1>2, <1>4 DEF IsPrepared, IsSchedule
<1> QED
  BY <1>2, <1>4, <1>5, <1>6, <1>7, NewTerm

LEMMA PickStep == ImportInv /\ FilePicked => PageInv'
<1> SUFFICES ASSUME ImportInv, FilePicked PROVE PageInv'
  OBVIOUS
<1> DEFINE file == picks[1]
           s == ClearTermEditing(ui)
<1>1. file \in Files
  BY FirstElement DEF ImportInv, WorldInv, FilePicked
<1>2. file.name \in Names /\ file.content \in Contents
  BY <1>1 DEF Names, Contents
<1>3. /\ ui \in UiStates /\ PageInv /\ media \in Medias
  BY DEF ImportInv, PageInv, WorldInv
<1>4. /\ s \in UiStates /\ s.editing = "none"
      /\ s.source = ui.source /\ s.devices = ui.devices /\ s.selected = ui.selected
      /\ s.prepared = ui.prepared /\ s.name = ui.name /\ s.start = ui.start
  BY <1>3, Closed
<1>5. CASE ui' = s /\ refused' = TRUE
  <2>1. OnePrepared' /\ TermIsShown' /\ EditsThisTerm'
    BY <1>3, <1>4, <1>5 DEF PageInv, OnePrepared, TermIsShown, EditsThisTerm
  <2> QED
    BY <1>3, <1>4, <1>5, <2>1, SameDevice DEF PageInv
<1>6. CASE ~(ui' = s /\ refused' = TRUE)
  <2>1. /\ media' \in {media, [media EXCEPT ![file.name] = file.content]}
        /\ PickedFrom(media', file.name, ui.source) # {}
        /\ ui' = SyncTermFields([s EXCEPT !.prepared = PickedFrom(media', file.name, ui.source)])
    BY <1>6 DEF FilePicked
  <2>2. media' \in Medias
    BY <1>2, <1>3, <2>1 DEF Medias
  <2>3. ui.source \in Sources /\ "" \in Texts
    BY <1>3, TextAssumption DEF UiStates
  <2>4. PICK r : r \in PrepareFile(media', file.name, ui.source, "", "")
    BY <2>1 DEF PickedFrom
  <2>5. /\ IsPrepared(r, media', file.name, ui.source, "", "")
        /\ \A q \in PrepareFile(media', file.name, ui.source, "", "") : q = r
    BY <1>2, <2>2, <2>3, <2>4, FilePrepared
  <2>6. PickedFrom(media', file.name, ui.source) = {r}
    BY <2>4, <2>5 DEF PickedFrom
  <2>7. IsPrepared(r, media', file.name, s.source, "", "")
    BY <1>4, <2>5
  <2> HIDE DEF s
  <2> QED
    BY <1>3, <1>4, <2>1, <2>6, <2>7, InferredPage
<1> QED
  BY <1>5, <1>6

LEMMA SourceStep == ASSUME NEW source \in Sources PROVE ImportInv /\ EventSource(source) => PageInv'
<1> SUFFICES ASSUME ImportInv, EventSource(source), ui.source # source PROVE PageInv'
  BY DEF EventSource, ImportInv, PageInv, OnePrepared, SelectedIsListed, EditsThisTerm, TermIsShown
<1> DEFINE s == SwitchSource(ui, source)
           next == Reprepared(s, "", "")
<1>1. ui \in UiStates /\ PageInv /\ media \in Medias /\ editFor' = editFor
  BY DEF ImportInv, PageInv, WorldInv, EventSource
<1>2. /\ s \in UiStates /\ s.editing = "none" /\ s.source = source
      /\ s.devices = ui.devices /\ s.selected = ui.selected
      /\ s.prepared = ui.prepared /\ s.name = ui.name /\ s.start = ui.start
  <2>1. /\ [ui EXCEPT !.source = source] \in UiStates
        /\ [ui EXCEPT !.source = source].source = source
        /\ [ui EXCEPT !.source = source].devices = ui.devices
        /\ [ui EXCEPT !.source = source].selected = ui.selected
        /\ [ui EXCEPT !.source = source].prepared = ui.prepared
        /\ [ui EXCEPT !.source = source].name = ui.name
        /\ [ui EXCEPT !.source = source].start = ui.start
    BY <1>1 DEF UiStates
  <2> QED
    BY <2>1, Closed DEF SwitchSource
<1>3. CASE ui' = s /\ (s.prepared # {} => refused' = TRUE)
  <2>1. OnePrepared' /\ TermIsShown' /\ EditsThisTerm'
    BY <1>1, <1>2, <1>3 DEF PageInv, OnePrepared, TermIsShown, EditsThisTerm
  <2> QED
    BY <1>1, <1>2, <1>3, <2>1, SameDevice DEF PageInv
<1>4. CASE ~(ui' = s /\ (s.prepared # {} => refused' = TRUE))
  <2>1. next # {} /\ ui' = SyncTermFields([s EXCEPT !.prepared = next])
    BY <1>4 DEF EventSource
  <2>2. PICK r : r \in next
    BY <2>1
  <2>3. "" \in Texts /\ \A p, q \in s.prepared : p = q
    BY <1>1, <1>2, TextAssumption DEF PageInv, OnePrepared
  <2> HIDE DEF s
  <2>4. /\ IsPrepared(r, media, r.path, s.source, "", "")
        /\ \A q \in Reprepared(s, "", "") : q = r
    BY <1>1, <1>2, <2>2, <2>3, AgainPrepared
  <2>5. next = {r}
    BY <2>2, <2>4
  <2> HIDE DEF next
  <2> QED
    BY <1>1, <1>2, <2>1, <2>4, <2>5, InferredPage
<1> QED
  BY <1>3, <1>4

LEMMA ApplyStep == ImportInv /\ EventApply => PageInv'
<1> SUFFICES ASSUME ImportInv, EventApply, ui.editing # "none" PROVE PageInv'
  BY DEF EventApply, ImportInv, PageInv, OnePrepared, SelectedIsListed, EditsThisTerm, TermIsShown
<1> DEFINE closed == ClearTermEditing(ui)
           s == SetTermField(closed, ui.editing, ui.draft)
           next == Reprepared(s, s.name, s.start)
<1>1. ui \in UiStates /\ PageInv /\ media \in Medias /\ editFor' = editFor
  BY DEF ImportInv, PageInv, WorldInv, EventApply
<1>2. /\ closed \in UiStates /\ closed.editing = "none" /\ closed.source = ui.source
      /\ closed.devices = ui.devices /\ closed.selected = ui.selected
      /\ closed.prepared = ui.prepared /\ closed.name = ui.name /\ closed.start = ui.start
  BY <1>1, Closed
<1>3. CASE ui' = closed /\ refused' = refused
  <2> HIDE DEF closed
  <2> QED
    BY <1>1, <1>2, <1>3, SameTerm, SameDevice DEF PageInv
<1>4. CASE ~(ui' = closed /\ refused' = refused)
  <2>1. /\ ui.draft # ""
        /\ \/ ui' = s /\ refused' = TRUE
           \/ next # {} /\ ui' = [s EXCEPT !.prepared = next]
    BY <1>4 DEF EventApply
  <2>2. ui.draft \in Texts /\ ui.prepared # {}
    BY <1>1 DEF UiStates, PageInv, EditsThisTerm
  <2>3. ui.name # "" /\ ui.start # "" /\ \A p, q \in ui.prepared : p = q
    BY <1>1, <2>2 DEF PageInv, OnePrepared
  <2>4. /\ s \in UiStates /\ s.editing = "none" /\ s.source = ui.source
        /\ s.devices = ui.devices /\ s.selected = ui.selected
        /\ s.prepared = ui.prepared /\ s.name # "" /\ s.start # ""
    <3> HIDE DEF closed
    <3>1. s \in {[closed EXCEPT !.name = ui.draft], [closed EXCEPT !.start = ui.draft]}
      BY DEF SetTermField
    <3>2. CASE s = [closed EXCEPT !.name = ui.draft]
      BY <1>2, <2>1, <2>2, <2>3, <3>2 DEF UiStates
    <3>3. CASE s = [closed EXCEPT !.start = ui.draft]
      BY <1>2, <2>1, <2>2, <2>3, <3>3 DEF UiStates
    <3> QED
      BY <3>1, <3>2, <3>3
  <2> HIDE DEF s, closed
  <2>5. CASE ui' = s /\ refused' = TRUE
    <3>1. OnePrepared' /\ TermIsShown' /\ EditsThisTerm'
      BY <1>1, <2>4, <2>5 DEF PageInv, OnePrepared, TermIsShown, EditsThisTerm
    <3> QED
      BY <1>1, <2>4, <2>5, <3>1, SameDevice DEF PageInv
  <2>6. CASE next # {} /\ ui' = [s EXCEPT !.prepared = next]
    <3>1. PICK r : r \in next
      BY <2>6
    <3>2. s.name \in Texts /\ s.start \in Texts /\ \A p, q \in s.prepared : p = q
      BY <2>3, <2>4 DEF UiStates
    <3>3. /\ IsPrepared(r, media, r.path, s.source, s.name, s.start)
          /\ \A q \in Reprepared(s, s.name, s.start) : q = r
      BY <1>1, <2>4, <3>1, <3>2, AgainPrepared
    <3>4. next = {r}
      BY <3>1, <3>3
    <3> HIDE DEF next
    <3>5. r \in Prepareds /\ r.schedule.by = s.source /\ r.schedule.name = s.name
          /\ Dated[s.start] = {r.schedule.start}
      BY <2>4, <3>3 DEF IsPrepared, IsSchedule
    <3>6. /\ ui' \in UiStates /\ ui'.prepared = {r} /\ ui'.source = s.source
          /\ ui'.devices = s.devices /\ ui'.selected = s.selected /\ ui'.editing = "none"
          /\ ui'.name = s.name /\ ui'.start = s.start
      BY <2>4, <2>6, <3>4, <3>5 DEF UiStates
    <3>7. SelectedIsListed' /\ EditsThisTerm'
      BY <1>1, <2>4, <3>6, SameDevice DEF PageInv, EditsThisTerm
    <3> QED
      BY <2>4, <3>5, <3>6, <3>7, NewTerm
  <2> QED
    BY <2>1, <2>5, <2>6
<1> QED
  BY <1>3, <1>4

\* What schedule_for_push prepares, and so what start_push sends.
PushOf(r) ==
    \/ /\ r \in ui.prepared /\ MediaUnavailable(r.path)
    \/ /\ IsPrepared(r, media, r.path, ui.source, ui.name, ui.start)
       /\ \A p \in ui.prepared : p.path = r.path

LEMMA ScheduledForPush ==
  ASSUME ImportInv, NEW r \in ScheduleForPush(ui)
  PROVE  /\ ScheduleForPush(ui) = {r} /\ PushOf(r) /\ r \in Prepareds
         /\ ui.prepared # {} /\ \A p \in ui.prepared : p.path = r.path
<1>1. /\ ui \in UiStates /\ media \in Medias /\ ui.name \in Texts /\ ui.start \in Texts
      /\ \A p, q \in ui.prepared : p = q
  BY DEF ImportInv, PageInv, WorldInv, OnePrepared, UiStates
<1>2. CASE \E p \in ui.prepared : MediaUnavailable(p.path)
  <2>1. ScheduleForPush(ui) = ui.prepared
    BY <1>2 DEF ScheduleForPush
  <2>2. r \in Prepareds
    BY <1>1, <2>1 DEF UiStates
  <2> QED
    BY <1>1, <1>2, <2>1, <2>2 DEF PushOf
<1>3. CASE ~\E p \in ui.prepared : MediaUnavailable(p.path)
  <2>1. ScheduleForPush(ui) = Reprepared(ui, ui.name, ui.start)
    BY <1>3 DEF ScheduleForPush
  <2>2. /\ ui.prepared # {} /\ \A p \in ui.prepared : p.path = r.path
        /\ IsPrepared(r, media, r.path, ui.source, ui.name, ui.start)
        /\ \A q \in Reprepared(ui, ui.name, ui.start) : q = r
    BY <1>1, <2>1, AgainPrepared
  <2> QED
    BY <2>1, <2>2 DEF PushOf, IsPrepared
<1> QED
  BY <1>2, <1>3

LEMMA PushStep == ImportInv /\ EventPush => PageInv'
<1> SUFFICES ASSUME ImportInv, EventPush PROVE PageInv'
  OBVIOUS
<1>1. ui \in UiStates /\ PageInv /\ editFor' = editFor
  BY DEF ImportInv, PageInv, EventPush
<1>2. CASE ui' = ui /\ refused' = refused
  BY <1>1, <1>2 DEF PageInv, OnePrepared, SelectedIsListed, EditsThisTerm, TermIsShown
<1>3. CASE ~(ui' = ui /\ refused' = refused)
  <2> DEFINE next == ScheduleForPush(ui)
             gone == \E p \in ui.prepared : MediaUnavailable(p.path)
  <2>1. /\ next # {} /\ refused' = (refused /\ gone)
        /\ \/ ui' = [ui EXCEPT !.prepared = next]
           \/ ui' = [[ui EXCEPT !.prepared = next] EXCEPT !.busy = TRUE]
    BY <1>3 DEF EventPush
  <2>2. PICK r : r \in next
    BY <2>1
  <2>3. /\ next = {r} /\ PushOf(r) /\ r \in Prepareds
        /\ ui.prepared # {} /\ \A p \in ui.prepared : p.path = r.path
    BY <2>2, ScheduledForPush
  <2>4. gone => next = ui.prepared
    BY DEF ScheduleForPush
  <2> HIDE DEF next
  <2>5. /\ ui' \in UiStates /\ ui'.prepared = {r} /\ ui'.source = ui.source
        /\ ui'.devices = ui.devices /\ ui'.selected = ui.selected
        /\ ui'.editing = ui.editing /\ ui'.name = ui.name /\ ui'.start = ui.start
    <3>1. CASE ui' = [ui EXCEPT !.prepared = next]
      BY <1>1, <2>3, <3>1 DEF UiStates
    <3>2. CASE ui' = [[ui EXCEPT !.prepared = next] EXCEPT !.busy = TRUE]
      BY <1>1, <2>3, <3>2 DEF UiStates
    <3> QED
      BY <2>1, <3>1, <3>2
  <2>6. SelectedIsListed'
    BY <1>1, <2>5, SameDevice DEF PageInv
  <2>7. EditsThisTerm'
    BY <1>1, <2>3, <2>5 DEF PageInv, EditsThisTerm
  <2>8. OnePrepared'
    BY <1>1, <2>3, <2>5 DEF PageInv, OnePrepared
  <2>9. TermIsShown'
    <3>1. CASE gone
      BY <1>1, <2>1, <2>3, <2>4, <2>5, <3>1 DEF PageInv, TermIsShown
    <3>2. CASE ~gone
      <4>1. IsPrepared(r, media, r.path, ui.source, ui.name, ui.start)
        BY <2>3, <3>2 DEF PushOf
      <4>2. ui.name # "" /\ ui.start # ""
        BY <1>1, <2>3 DEF PageInv, OnePrepared
      <4> QED
        BY <2>5, <4>1, <4>2 DEF TermIsShown, IsPrepared, IsSchedule
    <3> QED
      BY <3>1, <3>2
  <2> QED
    BY <2>5, <2>6, <2>7, <2>8, <2>9 DEF PageInv
<1> QED
  BY <1>2, <1>3

\* Push handlers end a push, or leave the page.
LEMMA HandlerStep == PageInv /\ (PushHandler \/ PushHandlerReturns) => PageInv'
<1> SUFFICES ASSUME PageInv, PushHandler \/ PushHandlerReturns PROVE PageInv'
  OBVIOUS
<1>1. /\ ui' \in {ui, [ui EXCEPT !.busy = FALSE]}
      /\ editFor' = editFor /\ refused' = refused
  BY DEF PushHandler, PushHandlerReturns, Finish, pushVars
<1>2. ui \in UiStates
  BY DEF PageInv
<1>3. /\ ui' \in UiStates /\ ui'.devices = ui.devices /\ ui'.selected = ui.selected
      /\ ui'.source = ui.source /\ ui'.prepared = ui.prepared
      /\ ui'.name = ui.name /\ ui'.start = ui.start /\ ui'.editing = ui.editing
  BY <1>1, <1>2 DEF UiStates
<1> QED
  BY <1>1, <1>3, SameTerm, SameDevice DEF PageInv

LEMMA PageStays ==
  PageInv /\ UNCHANGED <<ui, editFor, refused>> => PageInv'
<1> SUFFICES ASSUME PageInv, UNCHANGED <<ui, editFor, refused>> PROVE PageInv'
  OBVIOUS
<1>1. ui' = ui /\ editFor' = editFor /\ refused' = refused
  OBVIOUS
<1>2. ui' \in UiStates
  BY <1>1 DEF PageInv
<1>3. SelectedIsListed'
  BY <1>1 DEF PageInv, SelectedIsListed
<1> QED
  BY <1>1, <1>2, <1>3, SameTerm

LEMMA PageStep == ImportInv /\ [Next]_vars => PageInv'
<1> SUFFICES ASSUME ImportInv, [Next]_vars PROVE PageInv'
  OBVIOUS
<1>0. PageInv
  BY DEF ImportInv
<1>1. CASE HostNext
  <2>1. UNCHANGED <<ui, editFor, refused>>
    BY <1>1 DEF HostNext, ConnectionChanges, RenderMainUi, DialogEnds, HostLists,
                DialogAnswers, FileLost
  <2> QED
    BY <1>0, <2>1, PageStays
<1>2. CASE UserActs
  BY <1>0, <1>2, PageStays DEF UserActs
<1>3. CASE DeviceAction \/ EventRefresh \/ EventPick
  BY <1>0, <1>3, PageStays DEF DeviceAction, EventRefresh, EventPick
<1>4. CASE DevicesListed
  BY <1>4, ListStep
<1>5. CASE FilePicked
  BY <1>5, PickStep
<1>6. CASE PushHandler \/ PushHandlerReturns
  BY <1>0, <1>6, HandlerStep
<1>7. CASE \E t \in {"import", "settings"} : EventTab(t)
  BY <1>0, <1>7, TabStep
<1>8. CASE \E d \in Devices : EventDevice(d.name)
  BY <1>0, <1>8, DeviceStep
<1>9. CASE \E s \in Sources : EventSource(s)
  BY <1>9, SourceStep
<1>10. CASE \E f \in {"name", "start"} : EventEdit(f)
  BY <1>0, <1>10, EditStep
<1>11. CASE \E t \in Typed : EventDraft(t)
  BY <1>0, <1>11, DraftStep
<1>12. CASE EventApply
  BY <1>12, ApplyStep
<1>13. CASE EventCancel
  BY <1>0, <1>13, CancelStep
<1>14. CASE EventPush
  BY <1>14, PushStep
<1>15. CASE UNCHANGED vars
  BY <1>0, <1>15, PageStays DEF vars
<1> QED
  BY <1>1, <1>2, <1>3, <1>4, <1>5, <1>6, <1>7, <1>8, <1>9, <1>10, <1>11, <1>12, <1>13,
     <1>14, <1>15 DEF Next, ResumeNext, EventNext

THEOREM ImportInvariant == Spec => []ImportInv
<1>1. Init => ImportInv
  BY InitImport
<1>2. ImportInv /\ [Next]_vars => ImportInv'
  BY WorldStep, PageStep DEF ImportInv
<1> QED
  BY <1>1, <1>2, PTL DEF Spec

-----------------------------------------------------------------------------
(* What the page promises                                                   *)

\* refresh_devices, EVENT_DEVICE: the push button aims at a wristband of the
\* list, whatever comes, goes and is chosen from a list that is no longer true.
THEOREM SelectedStaysListed == Spec => []SelectedIsListed
<1>1. ImportInv => SelectedIsListed
  BY DEF ImportInv, PageInv
<1> QED
  BY <1>1, ImportInvariant, PTL

\* clear_term_editing: an editor never outlives the file or source it was
\* opened for, although the file dialog returns at any time.
THEOREM EditorsClose == Spec => []EditsThisTerm
<1>1. ImportInv => EditsThisTerm
  BY DEF ImportInv, PageInv
<1> QED
  BY <1>1, ImportInvariant, PTL

\* sync_term_fields_from_prepared: the term and the source on the page are
\* those of the schedule prepared, unless the last change was refused.
THEOREM TermStaysShown == Spec => []TermIsShown
<1>1. ImportInv => TermIsShown
  BY DEF ImportInv, PageInv
<1> QED
  BY <1>1, ImportInvariant, PTL

\* The one step that begins a push.
LEMMA PushBegins == ImportInv /\ EventPush => PushIsShown
<1> SUFFICES ASSUME ImportInv, EventPush, NEW push \in pending', push \notin pending
             PROVE  /\ push.addr \in ListedAddresses(ui'.devices)
                    /\ \A p \in ui'.prepared :
                        /\ push.schedule = p.schedule
                        /\ ~MediaUnavailable(p.path) =>
                            /\ p.schedule.of = media[p.path]
                            /\ p.schedule.by = ui'.source /\ p.schedule.name = ui'.name
                            /\ Dated[ui'.start] = {p.schedule.start}
  BY DEF PushIsShown
<1> DEFINE next == ScheduleForPush(ui)
           s == [ui EXCEPT !.prepared = next]
<1>1. /\ next # {} /\ s.selected # ""
      /\ ui' = [s EXCEPT !.busy = TRUE]
      /\ pending' = {[addr |-> s.selected, schedule |-> The(next).schedule]}
  BY DEF EventPush
<1>2. PICK r : r \in next
  BY <1>1
<1>3. /\ next = {r} /\ PushOf(r) /\ r \in Prepareds
      /\ ui.prepared # {} /\ \A q \in ui.prepared : q.path = r.path
  BY <1>2, ScheduledForPush
<1>4. The(next) = r
  BY <1>3 DEF The
<1> HIDE DEF next
<1>5. /\ ui \in UiStates /\ SelectedIsListed
      /\ ui.name # "" /\ ui.start # ""
  BY <1>3 DEF ImportInv, PageInv, OnePrepared
<1>6. /\ s.selected = ui.selected /\ ui'.prepared = {r} /\ ui'.source = ui.source
      /\ ui'.devices = ui.devices /\ ui'.name = ui.name /\ ui'.start = ui.start
  BY <1>1, <1>3, <1>5 DEF UiStates
<1>7. push = [addr |-> ui.selected, schedule |-> r.schedule]
  BY <1>1, <1>4, <1>6
<1>8. push.addr \in ListedAddresses(ui'.devices)
  BY <1>1, <1>5, <1>6, <1>7 DEF SelectedIsListed
<1>9. ASSUME ~MediaUnavailable(r.path)
      PROVE  /\ r.schedule.of = media[r.path]
             /\ r.schedule.by = ui'.source /\ r.schedule.name = ui'.name
             /\ Dated[ui'.start] = {r.schedule.start}
  <2>1. IsPrepared(r, media, r.path, ui.source, ui.name, ui.start)
    BY <1>3, <1>9 DEF PushOf
  <2> QED
    BY <1>5, <1>6, <2>1 DEF IsPrepared, IsSchedule
<1> QED
  BY <1>6, <1>7, <1>8, <1>9

LEMMA PushShown == ImportInv /\ [Next]_vars => [PushIsShown]_vars
<1> SUFFICES ASSUME ImportInv, [Next]_vars, ~EventPush PROVE PushIsShown
  BY PushBegins
<1>1. pending' \subseteq pending
  <2>1. CASE HostNext \/ UserActs \/ DeviceAction \/ DevicesListed \/ FilePicked
    BY <2>1 DEF HostNext, ConnectionChanges, RenderMainUi, DialogEnds, HostLists, DialogAnswers,
                FileLost, UserActs, DeviceAction, DevicesListed, FilePicked, pushVars
  <2>2. CASE PushHandler \/ PushHandlerReturns
    BY <2>2 DEF PushHandler, PushHandlerReturns, Finish, pushVars
  <2>3. CASE EventNext
    BY <2>3 DEF EventNext, EventTab, EventDevice, EventSource, EventEdit, EventDraft,
                EventRefresh, EventPick, EventApply, EventCancel, pushVars
  <2>4. CASE UNCHANGED vars
    BY <2>4 DEF vars, pushVars
  <2> QED
    BY <2>1, <2>2, <2>3, <2>4 DEF Next, ResumeNext
<1> QED
  BY <1>1 DEF PushIsShown

\* start_push: what is sent is what the page shows, converted from the file as
\* it is, unless the file is gone; it goes to a wristband of the list.
THEOREM PushesAreShown == Spec => PushedAsShown
<1> QED
  BY ImportInvariant, PushShown, PTL DEF Spec, PushedAsShown

-----------------------------------------------------------------------------
(* The button and the push                                                  *)

ButtonInv == (ui.busy <=> pending # {}) /\ (pending = {} => waiting = 0)

\* What leaves the button and the push keeps them in agreement.
LEMMA ButtonStays ==
    ASSUME ButtonInv, ui'.busy = ui.busy, UNCHANGED <<pending, waiting>>
    PROVE  ButtonInv'
  BY DEF ButtonInv

LEMMA ButtonStep == ImportInv /\ ButtonInv /\ [Next]_vars => ButtonInv'
<1> SUFFICES ASSUME ImportInv, ButtonInv, [Next]_vars PROVE ButtonInv'
  OBVIOUS
<1>0. ui \in UiStates
  BY DEF ImportInv, PageInv
<1>1. CASE HostNext \/ UserActs \/ DeviceAction \/ UNCHANGED vars
  <2>1. UNCHANGED <<ui, pending, waiting>>
    BY <1>1 DEF HostNext, ConnectionChanges, RenderMainUi, DialogEnds, HostLists, DialogAnswers,
                FileLost, UserActs, DeviceAction, vars, pushVars
  <2> QED
    BY <2>1, ButtonStays
<1>2. CASE DevicesListed
  <2>1. ui'.busy = ui.busy /\ UNCHANGED <<pending, waiting>>
    BY <1>0, <1>2 DEF DevicesListed, pushVars, UiStates
  <2> QED
    BY <2>1, ButtonStays
<1>3. ASSUME NEW s, "busy" \in DOMAIN s
      PROVE  /\ ClearTermEditing(s).busy = s.busy /\ "busy" \in DOMAIN ClearTermEditing(s)
             /\ SyncTermFields(s).busy = s.busy
             /\ \A next : LET t == [s EXCEPT !.prepared = next] IN t.busy = s.busy /\ "busy" \in DOMAIN t
             /\ \A next : LET t == [s EXCEPT !.source = next] IN t.busy = s.busy /\ "busy" \in DOMAIN t
             /\ \A f, x : SetTermField(s, f, x).busy = s.busy /\ "busy" \in DOMAIN SetTermField(s, f, x)
             /\ \A f : OpenEditor(s, f).busy = s.busy
  BY <1>3 DEF ClearTermEditing, SyncTermFields, SetTermField, OpenEditor
<1>4. "busy" \in DOMAIN ui
  BY <1>0 DEF UiStates
<1>5. CASE FilePicked
  <2>1. \/ ui' = ClearTermEditing(ui)
        \/ \E next : ui' = SyncTermFields([ClearTermEditing(ui) EXCEPT !.prepared = next])
    BY <1>5 DEF FilePicked
  <2> DEFINE s == ClearTermEditing(ui)
  <2>2. s.busy = ui.busy /\ "busy" \in DOMAIN s
    BY <1>3, <1>4
  <2>3. ASSUME NEW next
        PROVE  SyncTermFields([s EXCEPT !.prepared = next]).busy = ui.busy
    BY <1>3, <2>2
  <2> HIDE DEF s
  <2>4. ui'.busy = ui.busy
    BY <2>1, <2>2, <2>3 DEF s
  <2> QED
    BY <1>5, <2>4, ButtonStays DEF FilePicked, pushVars
<1>6. CASE \E s \in Sources : EventSource(s)
  <2>1. PICK s \in Sources : EventSource(s)
    BY <1>6
  <2>2. \/ ui' = ui
        \/ ui' = SwitchSource(ui, s)
        \/ \E next : ui' = SyncTermFields([SwitchSource(ui, s) EXCEPT !.prepared = next])
    BY <2>1 DEF EventSource
  <2>3. SwitchSource(ui, s).busy = ui.busy /\ "busy" \in DOMAIN SwitchSource(ui, s)
    BY <1>3, <1>4 DEF SwitchSource
  <2>4. ASSUME NEW next
        PROVE  SyncTermFields([SwitchSource(ui, s) EXCEPT !.prepared = next]).busy = ui.busy
    BY <1>3, <2>3
  <2>5. ui'.busy = ui.busy
    BY <2>2, <2>3, <2>4
  <2> QED
    BY <2>1, <2>5, ButtonStays DEF EventSource, pushVars
<1>7. CASE EventApply
  <2>1. \/ ui' = ui
        \/ ui' = ClearTermEditing(ui)
        \/ ui' = SetTermField(ClearTermEditing(ui), ui.editing, ui.draft)
        \/ \E next : ui' = [SetTermField(ClearTermEditing(ui), ui.editing, ui.draft) EXCEPT !.prepared = next]
    BY <1>7 DEF EventApply
  <2>2. ui'.busy = ui.busy
    BY <1>3, <1>4, <2>1
  <2> QED
    BY <1>7, <2>2, ButtonStays DEF EventApply, pushVars
<1>8. CASE EventCancel \/ EventRefresh \/ EventPick
  <2>1. ui'.busy = ui.busy /\ UNCHANGED <<pending, waiting>>
    BY <1>3, <1>4, <1>8 DEF EventCancel, EventRefresh, EventPick, pushVars
  <2> QED
    BY <2>1, ButtonStays
<1>9. CASE \E f \in {"name", "start"} : EventEdit(f)
  <2>1. PICK f \in {"name", "start"} : EventEdit(f)
    BY <1>9
  <2>2. ui' \in {ui, OpenEditor(ui, f)} /\ UNCHANGED <<pending, waiting>>
    BY <2>1 DEF EventEdit, pushVars
  <2>3. OpenEditor(ui, f).busy = ui.busy
    BY <1>3, <1>4
  <2> QED
    BY <2>2, <2>3, ButtonStays
<1>10. CASE \/ \E t \in {"import", "settings"} : EventTab(t)
            \/ \E d \in Devices : EventDevice(d.name)
            \/ \E t \in Typed : EventDraft(t)
  <2>1. ui'.busy = ui.busy /\ UNCHANGED <<pending, waiting>>
    BY <1>4, <1>10 DEF EventTab, EventDevice, EventDraft, pushVars
  <2> QED
    BY <2>1, ButtonStays
<1>11. CASE EventPush
  <2> DEFINE next == ScheduleForPush(ui)
             s == [ui EXCEPT !.prepared = next]
  <2>1. s.busy = ui.busy /\ "busy" \in DOMAIN s
    BY <1>3, <1>4
  <2>2. CASE ui' = ui \/ ui' = s
    <3>1. CASE UNCHANGED <<pending, waiting>>
      BY <2>1, <2>2, <3>1, ButtonStays
    <3>2. CASE ~UNCHANGED <<pending, waiting>>
      <4>1. ui' = [s EXCEPT !.busy = TRUE] /\ pending' # {}
        BY <1>11, <3>2 DEF EventPush
      <4> QED
        BY <2>1, <4>1 DEF ButtonInv
    <3> QED
      BY <3>1, <3>2
  <2>3. CASE ui' # ui /\ ui' # s
    <3>1. ui' = [s EXCEPT !.busy = TRUE] /\ pending' # {}
      BY <1>11, <2>3 DEF EventPush
    <3> QED
      BY <2>1, <3>1 DEF ButtonInv
  <2> QED
    BY <2>2, <2>3
<1>12. ASSUME NEW n, Finish(n)
       PROVE  ButtonInv'
  BY <1>4, <1>12 DEF Finish, ButtonInv
<1>13. CASE PushHandler
  <2>1. CASE \E n : Finish(n)
    BY <2>1, <1>12
  <2>2. CASE ~\E n : Finish(n)
    <3>1. UNCHANGED <<ui, pending>> /\ pending # {}
      BY <1>13, <2>2 DEF PushHandler, pushVars
    <3> QED
      BY <3>1 DEF ButtonInv
  <2> QED
    BY <2>1, <2>2
<1>14. CASE PushHandlerReturns
  <2>1. CASE \E n : Finish(n)
    BY <2>1, <1>12
  <2>2. CASE ~\E n : Finish(n)
    <3>1. UNCHANGED <<ui, pending>> /\ (waiting' = waiting \/ waiting > 0)
      BY <1>14, <2>2 DEF PushHandlerReturns
    <3>2. waiting > 0 => waiting # 0
      OBVIOUS
    <3> QED
      BY <3>1, <3>2 DEF ButtonInv
  <2> QED
    BY <2>1, <2>2
<1> QED
  BY <1>1, <1>2, <1>5, <1>6, <1>7, <1>8, <1>9, <1>10, <1>11, <1>13, <1>14 DEF Next, ResumeNext, EventNext

\* The types of the page's state; the button is locked exactly while a push is
\* under way, whatever handlers return late (start_push, finish).
THEOREM ImportTypes == Spec => []ImportTypeOK
<1>1. Init => ButtonInv
  <2> SUFFICES ASSUME Init PROVE ButtonInv
    OBVIOUS
  <2>1. ui.busy = FALSE
    BY DEF Init
  <2>2. ~ui.busy
    BY <2>1
  <2>3. pending = {} /\ waiting = 0
    BY DEF Init
  <2> QED
    BY <2>2, <2>3, Zenon DEF ButtonInv
<1>2. ImportInv /\ ButtonInv => ImportTypeOK
  BY DEF ImportInv, WorldInv, PageInv, Medias, ButtonInv, ImportTypeOK
<1> QED
  BY <1>1, <1>2, ImportInvariant, ButtonStep, PTL DEF Spec

-----------------------------------------------------------------------------
(* The device list                                                          *)

Asking == asking["load"] = 0 /\ asking["page"] = 0

\* The list asked for last, whether or not its handler has resumed.
LatestList == IF lists = <<>> THEN ui.devices ELSE lists[Len(lists)].list

ListInv ==
    /\ notices \in Nat /\ asking \in [{"load", "page"} -> Nat]
    /\ notices = 0 /\ Asking => LatestList = connected

\* The list of devices is set where the host's answer is handled, nowhere else.
LEMMA DevicesStay == ImportInv /\ [Next]_vars /\ ~DevicesListed => ui'.devices = ui.devices
<1> SUFFICES ASSUME ImportInv, [Next]_vars, ~DevicesListed PROVE ui'.devices = ui.devices
  OBVIOUS
<1>0. ui \in UiStates
  BY DEF ImportInv, PageInv
<1>1. ASSUME NEW s, "devices" \in DOMAIN s
      PROVE  /\ ClearTermEditing(s).devices = s.devices /\ "devices" \in DOMAIN ClearTermEditing(s)
             /\ SyncTermFields(s).devices = s.devices
             /\ \A next : LET t == [s EXCEPT !.prepared = next]
                          IN  t.devices = s.devices /\ "devices" \in DOMAIN t
             /\ \A next : LET t == [s EXCEPT !.source = next]
                          IN  t.devices = s.devices /\ "devices" \in DOMAIN t
             /\ \A f, x : /\ SetTermField(s, f, x).devices = s.devices
                          /\ "devices" \in DOMAIN SetTermField(s, f, x)
             /\ \A f : OpenEditor(s, f).devices = s.devices
             /\ \A b : [s EXCEPT !.busy = b].devices = s.devices
  BY <1>1 DEF ClearTermEditing, SyncTermFields, SetTermField, OpenEditor
<1>2. "devices" \in DOMAIN ui
  BY <1>0 DEF UiStates
<1>3. CASE HostNext \/ UserActs \/ DeviceAction \/ UNCHANGED vars
  BY <1>3 DEF HostNext, ConnectionChanges, RenderMainUi, DialogEnds, HostLists, DialogAnswers,
              FileLost, UserActs, DeviceAction, vars
<1>4. CASE FilePicked
  <2> DEFINE s == ClearTermEditing(ui)
  <2>1. \/ ui' = s
        \/ \E next : ui' = SyncTermFields([s EXCEPT !.prepared = next])
    BY <1>4 DEF FilePicked
  <2>2. s.devices = ui.devices /\ "devices" \in DOMAIN s
    BY <1>1, <1>2
  <2>3. ASSUME NEW next
        PROVE  SyncTermFields([s EXCEPT !.prepared = next]).devices = ui.devices
    BY <1>1, <2>2
  <2> HIDE DEF s
  <2> QED
    BY <2>1, <2>2, <2>3
<1>5. CASE \E s \in Sources : EventSource(s)
  <2>1. PICK source \in Sources : EventSource(source)
    BY <1>5
  <2> DEFINE s == SwitchSource(ui, source)
  <2>2. \/ ui' = ui
        \/ ui' = s
        \/ \E next : ui' = SyncTermFields([s EXCEPT !.prepared = next])
    BY <2>1 DEF EventSource
  <2>3. s.devices = ui.devices /\ "devices" \in DOMAIN s
    BY <1>1, <1>2 DEF SwitchSource
  <2>4. ASSUME NEW next
        PROVE  SyncTermFields([s EXCEPT !.prepared = next]).devices = ui.devices
    BY <1>1, <2>3
  <2> HIDE DEF s
  <2> QED
    BY <2>2, <2>3, <2>4
<1>6. CASE EventApply
  <2> DEFINE s == SetTermField(ClearTermEditing(ui), ui.editing, ui.draft)
  <2>1. \/ ui' = ui
        \/ ui' = ClearTermEditing(ui)
        \/ ui' = s
        \/ \E next : ui' = [s EXCEPT !.prepared = next]
    BY <1>6 DEF EventApply
  <2> DEFINE closed == ClearTermEditing(ui)
  <2>2. closed.devices = ui.devices /\ "devices" \in DOMAIN closed
    BY <1>1, <1>2
  <2> HIDE DEF closed
  <2>3. /\ SetTermField(closed, ui.editing, ui.draft).devices = closed.devices
        /\ "devices" \in DOMAIN SetTermField(closed, ui.editing, ui.draft)
    BY <1>1, <2>2
  <2>4. /\ s.devices = ui.devices /\ "devices" \in DOMAIN s
        /\ ClearTermEditing(ui).devices = ui.devices
    BY <2>2, <2>3 DEF closed
  <2>5. ASSUME NEW next PROVE [s EXCEPT !.prepared = next].devices = ui.devices
    BY <1>1, <2>4
  <2> HIDE DEF s
  <2> QED
    BY <2>1, <2>4, <2>5
<1>7. CASE EventCancel \/ EventRefresh \/ EventPick
  BY <1>1, <1>2, <1>7 DEF EventCancel, EventRefresh, EventPick
<1>8. CASE \E f \in {"name", "start"} : EventEdit(f)
  <2>1. PICK f \in {"name", "start"} : EventEdit(f)
    BY <1>8
  <2>2. ui' \in {ui, OpenEditor(ui, f)}
    BY <2>1 DEF EventEdit
  <2> QED
    BY <1>1, <1>2, <2>2
<1>9. CASE \/ \E t \in {"import", "settings"} : EventTab(t)
           \/ \E d \in Devices : EventDevice(d.name)
           \/ \E t \in Typed : EventDraft(t)
  BY <1>2, <1>9 DEF EventTab, EventDevice, EventDraft
<1>10. CASE EventPush
  <2> DEFINE s == [ui EXCEPT !.prepared = ScheduleForPush(ui)]
  <2>1. ui' \in {ui, s, [s EXCEPT !.busy = TRUE]}
    BY <1>10 DEF EventPush
  <2>2. s.devices = ui.devices /\ "devices" \in DOMAIN s
    BY <1>1, <1>2
  <2> HIDE DEF s
  <2> QED
    BY <1>1, <2>1, <2>2
<1>11. CASE PushHandler \/ PushHandlerReturns
  <2>1. ui' \in {ui, [ui EXCEPT !.busy = FALSE]}
    BY <1>11 DEF PushHandler, PushHandlerReturns, Finish, pushVars
  <2> QED
    BY <1>1, <1>2, <2>1
<1> QED
  BY <1>3, <1>4, <1>5, <1>6, <1>7, <1>8, <1>9, <1>10, <1>11 DEF Next, ResumeNext, EventNext

LEMMA ListInvStep == ImportInv /\ ListInv /\ [Next]_vars => ListInv'
<1> SUFFICES ASSUME ImportInv, ListInv, [Next]_vars PROVE ListInv'
  OBVIOUS
<1>0. /\ notices \in Nat /\ asking \in [{"load", "page"} -> Nat]
      /\ lists \in Seq([for : {"load", "page"}, list : Seq(Devices)])
      /\ ui \in UiStates
  BY DEF ListInv, ImportInv, WorldInv, PageInv
<1>1. CASE ConnectionChanges
  BY <1>0, <1>1 DEF ConnectionChanges, ListInv
<1>2. CASE DeviceAction \/ EventRefresh
  <2>1. /\ asking' = [asking EXCEPT !.page = asking.page + 1]
        /\ notices' \in {notices, notices - 1} /\ (notices' # notices => notices > 0)
    BY <1>2 DEF DeviceAction, EventRefresh, AskForDevices
  <2>2. asking' \in [{"load", "page"} -> Nat] /\ asking'["page"] # 0
    BY <1>0, <2>1
  <2>3. notices' \in Nat
    BY <1>0, <2>1
  <2> QED
    BY <2>2, <2>3 DEF ListInv, Asking
<1>3. ASSUME NEW caller \in {"load", "page"}, HostLists(caller)
      PROVE  ListInv'
  <2>1. asking' \in [{"load", "page"} -> Nat] /\ notices' \in Nat
    BY <1>0, <1>3 DEF HostLists
  <2> DEFINE e == [for |-> caller, list |-> connected]
  <2>2. lists' = Append(lists, e) /\ connected' = connected
    BY <1>3 DEF HostLists
  <2>3. e \in [for : {"load", "page"}, list : Seq(Devices)] /\ e.list = connected
    BY DEF ImportInv, WorldInv
  <2> HIDE DEF e
  <2>4. lists' # <<>> /\ lists'[Len(lists')] = e
    BY <1>0, <2>2, <2>3
  <2> QED
    BY <2>1, <2>2, <2>3, <2>4 DEF ListInv, LatestList
<1>4. CASE DevicesListed
  <2>1. UNCHANGED <<connected, notices, asking>>
    BY <1>4 DEF DevicesListed
  <2>2. lists # <<>> /\ lists' = Tail(lists) /\ ui'.devices = lists[1].list
    BY <1>0, <1>4 DEF DevicesListed, UiStates
  <2>3. LatestList' = LatestList
    <3>1. CASE Len(lists) = 1
      <4>1. lists' = <<>>
        BY <1>0, <2>2, <3>1
      <4> QED
        BY <2>2, <3>1, <4>1 DEF LatestList
    <3>2. CASE Len(lists) # 1
      <4> DEFINE R == [for : {"load", "page"}, list : Seq(Devices)]
                 n == Len(lists)
      <4>1. lists \in Seq(R)
        BY <1>0
      <4> HIDE DEF R
      <4>2. /\ n \in Nat \ {0} /\ Len(lists') = n - 1
            /\ \A i \in 1 .. n - 1 : lists'[i] = lists[i + 1]
        BY <2>2, <4>1, TailElements
      <4>3. n # 1
        BY <3>2
      <4> HIDE DEF n
      <4>4. n - 1 \in 1 .. n - 1 /\ n - 1 + 1 = n /\ n - 1 # 0
        BY <4>2, <4>3
      <4>5. lists'[n - 1] = lists[n]
        BY <4>2, <4>4
      <4>6. lists' # <<>> /\ lists'[Len(lists')] = lists[Len(lists)]
        BY <4>2, <4>4, <4>5 DEF n
      <4> QED
        BY <2>2, <4>6 DEF LatestList
    <3> QED
      BY <3>1, <3>2
  <2> QED
    BY <2>1, <2>3 DEF ListInv, Asking
<1>5. CASE UNCHANGED <<connected, notices, asking, lists>> /\ ~DevicesListed
  <2>1. ui'.devices = ui.devices
    BY <1>5, DevicesStay
  <2> QED
    BY <1>5, <2>1 DEF ListInv, LatestList, Asking
<1>6. CASE \/ RenderMainUi \/ DialogEnds \/ UserActs \/ FilePicked
           \/ PushHandler \/ PushHandlerReturns
           \/ \E file \in Files : DialogAnswers(file)
           \/ \E name \in Names : FileLost(name)
           \/ UNCHANGED vars
  BY <1>4, <1>5, <1>6 DEF RenderMainUi, DialogEnds, UserActs, FilePicked, PushHandler,
     PushHandlerReturns, DialogAnswers, FileLost, vars, deviceVars
<1>7. CASE EventNext /\ ~EventRefresh
  BY <1>4, <1>5, <1>7 DEF EventNext, EventTab, EventDevice, EventSource, EventEdit, EventDraft,
     EventPick, EventApply, EventCancel, EventPush, deviceVars
<1> QED
  BY <1>1, <1>2, <1>3, <1>4, <1>6, <1>7 DEF Next, HostNext, ResumeNext

LEMMA InitLists == Init => ListInv
<1> SUFFICES ASSUME Init PROVE ListInv
  OBVIOUS
<1>1. notices = 0 /\ asking = [load |-> 1, page |-> 0]
  BY DEF Init
<1>2. asking \in [{"load", "page"} -> Nat] /\ asking["load"] = 1
  BY <1>1
<1> QED
  BY <1>1, <1>2 DEF ListInv, Asking

\* refresh_devices: however changes, button and answers overlap, the list of a
\* page that waits for none is what is connected.
THEOREM ListsAreCurrent == Spec => []ListIsCurrent
<1>1. Init => ListInv
  BY InitLists
<1>2. ListInv => ListIsCurrent
  BY DEF ListInv, ListIsCurrent, LatestList, Asking
<1> QED
  BY <1>1, <1>2, ImportInvariant, ListInvStep, PTL DEF Spec

-----------------------------------------------------------------------------
(* What is drawn                                                            *)

\* The page shows s, but for the device chosen and the text typed.
Showing(page, s) ==
    [page EXCEPT !.draft = "", !.selected = ""] = [s EXCEPT !.draft = "", !.selected = ""]

\* on_load asks for the devices once and is over before there is a page: it is
\* the one handler that changes the list and does not rerender.
LoadInv ==
    /\ asking["load"] <= 1
    /\ loaded \/ asking["load"] = 1 => \A i \in DOMAIN lists : lists[i].for = "page"
    /\ asking["load"] = 1 => ~loaded
    /\ \A i, j \in DOMAIN lists : lists[i].for = "load" /\ lists[j].for = "load" => i = j
    /\ opened => loaded

LEMMA LoadStep == ImportInv /\ ListInv /\ LoadInv /\ [Next]_vars => LoadInv'
<1> SUFFICES ASSUME ImportInv, ListInv, LoadInv, [Next]_vars PROVE LoadInv'
  OBVIOUS
<1> DEFINE Answer == [for : {"load", "page"}, list : Seq(Devices)]
<1>0. /\ asking \in [{"load", "page"} -> Nat] /\ lists \in Seq(Answer)
      /\ DOMAIN lists = 1 .. Len(lists) /\ Len(lists) \in Nat
      /\ \A i \in DOMAIN lists : lists[i].for \in {"load", "page"}
  <2>1. asking \in [{"load", "page"} -> Nat] /\ lists \in Seq(Answer)
    BY DEF ListInv, ImportInv, WorldInv
  <2>2. \A e \in Answer : e.for \in {"load", "page"}
    OBVIOUS
  <2> HIDE DEF Answer
  <2>3. \A i \in DOMAIN lists : lists[i] \in Answer
    BY <2>1
  <2>4. DOMAIN lists = 1 .. Len(lists) /\ Len(lists) \in Nat
    BY <2>1
  <2> QED
    BY <2>1, <2>2, <2>3, <2>4
<1> HIDE DEF Answer
<1>1. CASE UNCHANGED <<asking, lists, loaded, opened>>
  BY <1>1 DEF LoadInv
<1>2. CASE DeviceAction \/ EventRefresh
  <2>1. /\ asking' = [asking EXCEPT !.page = asking.page + 1]
        /\ UNCHANGED <<lists, loaded, opened>>
    BY <1>2 DEF DeviceAction, EventRefresh, AskForDevices
  <2>2. asking'["load"] = asking["load"]
    BY <1>0, <2>1
  <2> QED
    BY <2>1, <2>2 DEF LoadInv
<1>3. ASSUME NEW caller \in {"load", "page"}, HostLists(caller)
      PROVE  LoadInv'
  <2> DEFINE e == [for |-> caller, list |-> connected]
  <2>1. /\ lists' = Append(lists, e) /\ UNCHANGED <<loaded, opened>>
        /\ asking[caller] > 0 /\ asking' = [asking EXCEPT ![caller] = asking[caller] - 1]
    BY <1>3 DEF HostLists
  <2>2. e \in Answer /\ e.for = caller
    BY DEF Answer, ImportInv, WorldInv
  <2> HIDE DEF e
  <2>3. /\ DOMAIN lists' = 1 .. Len(lists) + 1
        /\ lists'[Len(lists) + 1] = e
        /\ \A i \in DOMAIN lists : lists'[i] = lists[i]
    BY <1>0, <2>1, <2>2
  <2>4. CASE caller = "page"
    <3>1. asking'["load"] = asking["load"]
      BY <1>0, <2>1, <2>4
    <3>2. \A i \in DOMAIN lists' :
             lists'[i].for = "page" \/ (i \in DOMAIN lists /\ lists'[i] = lists[i])
      BY <1>0, <2>2, <2>3, <2>4
    <3>3. "page" # "load"
      OBVIOUS
    <3>4. \A i, j \in DOMAIN lists' :
             lists'[i].for = "load" /\ lists'[j].for = "load" => i = j
      BY <3>2, <3>3 DEF LoadInv
    <3>5. (\A i \in DOMAIN lists : lists[i].for = "page") =>
             \A i \in DOMAIN lists' : lists'[i].for = "page"
      BY <3>2
    <3> QED
      BY <2>1, <3>1, <3>4, <3>5 DEF LoadInv
  <2>5. CASE caller = "load"
    <3>1. asking["load"] = 1 /\ asking'["load"] = 0
      BY <1>0, <2>1, <2>5 DEF LoadInv
    <3>2. ~loaded /\ ~opened /\ \A i \in DOMAIN lists : lists[i].for = "page"
      BY <3>1 DEF LoadInv
    <3>3. \A i \in DOMAIN lists' : lists'[i].for = "load" => i = Len(lists) + 1
      BY <1>0, <2>3, <3>2
    <3> QED
      BY <2>1, <3>1, <3>2, <3>3 DEF LoadInv
  <2> QED
    BY <2>4, <2>5
<1>4. CASE DevicesListed
  <2>1. lists # <<>> /\ lists' = Tail(lists) /\ UNCHANGED <<asking, opened>>
    BY <1>4 DEF DevicesListed
  <2>2. /\ 1 \in DOMAIN lists /\ DOMAIN lists' = 1 .. Len(lists) - 1
        /\ \A i \in DOMAIN lists' : i \in Nat /\ i + 1 \in DOMAIN lists /\ lists'[i] = lists[i + 1]
    <3>1. /\ lists' \in Seq(Answer) /\ Len(lists) \in Nat \ {0} /\ Len(lists') = Len(lists) - 1
          /\ \A i \in 1 .. Len(lists) - 1 : lists'[i] = lists[i + 1]
      BY <1>0, <2>1, TailElements
    <3> DEFINE n == Len(lists)
               k == Len(lists')
    <3>2. DOMAIN lists' = 1 .. k /\ DOMAIN lists = 1 .. n
      BY <1>0, <3>1
    <3> HIDE DEF n, k
    <3>3. n \in Nat \ {0} /\ k = n - 1
      BY <3>1 DEF n, k
    <3>4. 1 \in 1 .. n /\ \A i \in 1 .. k : i \in Nat /\ i + 1 \in 1 .. n
      BY <3>3
    <3> QED
      BY <3>1, <3>2, <3>3, <3>4 DEF n
  <2>3. CASE lists[1].for = "load"
    <3>1. loaded' = TRUE
      BY <1>4, <2>3 DEF DevicesListed
    <3>2. asking["load"] # 1 /\ \A i \in DOMAIN lists : lists[i].for = "load" => i = 1
      BY <2>2, <2>3 DEF LoadInv
    <3>3. \A i \in DOMAIN lists' : lists'[i].for = "page"
      <4> SUFFICES ASSUME NEW i \in DOMAIN lists' PROVE lists'[i].for = "page"
        OBVIOUS
      <4>1. i + 1 \in DOMAIN lists /\ lists'[i] = lists[i + 1] /\ i + 1 # 1
        BY <2>2
      <4> QED
        BY <1>0, <3>2, <4>1
    <3> QED
      BY <2>1, <3>1, <3>2, <3>3 DEF LoadInv
  <2>4. CASE lists[1].for # "load"
    <3>1. loaded' = loaded
      BY <1>4, <2>4 DEF DevicesListed
    <3>2. \A i, j \in DOMAIN lists' :
             lists'[i].for = "load" /\ lists'[j].for = "load" => i = j
      <4> SUFFICES ASSUME NEW i \in DOMAIN lists', NEW j \in DOMAIN lists',
                          lists'[i].for = "load", lists'[j].for = "load"
                   PROVE  i = j
        OBVIOUS
      <4>1. i \in Nat /\ j \in Nat /\ i + 1 = j + 1
        BY <2>2 DEF LoadInv
      <4> QED
        BY <4>1
    <3> QED
      BY <2>1, <2>2, <3>1, <3>2 DEF LoadInv
  <2> QED
    BY <2>3, <2>4
<1>5. CASE RenderMainUi
  BY <1>5 DEF RenderMainUi, deviceVars, LoadInv
<1>6. CASE \/ ConnectionChanges \/ DialogEnds \/ UserActs \/ FilePicked
           \/ PushHandler \/ PushHandlerReturns
           \/ \E file \in Files : DialogAnswers(file)
           \/ \E name \in Names : FileLost(name)
           \/ UNCHANGED vars
  BY <1>1, <1>6 DEF ConnectionChanges, DialogEnds, UserActs, FilePicked, PushHandler,
     PushHandlerReturns, DialogAnswers, FileLost, vars, deviceVars
<1>7. CASE EventNext /\ ~EventRefresh
  BY <1>1, <1>7 DEF EventNext, EventTab, EventDevice, EventSource, EventEdit, EventDraft,
     EventPick, EventApply, EventCancel, EventPush, deviceVars
<1> QED
  BY <1>2, <1>3, <1>4, <1>5, <1>6, <1>7 DEF Next, HostNext, ResumeNext

AwaitInv == waiting \in Nat /\ late \in Nat

LEMMA AwaitStep == AwaitInv /\ [Next]_vars => AwaitInv'
<1> SUFFICES ASSUME AwaitInv, [Next]_vars PROVE AwaitInv'
  OBVIOUS
<1> USE DEF AwaitInv
<1>1. CASE UNCHANGED <<waiting, late>>
  BY <1>1
<1>2. CASE EventPush
  <2>1. waiting' \in {waiting, waiting + 1} /\ late' = late
    BY <1>2 DEF EventPush
  <2> QED
    BY <2>1
<1>3. CASE PushHandler
  BY <1>3 DEF PushHandler, Finish, pushVars
<1>4. CASE PushHandlerReturns
  BY <1>4 DEF PushHandlerReturns, Finish
<1>5. CASE HostNext \/ UserActs \/ DeviceAction \/ DevicesListed \/ FilePicked \/ UNCHANGED vars
  BY <1>1, <1>5 DEF HostNext, ConnectionChanges, RenderMainUi, DialogEnds, HostLists,
     DialogAnswers, FileLost, UserActs, DeviceAction, DevicesListed, FilePicked, vars, pushVars
<1>6. CASE EventNext /\ ~EventPush
  BY <1>1, <1>6 DEF EventNext, EventTab, EventDevice, EventSource, EventEdit, EventDraft,
     EventRefresh, EventPick, EventApply, EventCancel, pushVars
<1> QED
  BY <1>2, <1>3, <1>4, <1>5, <1>6 DEF Next, ResumeNext

\* What changes only the device chosen or the text typed is shown all the same.
LEMMA NotShown ==
  ASSUME NEW s, NEW v
  PROVE  /\ Showing([s EXCEPT !.draft = v], s) /\ Showing(s, [s EXCEPT !.draft = v])
         /\ Showing([s EXCEPT !.selected = v], s) /\ Showing(s, [s EXCEPT !.selected = v])
  BY DEF Showing

LEMMA ShowingTransitive ==
  ASSUME NEW s, NEW t, NEW u, Showing(s, t), Showing(t, u) PROVE Showing(s, u)
  BY DEF Showing

LEMMA Redrawn == Rerender(ui') /\ opened' = opened => PageIsCurrent'
  BY DEF Rerender, PageIsCurrent

\* Whoever leaves page and state as they were keeps them in agreement.
LEMMA SamePage ==
  ASSUME PageIsCurrent, UNCHANGED <<opened, waiting, late>>,
         \A page \in drawn' : \E q \in drawn : Showing(page, q),
         Showing(ui, ui')
  PROVE  PageIsCurrent'
<1> SUFFICES ASSUME opened, waiting + late = 0, NEW page \in drawn'
             PROVE  Showing(page, ui')
  BY DEF PageIsCurrent, Showing
<1>1. PICK q \in drawn : Showing(page, q)
  OBVIOUS
<1>2. Showing(q, ui)
  BY DEF PageIsCurrent, Showing
<1> QED
  BY <1>1, <1>2, ShowingTransitive

LEMMA ShowingItself == \A s : Showing(s, s)
  BY DEF Showing

LEMMA DrawnStep ==
  ImportInv /\ LoadInv /\ AwaitInv /\ PageIsCurrent /\ [Next]_vars => PageIsCurrent'
<1> SUFFICES ASSUME ImportInv, LoadInv, AwaitInv, PageIsCurrent, [Next]_vars
             PROVE  PageIsCurrent'
  OBVIOUS
<1>1. CASE UNCHANGED <<ui, drawn, opened, waiting, late>>
  BY <1>1, ShowingItself, SamePage
<1>2. CASE Rerender(ui') /\ opened' = opened
  BY <1>2, Redrawn
<1>3. CASE ConnectionChanges \/ DeviceAction \/ EventRefresh \/ EventPick \/ UNCHANGED vars
           \/ (\E caller \in {"load", "page"} : HostLists(caller))
           \/ (\E file \in Files : DialogAnswers(file)) \/ (\E name \in Names : FileLost(name))
  BY <1>1, <1>3 DEF ConnectionChanges, DeviceAction, EventRefresh, EventPick, HostLists,
     DialogAnswers, FileLost, vars, pushVars
<1>4. CASE DialogEnds
  <2>1. CASE Rerender(ui)
    <3>1. Rerender(ui') /\ opened' = opened
      BY <1>4, <2>1 DEF DialogEnds, Rerender
    <3> QED
      BY <1>2, <3>1
  <2>2. CASE UNCHANGED drawn
    BY <1>1, <1>4, <2>2 DEF DialogEnds, pushVars
  <2> QED
    BY <1>4, <2>1, <2>2 DEF DialogEnds
<1>5. CASE FilePicked \/ EventApply \/ EventCancel
           \/ (\E s \in Sources : EventSource(s)) \/ (\E f \in {"name", "start"} : EventEdit(f))
  BY <1>2, <1>5 DEF FilePicked, EventApply, EventCancel, EventSource, EventEdit
<1>6. CASE RenderMainUi
  BY <1>6 DEF RenderMainUi, PageIsCurrent
<1>7. CASE DevicesListed
  <2>1. CASE lists[1].for = "load"
    <3>1. 1 \in DOMAIN lists
      BY <1>7 DEF DevicesListed, ImportInv, WorldInv
    <3>2. ~opened
      BY <2>1, <3>1 DEF LoadInv
    <3>3. ~opened'
      BY <1>7, <3>2 DEF DevicesListed
    <3> QED
      BY <3>3 DEF PageIsCurrent
  <2>2. CASE lists[1].for # "load"
    BY <1>2, <1>7, <2>2 DEF DevicesListed
  <2> QED
    BY <2>1, <2>2
<1>8. CASE UserActs
  <2>1. PICK page \in drawn, e \in UNION {Offered(q) : q \in drawn} : drawn' = {Echoed(page, e)}
    BY <1>8 DEF UserActs
  <2>2. Showing(Echoed(page, e), page)
    BY ShowingItself, NotShown DEF Echoed
  <2>3. Showing(ui, ui') /\ UNCHANGED <<opened, waiting, late>>
    BY <1>8, ShowingItself DEF UserActs, pushVars
  <2> QED
    BY <2>1, <2>2, <2>3, SamePage
<1>9. CASE \E t \in {"import", "settings"} : EventTab(t)
  <2>1. PICK t \in {"import", "settings"} : EventTab(t)
    BY <1>9
  <2>2. CASE ui.tab = t
    <3>1. ui' = ui
      BY <2>1, <2>2 DEF EventTab, ImportInv, PageInv, UiStates
    <3> QED
      BY <1>1, <2>1, <2>2, <3>1 DEF EventTab, pushVars
  <2>3. CASE ui.tab # t
    BY <1>2, <2>1, <2>3 DEF EventTab
  <2> QED
    BY <2>2, <2>3
<1>10. CASE (\E d \in Devices : EventDevice(d.name)) \/ (\E t \in Typed : EventDraft(t))
  <2> SUFFICES Showing(ui, ui')
    BY <1>10, ShowingItself, SamePage DEF EventDevice, EventDraft, pushVars
  <2>1. CASE \E d \in Devices : EventDevice(d.name)
    <3>1. PICK d \in Devices : ui' = [ui EXCEPT !.selected = Chosen(ui, d.name)]
      BY <2>1 DEF EventDevice
    <3> QED
      BY <3>1, NotShown
  <2>2. CASE \E t \in Typed : EventDraft(t)
    <3>1. PICK t \in Typed : ui' = [ui EXCEPT !.draft = t]
      BY <2>2 DEF EventDraft
    <3> QED
      BY <3>1, NotShown
  <2> QED
    BY <1>10, <2>1, <2>2
<1>11. CASE EventPush
  <2>1. CASE waiting' = waiting + 1 /\ late' = late
    <3>1. waiting' + late' # 0
      BY <2>1 DEF AwaitInv
    <3> QED
      BY <3>1 DEF PageIsCurrent
  <2>2. CASE ~(waiting' = waiting + 1 /\ late' = late)
    <3>1. Rerender(ui') /\ opened' = opened
      BY <1>11, <2>2 DEF EventPush, Rerender
    <3> QED
      BY <1>2, <3>1
  <2> QED
    BY <2>1, <2>2
<1>12. CASE PushHandler
  <2>1. CASE \/ waiting' = waiting + 1 /\ late' = late
             \/ waiting' = 0 /\ late' = late + (waiting + 1)
    <3>1. waiting' + late' # 0
      BY <2>1 DEF AwaitInv
    <3> QED
      BY <3>1 DEF PageIsCurrent
  <2>2. CASE Rerender(ui')
    BY <1>2, <1>12, <2>2 DEF PushHandler
  <2>3. CASE UNCHANGED ui /\ Rerender(ui)
    BY <1>2, <1>12, <2>3 DEF PushHandler, Rerender
  <2> QED
    BY <1>12, <2>1, <2>2, <2>3 DEF PushHandler, Finish
<1>13. CASE PushHandlerReturns
  <2>1. CASE waiting > 0 /\ waiting' = 0 /\ late' = late + waiting
    <3>1. waiting' + late' # 0
      BY <2>1 DEF AwaitInv
    <3> QED
      BY <3>1 DEF PageIsCurrent
  <2>2. CASE UNCHANGED ui /\ Rerender(ui)
    BY <1>2, <1>13, <2>2 DEF PushHandlerReturns, Rerender
  <2> QED
    BY <1>13, <2>1, <2>2 DEF PushHandlerReturns, Finish
<1> QED
  BY <1>3, <1>4, <1>5, <1>6, <1>7, <1>8, <1>9, <1>10, <1>11, <1>12, <1>13
     DEF Next, HostNext, ResumeNext, EventNext

\* rerender: once no push handler is at an await the page shows the state,
\* though some handlers return without a rerender and others late.
THEOREM PagesAreCurrent == Spec => []PageIsCurrent
<1>1. Init => LoadInv /\ AwaitInv /\ PageIsCurrent
  <2> SUFFICES ASSUME Init PROVE LoadInv /\ AwaitInv /\ PageIsCurrent
    OBVIOUS
  <2>1. /\ asking = [load |-> 1, page |-> 0] /\ lists = <<>> /\ loaded = FALSE /\ opened = FALSE
        /\ waiting = 0 /\ late = 0 /\ drawn = {}
    BY DEF Init
  <2>2. asking["load"] = 1 /\ DOMAIN lists = {}
    BY <2>1
  <2> QED
    BY <2>1, <2>2 DEF LoadInv, AwaitInv, PageIsCurrent
<1>2. Init => ListInv
  BY InitLists
<1> QED
  BY <1>1, <1>2, ImportInvariant, ListInvStep, LoadStep, AwaitStep, DrawnStep, PTL DEF Spec

-----------------------------------------------------------------------------
(* The file picked                                                          *)

\* While the host copies and nothing was removed, media holds for each pick not
\* yet handled what it, or a later one of its name, picked.
Copied ==
    host = "copies" /\ losses = 0 =>
        \A i \in DOMAIN picks : \E j \in DOMAIN picks :
            /\ j >= i /\ picks[j].name = picks[i].name
            /\ media[picks[i].name] = picks[j].content

\* The schedule prepared is of the file picked last, and so is the next one that
\* source, term or push prepare of it: there is no other file of its name.
FromPicked ==
    picks = <<>> =>
        \A content \in lastPick : \A p \in ui.prepared :
            p.schedule.of = content /\ media[p.path] \in {content, NoFile}

FileInv == losses \in Nat /\ Copied /\ FromPicked

\* What is prepared again is of a file that is there.
LEMMA PreparedAgain ==
  ASSUME ImportInv, FileInv, picks = <<>>, NEW s \in UiStates, s.prepared = ui.prepared,
         NEW name \in Texts, NEW start \in Texts, NEW r \in Reprepared(s, name, start),
         NEW content \in lastPick
  PROVE  r.schedule.of = content /\ media[r.path] \in {content, NoFile}
<1>1. media \in Medias /\ \A p, q \in s.prepared : p = q
  BY DEF ImportInv, WorldInv, PageInv, OnePrepared
<1>2. PICK p \in s.prepared : r \in PrepareFile(media, p.path, s.source, name, start)
  BY DEF Reprepared
<1>3. media[p.path] # NoFile
  BY <1>2 DEF PrepareFile
<1>4. /\ p.path = r.path
      /\ IsPrepared(r, media, r.path, s.source, name, start)
  BY <1>1, <1>2, AgainPrepared
<1>5. r.schedule.of = media[r.path]
  BY <1>4 DEF IsPrepared, IsSchedule
<1>6. media[p.path] = content
  BY <1>2, <1>3 DEF FileInv, FromPicked
<1> QED
  BY <1>4, <1>5, <1>6

\* A step that leaves the files alone keeps the claim if what is prepared after
\* it is what was prepared before, or is prepared again.
LEMMA FilesStay ==
  ASSUME FileInv, UNCHANGED fileVars,
         picks = <<>> => \A p \in ui'.prepared : \A content \in lastPick :
             p.schedule.of = content /\ media[p.path] \in {content, NoFile}
  PROVE  FileInv'
<1>1. UNCHANGED <<host, media, picks, lastPick, losses>>
  BY DEF fileVars
<1> QED
  BY <1>1 DEF FileInv, Copied, FromPicked

LEMMA SameFile ==
  ASSUME FileInv, UNCHANGED fileVars, ui'.prepared = ui.prepared
  PROVE  FileInv'
<1>1. picks = <<>> => \A p \in ui'.prepared : \A content \in lastPick :
          p.schedule.of = content /\ media[p.path] \in {content, NoFile}
  BY DEF FileInv, FromPicked
<1> QED
  BY <1>1, FilesStay

\* Another source, or another term.
LEMMA ConvertedAgain ==
  ASSUME ImportInv, FileInv, UNCHANGED fileVars,
         NEW s \in UiStates, s.prepared = ui.prepared,
         NEW name \in Texts, NEW start \in Texts,
         ui'.prepared \in {ui.prepared, Reprepared(s, name, start)}
  PROVE  FileInv'
<1> SUFFICES ASSUME ui'.prepared = Reprepared(s, name, start) PROVE FileInv'
  BY SameFile
<1>1. picks = <<>> => \A p \in ui'.prepared : \A content \in lastPick :
          p.schedule.of = content /\ media[p.path] \in {content, NoFile}
  BY PreparedAgain
<1> QED
  BY <1>1, FilesStay

LEMMA SourceFile == ASSUME NEW source \in Sources PROVE ImportInv /\ FileInv /\ EventSource(source) => FileInv'
<1> SUFFICES ASSUME ImportInv, FileInv, EventSource(source) PROVE FileInv'
  OBVIOUS
<1> DEFINE s == SwitchSource(ui, source)
           next == Reprepared(s, "", "")
<1>1. ui \in UiStates /\ UNCHANGED fileVars /\ "" \in Texts
  BY TextAssumption DEF ImportInv, PageInv, EventSource
<1>2. s \in UiStates /\ s.prepared = ui.prepared
  <2>1. /\ [ui EXCEPT !.source = source] \in UiStates
        /\ [ui EXCEPT !.source = source].prepared = ui.prepared
    BY <1>1 DEF UiStates
  <2> QED
    BY <2>1, Closed DEF SwitchSource
<1>3. \/ ui' = ui \/ ui' = s
      \/ next # {} /\ ui' = SyncTermFields([s EXCEPT !.prepared = next])
  BY DEF EventSource
<1> HIDE DEF s
<1>4. ASSUME NEW r \in next, ui' = SyncTermFields([s EXCEPT !.prepared = next])
      PROVE  ui'.prepared = next
  <2> DEFINE t == [s EXCEPT !.prepared = next]
  <2> HIDE DEF next
  <2>1. t.prepared = next
    BY <1>2 DEF UiStates
  <2>2. "prepared" \in DOMAIN t
    BY <1>2 DEF UiStates
  <2>3. ui' = SyncTermFields(t)
    BY <1>4
  <2> HIDE DEF t
  <2> QED
    BY <2>1, <2>2, <2>3 DEF SyncTermFields
<1>5. ui'.prepared \in {ui.prepared, next}
  BY <1>2, <1>3, <1>4
<1> QED
  BY <1>1, <1>2, <1>5, ConvertedAgain

LEMMA ApplyFile == ImportInv /\ FileInv /\ EventApply => FileInv'
<1> SUFFICES ASSUME ImportInv, FileInv, EventApply PROVE FileInv'
  OBVIOUS
<1> DEFINE closed == ClearTermEditing(ui)
           s == SetTermField(closed, ui.editing, ui.draft)
           next == Reprepared(s, s.name, s.start)
<1>1. ui \in UiStates /\ UNCHANGED fileVars
  BY DEF ImportInv, PageInv, EventApply
<1>2. closed \in UiStates /\ closed.prepared = ui.prepared
  BY <1>1, Closed
<1>3. \/ ui' = ui \/ ui' = closed \/ ui' = s
      \/ ui' = [s EXCEPT !.prepared = next]
  BY DEF EventApply
<1> HIDE DEF closed
<1>4. s \in UiStates /\ s.prepared = ui.prepared /\ s.name \in Texts /\ s.start \in Texts
  <2>1. s \in {[closed EXCEPT !.name = ui.draft], [closed EXCEPT !.start = ui.draft]}
    BY DEF SetTermField
  <2>2. ui.draft \in Texts
    BY <1>1 DEF UiStates
  <2>3. CASE s = [closed EXCEPT !.name = ui.draft]
    BY <1>2, <2>2, <2>3 DEF UiStates
  <2>4. CASE s = [closed EXCEPT !.start = ui.draft]
    BY <1>2, <2>2, <2>4 DEF UiStates
  <2> QED
    BY <2>1, <2>3, <2>4
<1> HIDE DEF s
<1>5. ui' = [s EXCEPT !.prepared = next] => ui'.prepared = next
  <2> HIDE DEF next
  <2> QED
    BY <1>4 DEF UiStates
<1>6. ui'.prepared \in {ui.prepared, next}
  BY <1>2, <1>3, <1>4, <1>5
<1> QED
  BY <1>1, <1>4, <1>6, ConvertedAgain

LEMMA PushFile == ImportInv /\ FileInv /\ EventPush => FileInv'
<1> SUFFICES ASSUME ImportInv, FileInv, EventPush PROVE FileInv'
  OBVIOUS
<1> DEFINE next == ScheduleForPush(ui)
           s == [ui EXCEPT !.prepared = next]
<1>1. /\ ui \in UiStates /\ UNCHANGED fileVars
      /\ ui.name \in Texts /\ ui.start \in Texts
  BY DEF ImportInv, PageInv, EventPush, UiStates
<1>2. ui' \in {ui, s, [s EXCEPT !.busy = TRUE]}
  BY DEF EventPush
<1>3. next \in {ui.prepared, Reprepared(ui, ui.name, ui.start)}
  BY DEF ScheduleForPush
<1> HIDE DEF next
<1>4. ui'.prepared \in {ui.prepared, next}
  BY <1>1, <1>2 DEF UiStates
<1> QED
  BY <1>1, <1>3, <1>4, ConvertedAgain

LEMMA DialogFile == ASSUME NEW file \in Files PROVE ImportInv /\ FileInv /\ DialogAnswers(file) => FileInv'
<1> SUFFICES ASSUME ImportInv, FileInv, DialogAnswers(file) PROVE FileInv'
  OBVIOUS
<1>1. picks' = Append(picks, file) /\ UNCHANGED <<host, losses>>
  BY DEF DialogAnswers
<1>2. picks \in Seq(Files) /\ media \in Medias /\ file.name \in Names
  BY DEF ImportInv, WorldInv, Names
<1> DEFINE n == Len(picks)
<1>3. /\ n \in Nat /\ DOMAIN picks = 1 .. n /\ DOMAIN picks' = 1 .. n + 1
      /\ picks'[n + 1] = file /\ \A i \in 1 .. n : picks'[i] = picks[i]
      /\ \A i \in 1 .. n : picks[i] \in Files
      /\ picks' # <<>>
  <2>1. n \in Nat /\ DOMAIN picks = 1 .. n /\ \A i \in 1 .. n : picks[i] \in Files
    BY <1>2
  <2>2. /\ Len(picks') = n + 1 /\ picks'[n + 1] = file
        /\ \A i \in 1 .. n : picks'[i] = picks[i]
    BY <1>1, <1>2
  <2>3. picks' \in Seq(Files)
    BY <1>1, <1>2
  <2>4. DOMAIN picks' = 1 .. n + 1 /\ picks' # <<>>
    BY <2>1, <2>2, <2>3
  <2> QED
    BY <2>1, <2>2, <2>4
<1> HIDE DEF n
<1>4. n + 1 \in 1 .. n + 1 /\ \A i \in 1 .. n + 1 : n + 1 >= i /\ (i = n + 1 \/ i \in 1 .. n)
      /\ \A k \in 1 .. n : k \in 1 .. n + 1
  BY <1>3
<1>5. ASSUME host = "copies", losses = 0, NEW i \in 1 .. n + 1
      PROVE  \E j \in 1 .. n + 1 : /\ j >= i /\ picks'[j].name = picks'[i].name
                                   /\ media'[picks'[i].name] = picks'[j].content
  <2>1. media' = [media EXCEPT ![file.name] = file.content]
    BY <1>5 DEF DialogAnswers
  <2>2. media'[file.name] = file.content
    BY <1>2, <2>1 DEF Medias
  <2>3. CASE picks'[i].name = file.name
    BY <1>3, <1>4, <2>2, <2>3
  <2>4. CASE picks'[i].name # file.name
    <3>1. i \in 1 .. n /\ picks'[i] = picks[i]
      BY <1>3, <1>4, <2>4
    <3>2. PICK j \in 1 .. n : /\ j >= i /\ picks[j].name = picks[i].name
                              /\ media[picks[i].name] = picks[j].content
      BY <1>3, <1>5, <3>1 DEF FileInv, Copied
    <3>3. picks[i].name \in Names
      BY <1>3, <3>1 DEF Names
    <3>4. media'[picks[i].name] = media[picks[i].name]
      BY <1>2, <2>1, <2>4, <3>1, <3>3 DEF Medias
    <3>5. picks'[j] = picks[j] /\ j \in 1 .. n + 1
      BY <1>3, <1>4, <3>2
    <3> QED
      BY <3>1, <3>2, <3>4, <3>5
  <2> QED
    BY <2>3, <2>4
<1>6. Copied'
  <2> DEFINE D == 1 .. n + 1
  <2>1. DOMAIN picks' = D
    BY <1>3
  <2> SUFFICES ASSUME host = "copies", losses = 0, NEW i \in D
               PROVE  \E j \in D : /\ j >= i /\ picks'[j].name = picks'[i].name
                                    /\ media'[picks'[i].name] = picks'[j].content
    <3> HIDE DEF D
    <3> QED
      BY <1>1, <2>1 DEF Copied
  <2> QED
    BY <1>5
<1> QED
  BY <1>1, <1>3, <1>6 DEF FileInv, FromPicked

LEMMA PickedFile == ImportInv /\ FileInv /\ FilePicked => FileInv'
<1> SUFFICES ASSUME ImportInv, FileInv, FilePicked PROVE FileInv'
  OBVIOUS
<1> DEFINE file == picks[1]
           path == file.name
           n == Len(picks)
<1>1. /\ picks \in Seq(Files) /\ picks # <<>> /\ picks' = Tail(picks)
      /\ UNCHANGED <<host, losses>> /\ media \in Medias /\ ui \in UiStates
  BY DEF ImportInv, WorldInv, PageInv, FilePicked
<1>2. /\ n \in Nat \ {0} /\ DOMAIN picks = 1 .. n /\ DOMAIN picks' = 1 .. n - 1
      /\ \A i \in 1 .. n - 1 : picks'[i] = picks[i + 1]
      /\ picks' = <<>> => n = 1
  <2>1. n \in Nat \ {0} /\ picks' \in Seq(Files) /\ Len(picks') = n - 1
        /\ \A i \in 1 .. n - 1 : picks'[i] = picks[i + 1]
    BY <1>1, TailElements
  <2>2. DOMAIN picks = 1 .. n
    BY <1>1
  <2>3. DOMAIN picks' = 1 .. n - 1
    BY <2>1
  <2>4. picks' = <<>> => Len(picks') = 0
    OBVIOUS
  <2> HIDE DEF n
  <2>5. picks' = <<>> => n = 1
    BY <2>1, <2>4
  <2> QED
    BY <2>1, <2>2, <2>3, <2>5
<1>3. file \in Files /\ path \in Names /\ file.content \in Contents /\ file.content # NoFile
  <2>1. file \in Files
    BY <1>1, FirstElement
  <2> QED
    BY <2>1, FileAssumption DEF Names, Contents
<1>4. \A i \in 1 .. n : picks[i] \in Files
  BY <1>1
<1> HIDE DEF n
<1>5. /\ 1 \in 1 .. n
      /\ \A i \in 1 .. n - 1 : i \in Nat /\ i + 1 \in 1 .. n
      /\ \A i \in 1 .. n - 1, j \in 1 .. n : j >= i + 1 => j - 1 \in 1 .. n - 1 /\ j - 1 >= i /\ j - 1 + 1 = j
  BY <1>2
<1>6. media[path] # NoFile => media' = media
  BY DEF FilePicked, MediaUnavailable
<1>7. ASSUME host = "copies", losses = 0
      PROVE  media' = media /\ \A i \in 1 .. n : \E j \in 1 .. n :
                 /\ j >= i /\ picks[j].name = picks[i].name
                 /\ media[picks[i].name] = picks[j].content
  <2>1. \A i \in 1 .. n : \E j \in 1 .. n :
            /\ j >= i /\ picks[j].name = picks[i].name
            /\ media[picks[i].name] = picks[j].content
    BY <1>2, <1>7 DEF FileInv, Copied
  <2>2. PICK j \in 1 .. n : media[path] = picks[j].content
    BY <1>5, <2>1
  <2>3. media[path] # NoFile
    BY <1>4, <2>2, FileAssumption DEF Contents
  <2> QED
    BY <1>6, <2>1, <2>3
<1>8. Copied'
  <2> SUFFICES ASSUME host = "copies", losses = 0, NEW i \in 1 .. n - 1
               PROVE  \E j \in 1 .. n - 1 :
                        /\ j >= i /\ picks'[j].name = picks'[i].name
                        /\ media'[picks'[i].name] = picks'[j].content
    BY <1>1, <1>2 DEF Copied
  <2>1. PICK j \in 1 .. n : /\ j >= i + 1 /\ picks[j].name = picks[i + 1].name
                            /\ media'[picks[i + 1].name] = picks[j].content
    BY <1>5, <1>7
  <2>2. j - 1 \in 1 .. n - 1 /\ j - 1 >= i /\ picks'[j - 1] = picks[j]
    BY <1>2, <1>5, <2>1
  <2>3. picks'[i] = picks[i + 1]
    BY <1>2
  <2> QED
    BY <2>1, <2>2, <2>3
<1>9. ASSUME picks' = <<>>, NEW content \in lastPick', NEW p \in ui'.prepared
      PROVE  p.schedule.of = content /\ media'[p.path] \in {content, NoFile}
  <2> DEFINE s == ClearTermEditing(ui)
             next == PickedFrom(media', path, ui.source)
             missing == MediaUnavailable(path)
  <2>1. n = 1
    BY <1>2, <1>9
  <2>2. /\ next # {} /\ ui' = SyncTermFields([s EXCEPT !.prepared = next])
        /\ lastPick' = IF Fresh(missing) THEN {file.content} ELSE {}
        /\ missing => media' = [media EXCEPT ![path] = file.content]
    BY <1>9 DEF FilePicked
  <2>3. content = file.content /\ Fresh(missing)
    BY <1>9, <2>2
  <2>4. media'[path] = content
    <3>1. CASE missing
      BY <1>1, <1>3, <2>2, <2>3, <3>1 DEF Medias
    <3>2. CASE ~missing
      <4>1. host = "copies" /\ losses = 0
        BY <2>3, <3>2 DEF Fresh
      <4>2. media' = media
        BY <1>7, <4>1
      <4>3. PICK j \in 1 .. n : media[path] = picks[j].content
        BY <1>5, <1>7, <4>1
      <4>4. j = 1
        BY <2>1
      <4> QED
        BY <2>3, <4>2, <4>3, <4>4
    <3> QED
      BY <3>1, <3>2
  <2>5. media' \in Medias /\ ui.source \in Sources /\ "" \in Texts
    <3>1. media' \in {media, [media EXCEPT ![path] = file.content]}
      BY <1>6, <2>2 DEF MediaUnavailable
    <3>2. [media EXCEPT ![path] = file.content] \in Medias
      BY <1>1, <1>3 DEF Medias
    <3> QED
      BY <1>1, <3>1, <3>2, TextAssumption DEF UiStates
  <2>6. \A r \in next : r.path = path /\ r.schedule.of = media'[path]
    <3> SUFFICES ASSUME NEW r \in next
                 PROVE  r.path = path /\ r.schedule.of = media'[path]
      OBVIOUS
    <3>1. r \in PrepareFile(media', path, ui.source, "", "")
      BY DEF PickedFrom
    <3>2. IsPrepared(r, media', path, ui.source, "", "")
      BY <1>3, <2>5, <3>1, FilePrepared
    <3> QED
      BY <3>2 DEF IsPrepared, IsSchedule
  <2>7. s \in UiStates
    BY <1>1, Closed
  <2>8. ui'.prepared = next
    <3> HIDE DEF next, s
    <3> DEFINE t == [s EXCEPT !.prepared = next]
    <3>1. t.prepared = next /\ "prepared" \in DOMAIN t
      BY <2>7 DEF UiStates
    <3>2. ui' = SyncTermFields(t)
      BY <2>2
    <3> HIDE DEF t
    <3> QED
      BY <3>1, <3>2 DEF SyncTermFields
  <2> QED
    BY <2>4, <2>6, <2>8
<1> QED
  BY <1>1, <1>8, <1>9 DEF FileInv, FromPicked

LEMMA LostFile == ASSUME NEW name \in Names PROVE ImportInv /\ FileInv /\ FileLost(name) => FileInv'
<1> SUFFICES ASSUME ImportInv, FileInv, FileLost(name) PROVE FileInv'
  OBVIOUS
<1>1. /\ losses' = losses + 1 /\ media' = [media EXCEPT ![name] = NoFile]
      /\ UNCHANGED <<ui, picks, lastPick>>
  BY DEF FileLost
<1>2. losses' \in Nat /\ losses' # 0
  BY <1>1 DEF FileInv
<1>3. \A q : media'[q] \in {media[q], NoFile} \/ q \notin Names
  BY <1>1 DEF ImportInv, WorldInv, Medias
<1>4. \A p \in ui.prepared : p.path \in Names
  BY DEF ImportInv, PageInv, UiStates, Prepareds
<1> QED
  BY <1>1, <1>2, <1>3, <1>4 DEF FileInv, Copied, FromPicked

LEMMA FileStep == ImportInv /\ FileInv /\ [Next]_vars => FileInv'
<1> SUFFICES ASSUME ImportInv, FileInv, [Next]_vars PROVE FileInv'
  OBVIOUS
<1>0. ui \in UiStates
  BY DEF ImportInv, PageInv
<1>1. CASE FilePicked
  BY <1>1, PickedFile
<1>2. CASE \E file \in Files : DialogAnswers(file)
  BY <1>2, DialogFile
<1>3. CASE \E name \in Names : FileLost(name)
  BY <1>3, LostFile
<1>4. CASE \E s \in Sources : EventSource(s)
  BY <1>4, SourceFile
<1>5. CASE EventApply
  BY <1>5, ApplyFile
<1>6. CASE EventPush
  BY <1>6, PushFile
<1>7. CASE \/ ConnectionChanges \/ RenderMainUi \/ UserActs \/ DeviceAction \/ EventRefresh
           \/ (\E caller \in {"load", "page"} : HostLists(caller)) \/ UNCHANGED vars
  <2>1. UNCHANGED ui /\ UNCHANGED fileVars
    BY <1>7 DEF ConnectionChanges, RenderMainUi, UserActs, DeviceAction, EventRefresh, HostLists, vars
  <2> QED
    BY <2>1, SameFile
<1>8. CASE DialogEnds \/ EventPick
  <2>1. UNCHANGED <<ui, host, media, picks, lastPick, losses>>
    BY <1>8 DEF DialogEnds, EventPick
  <2> QED
    BY <2>1 DEF FileInv, Copied, FromPicked
<1>9. CASE DevicesListed \/ PushHandler \/ PushHandlerReturns
           \/ (\E t \in {"import", "settings"} : EventTab(t))
           \/ (\E d \in Devices : EventDevice(d.name)) \/ (\E t \in Typed : EventDraft(t))
  <2>1. UNCHANGED fileVars
    BY <1>9 DEF DevicesListed, PushHandler, PushHandlerReturns, EventTab, EventDevice, EventDraft
  <2>2. "prepared" \in DOMAIN ui
    BY <1>0 DEF UiStates
  <2>3. CASE DevicesListed
    <3>1. ui' = [ui EXCEPT !.devices = lists[1].list, !.selected = Selection(ui, lists[1].list)]
      BY <2>3 DEF DevicesListed
    <3> QED
      BY <2>1, <2>2, <3>1, SameFile
  <2>4. CASE PushHandler \/ PushHandlerReturns
    <3>1. ui' \in {ui, [ui EXCEPT !.busy = FALSE]}
      BY <2>4 DEF PushHandler, PushHandlerReturns, Finish, pushVars
    <3> QED
      BY <2>1, <2>2, <3>1, SameFile
  <2>5. CASE \E t \in {"import", "settings"} : EventTab(t)
    BY <2>1, <2>2, <2>5, SameFile DEF EventTab
  <2>6. CASE \E d \in Devices : EventDevice(d.name)
    BY <2>1, <2>2, <2>6, SameFile DEF EventDevice
  <2>7. CASE \E t \in Typed : EventDraft(t)
    BY <2>1, <2>2, <2>7, SameFile DEF EventDraft
  <2> QED
    BY <1>9, <2>3, <2>4, <2>5, <2>6, <2>7
<1>10. CASE EventCancel
  BY <1>0, <1>10, Closed, SameFile DEF EventCancel
<1>11. CASE \E f \in {"name", "start"} : EventEdit(f)
  <2>1. PICK f \in {"name", "start"} : EventEdit(f)
    BY <1>11
  <2>2. UNCHANGED fileVars /\ ui' \in {ui, OpenEditor(ui, f)}
    BY <2>1 DEF EventEdit
  <2>3. OpenEditor(ui, f).prepared = ui.prepared
    BY <1>0 DEF OpenEditor, UiStates
  <2> QED
    BY <2>2, <2>3, SameFile
<1> QED
  BY <1>1, <1>2, <1>3, <1>4, <1>5, <1>6, <1>7, <1>8, <1>9, <1>10, <1>11
     DEF Next, HostNext, ResumeNext, EventNext

\* pick_file: the schedule prepared is of the file picked last, although media
\* is shared by name between picks and between them and a push.
THEOREM PicksArePrepared == Spec => []PreparedIsPicked
<1>1. Init => FileInv
  <2> SUFFICES ASSUME Init PROVE FileInv
    OBVIOUS
  <2>1. losses = 0 /\ picks = <<>> /\ lastPick = {}
    BY DEF Init
  <2>2. DOMAIN picks = {}
    BY <2>1
  <2> QED
    BY <2>1, <2>2 DEF FileInv, Copied, FromPicked
<1>2. FileInv => PreparedIsPicked
  BY DEF FileInv, FromPicked, PreparedIsPicked
<1> QED
  BY <1>1, <1>2, ImportInvariant, FileStep, PTL DEF Spec

=============================================================================
