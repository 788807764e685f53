------------------------------- MODULE Pages -------------------------------
(***************************************************************************)
(* The app on the wristband: LoopApp (loop-core/src/app.rs), its five      *)
(* native pages (target/ui/mod.rs), and the code between (target/mod.rs).  *)
(* Everything here runs on the UI thread, so a callback of the firmware is *)
(* one action.  A callback goes through several functions that change app  *)
(* and pages in turn; they are operators on a record of both, s, and what  *)
(* the calls of the callback answered, w.                                  *)
(*                                                                         *)
(* LoopApp.generation only ever tells a page whether the app changed since *)
(* it was drawn: a page's fresh stands for revision = Some(generation).    *)
(*                                                                         *)
(* The firmware is external.  It keeps the stack of pages; a push or a     *)
(* finish it accepts is carried out with the callbacks in the order of     *)
(* tools/loop-ui-host (pause the top page, create or destroy, resume)      *)
(* before it turns to anything else.                                       *)
(***************************************************************************)
EXTENDS Integers, Sequences, FiniteSets

CONSTANTS
    Days,            \* days of the week, numbers from 1
    Files,           \* schedules: each maps a day to its courses, [id, text]
    ConnectFails,    \* connect_error # 0
    FaultKinds,      \* what may go wrong, of AllFaults
    MaxFaults,       \* bound: how often
    MaxImports       \* bound: schedules imported

AllFaults == {"refused", "busy", "unreadable"}
Routes == {"Home", "Today", "Week", "Detail", "Data"}
Empty == [d \in Days |-> <<>>]
Courses(file) == UNION {{file[d][k] : k \in DOMAIN file[d]} : d \in Days}

ASSUME DaysAssumption == Days # {} /\ IsFiniteSet(Days) /\ Days = 1..Cardinality(Days)
ASSUME FaultsAssumption == FaultKinds \subseteq AllFaults
ASSUME PagesBounds == MaxImports \in Nat /\ MaxFaults \in Nat
ASSUME FilesAssumption == Empty \in Files

VARIABLES
    app,         \* LoopApp without its generation; day and clock are 0 if unset
    pages,       \* PAGES
    disk,        \* schedule.json, Empty if there is none
    dirty,       \* schedule_dirty
    op,          \* "none", or what the firmware accepted: "pop" or the route to push
    stack,       \* the firmware's pages, the top one last
    awake,       \* the screen is on
    finger,      \* history: the row seen under the finger since it came down
    acted,       \* history of a step: that row and the row there when it acted
    imports, faults      \* what the bounds count

vars == <<app, pages, disk, dirty, op, stack, awake, finger, acted, imports, faults>>

\* A page the firmware has not created.  title is the day that its title bar names,
\* 0 if there is none or if it was made without a clock and says Monday.
NoPage == [active |-> FALSE, interactive |-> FALSE, timer |-> FALSE,
           fresh |-> FALSE, view |-> {}, title |-> 0, pressed |-> {}]

InSeq(q) == {q[k] : k \in DOMAIN q}
The(S) == CHOOSE x \in S : TRUE
Top(q) == q[Len(q)]
Below(q) == SubSeq(q, 1, Len(q) - 1)

-----------------------------------------------------------------------------
(* view.rs                                                                 *)

Row(text, kind, arg) == [text |-> text, kind |-> kind, arg |-> arg]
Still(text) == Row(text, "none", 0)

\* The first three rows of Home tell of the clock's day, here as one.
HomeRows(a) ==
    <<Still(<<"now", IF a.clock = 0 THEN <<>> ELSE a.schedule[a.clock]>>),
      Row(<<"today">>, "Today", 0), Row(<<"week">>, "Week", 0),
      Row(<<"data">>, "Data", 0)>>

KnownDay(a) == IF a.day # 0 THEN a.day ELSE a.clock
ShownDay(a) == IF KnownDay(a) # 0 THEN KnownDay(a) ELSE 1
DayRows(a) == [k \in DOMAIN a.schedule[ShownDay(a)] |->
                  LET c == a.schedule[ShownDay(a)][k]
                  IN  Row(<<"course", c.text>>, "Course", c.id)]
WeekRows(a) == [d \in 1..Cardinality(Days) |->
                   Row(<<"day", Len(a.schedule[d])>>, "Day", d)]
\* selected_course
Selected(a) == {c \in Courses(a.schedule) : c.id = a.course}

Present(a) ==
    CASE a.route = "Home" -> [head |-> <<"home">>, cards |-> HomeRows(a)]
      [] a.route = "Today" -> [head |-> <<"day", ShownDay(a)>>, cards |-> DayRows(a)]
      [] a.route = "Week" -> [head |-> <<"week">>, cards |-> WeekRows(a)]
      [] a.route = "Detail" ->
           IF Selected(a) = {} THEN [head |-> <<"gone">>, cards |-> <<>>]
           ELSE [head |-> <<"detail">>,
                 cards |-> <<Still(<<"course", The(Selected(a)).text>>)>>]
      [] a.route = "Data" -> [head |-> a.status,
                              cards |-> <<Row(<<"refresh">>, "Refresh", 0),
                                          Row(<<"clear">>, "Clear", 0)>>]

-----------------------------------------------------------------------------
(* app.rs.  s holds app, pages, disk, dirty and op.                        *)

\* Mutant: the counter is not advanced.
Unbumped(s, a) == [s EXCEPT !.app = a]
\* The app becomes a and bumps its generation: nothing drawn is fresh.
Becomes(s, a) == [s EXCEPT !.app = a,
                           !.pages = [p \in Routes |-> [@[p] EXCEPT !.fresh = FALSE]]]

\* What resume_route leaves of the history: what was before r, if r is there.
Rewound(h, r) ==
    LET at == {k \in DOMAIN h : h[k] = r}
        last == CHOOSE k \in at : \A j \in at : j <= k
    IN  IF at = {} THEN <<>> ELSE SubSeq(h, 1, last - 1)
ResumeRoute(s, r) ==
    IF s.app.route = r THEN s
    ELSE Becomes(s, [s.app EXCEPT !.history = Rewound(@, r), !.route = r])

Goes(a, r) == [a EXCEPT !.history = Append(@, a.route), !.route = r]

\* Action::Open, SelectDay and SelectCourse, as the rows' targets.
Opened(a, row) ==
    CASE row.kind = "Today" -> [Goes(a, "Today") EXCEPT
                                   !.day = IF a.clock = 0 THEN @ ELSE a.clock]
      [] row.kind = "Week" -> Goes(a, "Week")
      [] row.kind = "Data" -> [Goes(a, "Data") EXCEPT
                                  !.status = IF a.schedule = Empty THEN <<"empty">>
                                             ELSE <<"holds", Cardinality(Courses(a.schedule))>>]
      [] row.kind = "Day" -> [Goes(a, "Today") EXCEPT !.day = row.arg]
      [] row.kind = "Course" -> [Goes(a, "Detail") EXCEPT !.course = row.arg]

\* Action::Back
Backed(a) == IF a.history = <<>> THEN a
             ELSE [a EXCEPT !.route = Top(a.history), !.history = Below(@)]

Reload(s, file) == Becomes(s, [s.app EXCEPT !.schedule = file])
SetDataStatus(s, text) == Becomes(s, [s.app EXCEPT !.status = text])

\* Mutant: the clock moves the day on every page.
FollowsClock(a, c) == [a EXCEPT !.clock = c, !.day = c]
\* Mutant: the day is one too late.
LateDay(a, c) == [a EXCEPT !.clock = c,
                           !.day = IF a.route = "Home" \/ @ = 0 THEN c + 1 ELSE @]
\* Action::Tick: on Home the day follows the clock.
Ticked(a, c) == [a EXCEPT !.clock = c,
                          !.day = IF a.route = "Home" \/ @ = 0 THEN c ELSE @]
ClockTick(s, c) == IF s.app.clock # c THEN Becomes(s, Ticked(s.app, c))
                   ELSE [s EXCEPT !.app = Ticked(s.app, c)]

\* Mutant: only the route is put back.
RouteOnly(s, old) == Becomes(s, [s.app EXCEPT !.route = old.route])
\* restore_navigation: all but the schedule and the clock.
Restored(s, old) ==
    Becomes(s, [old EXCEPT !.schedule = s.app.schedule, !.clock = s.app.clock])

-----------------------------------------------------------------------------
(* mod.rs.  What the world answers to the calls of one callback is w:       *)
(*   clock   read_clock, 0 for None                                         *)
(*   load    what became of reloading: "not due", "ok", "error", or "busy"  *)
(*           if all of the maintenance was skipped (try_with_core)          *)
(*   draw    "ok" or "fails": the core is busy or there is no widget        *)

FaultsIn(w) == (IF w.load = "busy" \/ w.draw = "fails" THEN {"busy"} ELSE {})
               \cup (IF w.load = "error" THEN {"unreadable"} ELSE {})
Worlds == {w \in [clock : Days \cup {0}, load : {"not due", "ok", "error", "busy"},
                  draw : {"ok", "fails"}] :
              FaultsIn(w) \subseteq FaultKinds /\ (w.load = "busy" => w.clock = 0)}
\* What a callback may meet: time does not go back; the mark makes a reload due; one
\* without a mark that would find nothing new is left out.
Outcomes(time, mark) ==
    {w \in Worlds : /\ w.clock = 0 \/ w.clock >= time
                    /\ mark => w.load # "not due"
                    /\ w.load = "ok" => mark \/ app.schedule # disk
                    /\ faults + Cardinality(FaultsIn(w)) <= MaxFaults}
First == Outcomes(app.clock, dirty)
\* In the second half of a callback, after w in the first.
Second(w) == Outcomes(IF w.clock = 0 THEN app.clock ELSE w.clock, dirty /\ w.load = "busy")

\* Mutant: an import is not reloaded.
NeverReloaded(s, w) == s
\* apply_disk_schedule
Reloaded(s, w) ==
    IF w.load = "ok" /\ s.app.schedule # s.disk THEN Reload(s, s.disk) ELSE s

\* ui_maintenance_tick, with refresh_clock_and_schedule
Maintain(s, w) ==
    LET ticked == IF w.clock = 0 THEN s ELSE ClockTick(s, w.clock)
        loaded == IF w.load = "not due" THEN ticked
                  ELSE Reloaded([ticked EXCEPT !.dirty = FALSE], w)
    IN  IF w.load = "busy" THEN s
        ELSE IF /\ loaded.app.route = "Data" /\ ConnectFails
                /\ loaded.app.status # <<"unsupported">>
        THEN SetDataStatus(loaded, <<"unsupported">>)
        ELSE loaded

-----------------------------------------------------------------------------
(* ui/mod.rs                                                               *)

Shown(page) == page.active /\ page.interactive

\* Does render(p) return 0?
Renders(s, p, w) ==
    Shown(s.pages[p]) => s.app.route = p /\ w.draw # "fails"
\* What it leaves.  The title bar is made once.
Render(s, p, w) ==
    LET old == s.pages[p].title
        drawn == [s.pages[p] EXCEPT
                     !.view = {Present(s.app)}, !.fresh = TRUE,
                     !.title = IF p = "Today" /\ s.pages[p].view = {} THEN KnownDay(s.app)
                               ELSE old]
    IN  IF Shown(s.pages[p]) /\ Renders(s, p, w) /\ ~s.pages[p].fresh
        THEN [s EXCEPT !.pages[p] = drawn] ELSE s

\* Mutant: it is left to the one who creates the page.
NoTimer(s, p) == s
StartTimer(s, p) == [s EXCEPT !.pages[p].timer = TRUE]

\* The end that page_create and page_resume share.
Enter(s, p, w) ==
    LET maintained == Maintain(ResumeRoute(s, p), w)
        rendered == Render(maintained, p, w)
    IN  IF Renders(maintained, p, w) THEN StartTimer(rendered, p) ELSE rendered

PageCreate(s, p, w) ==
    Enter([s EXCEPT !.pages[p] = [NoPage EXCEPT !.active = TRUE, !.interactive = TRUE]],
          p, w)
PageResume(s, p, w) ==
    IF s.pages[p].active THEN Enter([s EXCEPT !.pages[p].interactive = TRUE], p, w)
    ELSE s

\* Mutant: the timer runs on.
TimerKept(s, p) == [s EXCEPT !.pages[p].interactive = FALSE, !.pages[p].pressed = {}]
PagePause(s, p) == [s EXCEPT !.pages[p].interactive = FALSE, !.pages[p].pressed = {},
                             !.pages[p].timer = FALSE]
PageDestroy(s, p) == [s EXCEPT !.pages[p] = NoPage]

-----------------------------------------------------------------------------
(* Actions of the user: handle_back and handle_action of mod.rs, with       *)
(* navigate and back of ui/mod.rs.  v is the world of the second half of a  *)
(* callback, refused the firmware's answer.                                 *)

\* Page p is left for what a says: the app first, the firmware after it.
Moves(s, p, a, how, refused, v) ==
    LET left == PagePause(Becomes(s, a), p)
    IN  IF refused THEN PageResume(Restored(left, s.app), p, v)
        ELSE [left EXCEPT !.op = how]

\* ReloadFromDisk
Refreshed(s, v) ==
    IF v.load = "error" THEN SetDataStatus(s, <<"not refreshed">>)
    ELSE SetDataStatus(Reload(s, s.disk),
             IF s.disk = Empty THEN <<"no file">>
             ELSE <<"refreshed", Cardinality(Courses(s.disk))>>)
\* ClearStoredSchedule
Cleared(s, v) ==
    IF v.load = "error" THEN SetDataStatus(s, <<"not cleared">>)
    ELSE SetDataStatus(Reload([s EXCEPT !.disk = Empty], Empty), <<"cleared">>)

HandleAction(s, p, row, refused, v) ==
    CASE row.kind = "Refresh" -> Refreshed(s, v)
      [] row.kind = "Clear" -> Cleared(s, v)
      [] OTHER -> LET a == Opened(s.app, row)
                  IN  Moves(s, p, a, a.route, refused, v)

HandleBack(s, p, refused, v) ==
    IF s.app.route # p THEN s ELSE Moves(s, p, Backed(s.app), "pop", refused, v)

\* Mutant: whatever row is there now.
AnyRow(s, p, press) == s.app.route = p /\ press.slot \in DOMAIN Present(s.app).cards
\* Is the pressed row still where it was?
StillThere(s, p, press) ==
    /\ s.app.route = p
    /\ press.slot \in DOMAIN Present(s.app).cards
    /\ Present(s.app).cards[press.slot] = press.card

-----------------------------------------------------------------------------
(* Steps.  Each is one callback of the firmware, to its end.               *)

S == [app |-> app, pages |-> pages, disk |-> disk, dirty |-> dirty, op |-> op]
Puts(s) == \E t \in {s} : /\ app' = t.app /\ pages' = t.pages /\ disk' = t.disk
                          /\ dirty' = t.dirty /\ op' = t.op

FaultCount(w) == Cardinality(FaultsIn(w))
Counts(n) == faults' = faults + n /\ faults' <= MaxFaults
Refusal(refused) == IF refused THEN 1 ELSE 0
Refusals == IF "refused" \in FaultKinds THEN BOOLEAN ELSE {FALSE}

Quiet == finger' = {} /\ acted' = {}

\* A page is put on top of the stack: on_pause, on_create, on_resume.
Pushes(p, w, v) ==
    LET below == IF stack = <<>> THEN S ELSE PagePause(S, Top(stack))
        created == PageCreate([below EXCEPT !.op = "none"], p, w)
    IN  /\ Counts(FaultCount(w) + FaultCount(v))
        /\ Puts(PageResume(created, p, v))
        /\ stack' = Append(stack, p)
        /\ Quiet
        /\ UNCHANGED <<awake, imports>>
\* The top page is taken off: on_pause, on_destroy, on_resume of the page below.
Pops(w) ==
    LET p == Top(stack)
        gone == PageDestroy(PagePause([S EXCEPT !.op = "none"], p), p)
    IN  /\ Counts(FaultCount(w))
        /\ Puts(IF Len(stack) = 1 THEN gone ELSE PageResume(gone, stack[Len(stack) - 1], w))
        /\ stack' = Below(stack)
        /\ Quiet
        /\ UNCHANGED <<awake, imports>>

Idle == op = "none" /\ stack # <<>>

Launch == /\ op = "none" /\ stack = <<>>
          /\ \E w \in First : \E v \in Second(w) : Pushes("Home", w, v)
CarryOutPush == op \in Routes /\ \E w \in First : \E v \in Second(w) : Pushes(op, w, v)
CarryOutPop == op = "pop" /\ \E w \in First : Pops(w)
Swipe == Idle /\ awake /\ \E w \in First : Pops(w)

ScreenOff == /\ Idle /\ awake /\ awake' = FALSE
             /\ Puts(PagePause(S, Top(stack)))
             /\ Quiet
             /\ UNCHANGED <<stack, imports, faults>>
ScreenOn == /\ Idle /\ ~awake /\ awake' = TRUE
            /\ \E w \in First : Counts(FaultCount(w)) /\ Puts(PageResume(S, Top(stack), w))
            /\ Quiet
            /\ UNCHANGED <<stack, imports>>
\* The firmware ends the app, also while the screen is off.
Leave == /\ Idle
         /\ stack' = <<>> /\ awake' = TRUE
         /\ Puts([S EXCEPT !.pages = [p \in Routes |-> NoPage]])
         /\ Quiet
         /\ UNCHANGED <<imports, faults>>

RefreshTimer ==
    \E p \in {q \in Routes : pages[q].timer /\ Shown(pages[q])} : \E w \in First :
        /\ Counts(FaultCount(w))
        /\ Puts(Render(Maintain(S, w), p, w))
        /\ acted' = {}
        /\ UNCHANGED <<stack, awake, finger, imports>>

\* row_event on a row of page p
Press(p, k) ==
    /\ pages[p].view # {}
    /\ k \in DOMAIN The(pages[p].view).cards
    /\ LET card == The(pages[p].view).cards[k]
       IN  /\ Puts([S EXCEPT !.pages[p].pressed = {[slot |-> k, card |-> card]}])
           /\ finger' = {card}
    /\ acted' = {}
    /\ UNCHANGED <<stack, awake, imports, faults>>
\* The finger slides off its row, or comes up on another row or one without a target.
PressEnds(p) ==
    /\ pages[p].pressed # {}
    /\ Puts([S EXCEPT !.pages[p].pressed = {}])
    /\ Quiet
    /\ UNCHANGED <<stack, awake, imports, faults>>
\* The finger comes up on its row.
Click(p, refused, w) ==
    LET press == The(pages[p].pressed)
        kept == Maintain([S EXCEPT !.pages[p].pressed = {}], w)
        acts == w.draw # "fails" /\ StillThere(kept, p, press)
    IN  /\ press.card.kind # "none"
        /\ \/ /\ ~acts /\ ~refused
              /\ Counts(FaultCount(w))
              /\ Puts(Render(kept, p, w))
              /\ acted' = {}
           \/ /\ acts
              /\ refused => press.card.kind \notin {"Refresh", "Clear"}
              /\ \E v \in Second(w) :
                    /\ Counts(FaultCount(w) + FaultCount(v) + Refusal(refused))
                    /\ Puts(Render(HandleAction(kept, p, press.card, refused, v), p, v))
              /\ acted' = {[seen |-> finger,
                            there |-> Present(kept.app).cards[press.slot]]}
        /\ finger' = {}
        /\ UNCHANGED <<stack, awake, imports>>
TitleBack(p, refused, v) ==
    /\ p # "Home"
    /\ Counts(FaultCount(v) + Refusal(refused))
    /\ Puts(HandleBack(S, p, refused, v))
    /\ Quiet
    /\ UNCHANGED <<stack, awake, imports>>

\* All of them return at once unless the page is active and interactive.
Touch ==
    \E p \in {q \in Routes : Shown(pages[q])} :
        \/ \E k \in 1..4 : Press(p, k)
        \/ PressEnds(p)
        \/ /\ pages[p].pressed # {}
           /\ \E refused \in Refusals, w \in First : Click(p, refused, w)
        \/ \E refused \in Refusals, v \in First : TitleBack(p, refused, v)

\* save_schedule and the mark, on the Supervisor's thread.
Import == /\ imports < MaxImports /\ imports' = imports + 1
          /\ disk' \in Files \ {Empty} /\ dirty' = TRUE
          /\ acted' = {}
          /\ UNCHANGED <<app, pages, op, stack, awake, finger, faults>>

-----------------------------------------------------------------------------
\* After activate.  The first tick reloads as if there were a mark.
Init == /\ app = [route |-> "Home", history |-> <<>>, schedule |-> Empty, clock |-> 0,
                  day |-> 0, course |-> 0, status |-> <<>>]
        /\ pages = [p \in Routes |-> NoPage]
        /\ disk \in Files /\ dirty = TRUE
        /\ op = "none" /\ stack = <<>> /\ awake = TRUE
        /\ finger = {} /\ acted = {}
        /\ imports = 0 /\ faults = 0

Next == \/ Launch \/ CarryOutPush \/ CarryOutPop \/ Swipe
        \/ ScreenOff \/ ScreenOn \/ Leave
        \/ RefreshTimer \/ Touch \/ Import
Spec == Init /\ [][Next]_vars
\* The timer is periodic, and the firmware does what it accepted.
FairSpec == /\ Spec
            /\ WF_vars(RefreshTimer)
            /\ WF_vars(CarryOutPush) /\ WF_vars(CarryOutPop)

-----------------------------------------------------------------------------
(* Properties                                                              *)

\* Types; what is interactive has been created.
PagesTypeOK ==
    /\ app.route \in Routes /\ InSeq(app.history) \subseteq Routes
    /\ app.schedule \in Files /\ disk \in Files
    /\ {app.clock, app.day} \subseteq Days \cup {0}
    /\ \A p \in Routes : /\ Cardinality(pages[p].view) <= 1
                          /\ Cardinality(pages[p].pressed) <= 1
                          /\ pages[p].interactive => pages[p].active
    /\ op \in Routes \cup {"none", "pop"}
    /\ InSeq(stack) \subseteq Routes
    /\ dirty \in BOOLEAN /\ awake \in BOOLEAN

\* LoopApp's route and history are the firmware's stack of pages whenever no
\* navigation is under way: after refused pushes and pops, swipes, a screen that
\* went off, an app that was left (resume_route, restore_navigation).
StackAgrees ==
    Idle => app.route = Top(stack) /\ app.history = Below(stack)

\* Only the top page of a lit screen is touched and has a timer, and none has
\* while a navigation is under way (page_pause, navigate, back).
OnlyTopRuns ==
    \A p \in Routes : Shown(pages[p]) \/ pages[p].timer \/ pages[p].pressed # {} =>
        Idle /\ awake /\ p = Top(stack) /\ Shown(pages[p])

\* The page on the screen has a timer, so that it is drawn again: a page that is
\* resumed and a page whose navigation was refused too (start_timer).
TopHasTimer == Idle /\ awake => pages[Top(stack)].timer

\* A page that believes it is up to date shows the app as it is: everything that
\* changes what present returns advances the generation.  The title bar, made
\* once per page, names the day whose courses are below it, unless the clock was
\* unknown when the page was opened.
DrawnIsCurrent ==
    \A p \in Routes : pages[p].fresh /\ app.route = p =>
        /\ pages[p].view = {Present(app)}
        /\ pages[p].title \in {0, ShownDay(app)}

\* What is opened, refreshed or cleared is the row that was under the finger when
\* it came down, and this row is still what the app would show there; nothing is
\* done without a finger that came down on this page since it was last resumed.
ClickIsPressed == \A a \in acted : a.seen = {a.there}

\* A day page shows the same day for as long as it is on the stack, whatever is
\* opened above it, refused or imported meanwhile, and whatever the clock does.
StaysOnDay ==
    [][InSeq(stack) \cap InSeq(stack') \cap {"Today"} # {} /\ app.day # 0 =>
          app.day' = app.day]_vars

\* A screen that stays on comes to show what is in the file.
ScreenFollows ==
    []<>(Idle /\ awake => /\ app.schedule = disk
                         /\ pages[Top(stack)].view = {Present(app)})
=============================================================================
