---------------------------- MODULE PushService ----------------------------
(***************************************************************************)
(* What pushing a schedule promises the user.  One push at a time is under *)
(* way; it ends once or, when the phone's side restarts, is forgotten.     *)
(* The wristband keeps a push as it was pushed, perhaps only after the     *)
(* user was told that it failed; the user is told of success only after    *)
(* it was kept.  The schedule on the wristband is the one saved last, or   *)
(* none once it was cleared.                                               *)
(***************************************************************************)
EXTENDS Sequences

CONSTANTS
    Identities,   \* what pushes are told apart by
    Contents,     \* the schedules that can be pushed
    Valid(_),     \* does the wristband accept one?
    Count(_)      \* the courses in it

VARIABLES
    pushes,       \* every push begun: [id, bytes]
    underWay,     \* the one that has not ended, if any
    saves,        \* what the wristband saved, in order
    stored,       \* the schedule on the wristband, at most one
    reports       \* what the user was told: [id, ending, count, tries]

serviceVars == <<pushes, underWay, saves, stored, reports>>

ServiceInit ==
    pushes = {} /\ underWay = {} /\ saves = <<>> /\ stored = {} /\ reports = {}

Begin(u) ==
    /\ underWay = {} /\ underWay' = {u}
    /\ u \in [id : Identities, bytes : Contents] /\ \A v \in pushes : v.id # u.id
    /\ pushes' = pushes \cup {u}
    /\ UNCHANGED <<saves, stored, reports>>

Save(u) ==
    /\ Valid(u.bytes)
    /\ saves' = Append(saves, u) /\ stored' = {u.bytes}
    /\ UNCHANGED <<pushes, underWay, reports>>

\* The user is told how the push u ended.
End(u, r) ==
    /\ r.id = u.id
    /\ r.ending = "success" =>
          r.count = Count(u.bytes) /\ \E i \in DOMAIN saves : saves[i] = u
    /\ underWay' = {} /\ reports' = reports \cup {r}
    /\ UNCHANGED <<pushes, saves, stored>>

Forget == underWay # {} /\ underWay' = {} /\ UNCHANGED <<pushes, saves, stored, reports>>

Clear == stored' = {} /\ UNCHANGED <<pushes, underWay, saves, reports>>

ServiceNext ==
    \/ \E u \in underWay' : Begin(u)
    \/ \E u \in pushes : Save(u)
    \/ \E u \in underWay : \E r \in reports' : End(u, r)
    \/ Forget \/ Clear

ServiceSpec == ServiceInit /\ [][ServiceNext]_serviceVars
=============================================================================
