--------------------------- MODULE LifecycleProofs ---------------------------
(***************************************************************************)
(* What the Supervisor may rely on, for any number of activations, stages, *)
(* failures and power failures, any icon and any quota.  Four inductive    *)
(* invariants: TraceInv of the trace's counter and file, CoreInv of the    *)
(* lock, which need no other, ServedInv of the endpoint and EntryInv of    *)
(* the launcher's entry, which use CoreInv.                                *)
(***************************************************************************)
EXTENDS Lifecycle, TLAPS, SequenceTheorems

---------------------------------------------------------------------------
(* The trace                                                               *)

TraceInv ==
    /\ sequence \in 0..MaxRecords /\ claimed = sequence /\ log \in Nat
    /\ trace \in [Threads -> {"no", "load", "claim", "open", "write"}]
    /\ seen \in [Threads -> 0..MaxRecords]
    /\ left \in [Threads -> 0..Line]
    /\ \A t \in Threads : trace[t] = "claim" => seen[t] < MaxRecords
    /\ log + left["owner"] + left["ui"] <= MaxBytes + Line

LEMMA TraceStart == Init => TraceInv
BY TraceAssumption DEF Init, TraceInv, Threads

LEMMA TraceStep == TraceInv /\ [Next]_vars => TraceInv'
<1> SUFFICES ASSUME TraceInv, [Next]_vars
             PROVE  TraceInv'
  OBVIOUS
<1>1. CASE UNCHANGED diagnostics
  BY <1>1 DEF diagnostics, TraceInv
<1>2. ASSUME NEW t \in Threads, UNCHANGED <<sequence, claimed>>, Mark(t)
      PROVE  TraceInv'
  BY <1>2 DEF Mark, TraceInv
<1>3. CASE Activate
  <2>1. CASE "required" \in services
    BY <1>3, <2>1, TraceAssumption DEF Activate, Mark, TraceInv, Threads
  <2>2. CASE "required" \notin services
    BY <1>1, <1>3, <2>2 DEF Activate
  <2> QED
    BY <2>1, <2>2
<1>4. ASSUME NEW t \in Threads, Load(t)
      PROVE  TraceInv'
  <2>1. sequence \in 0..MaxRecords /\ (~Spent => sequence < MaxRecords)
    BY TraceAssumption DEF TraceInv, Spent
  <2> QED
    BY <1>4, <2>1, TraceAssumption DEF Load, TraceInv
<1>5. ASSUME NEW t \in Threads, Claim(t)
      PROVE  TraceInv'
  <2>1. CASE Swaps(t)
    BY <1>5, <2>1, TraceAssumption DEF Claim, Swaps, TraceInv
  <2>2. CASE ~Swaps(t)
    <3>1. ~Spent => sequence < MaxRecords
      BY TraceAssumption DEF TraceInv, Spent
    <3> QED
      BY <1>5, <2>2, <3>1 DEF Claim, TraceInv
  <2> QED
    BY <2>1, <2>2
<1>6. ASSUME NEW t \in Threads, OpenTrace(t)
      PROVE  TraceInv'
  <2>1. CASE left' = left /\ trace' = [trace EXCEPT ![t] = "no"]
    BY <1>6, <2>1 DEF OpenTrace, TraceInv
  <2>2. CASE Fits /\ left' = [left EXCEPT ![t] = Line] /\ trace' = [trace EXCEPT ![t] = "write"]
    <3>1. log + Line <= MaxBytes /\ log' = log
      BY <1>6, <2>2 DEF Fits, OpenTrace
    <3>2. log + left'["owner"] + left'["ui"] <= MaxBytes + Line
      BY <2>2, <3>1, TraceAssumption DEF TraceInv, Threads
    <3> QED
      BY <1>6, <2>2, <3>1, <3>2, TraceAssumption DEF OpenTrace, TraceInv
  <2> QED
    BY <1>6, <2>1, <2>2 DEF OpenTrace
<1>7. ASSUME NEW t \in Threads, WriteTrace(t)
      PROVE  TraceInv'
  <2>1. CASE left' = [left EXCEPT ![t] = 0] /\ log' = log
    <3>1. left'["owner"] + left'["ui"] <= left["owner"] + left["ui"] /\ left' \in [Threads -> 0..Line]
      BY <2>1, TraceAssumption DEF TraceInv, Threads
    <3>2. trace' \in [Threads -> {"no", "load", "claim", "open", "write"}]
      BY <1>7 DEF WriteTrace, TraceInv
    <3>3. \A u \in Threads : trace'[u] = "claim" => trace[u] = "claim"
      BY <1>7, <3>2 DEF WriteTrace, TraceInv
    <3>4. log + left'["owner"] + left'["ui"] <= MaxBytes + Line
      BY <3>1, TraceAssumption DEF TraceInv, Threads
    <3> QED
      BY <1>7, <2>1, <3>1, <3>2, <3>3, <3>4 DEF WriteTrace, TraceInv
  <2>2. ASSUME NEW n \in 1..left[t], log' = log + n, left' = [left EXCEPT ![t] = left[t] - n]
        PROVE  TraceInv'
    <3>1. left[t] \in 0..Line /\ n \in Nat /\ n <= left[t]
      BY TraceAssumption DEF TraceInv
    <3>2. log' + left'["owner"] + left'["ui"] = log + left["owner"] + left["ui"] /\ left' \in [Threads -> 0..Line]
      BY <2>2, <3>1, TraceAssumption DEF TraceInv, Threads
    <3>3. trace' \in [Threads -> {"no", "load", "claim", "open", "write"}]
      BY <1>7 DEF WriteTrace, TraceInv
    <3>4. \A u \in Threads : trace'[u] = "claim" => trace[u] = "claim"
      BY <1>7, <3>3 DEF WriteTrace, TraceInv
    <3>5. log' \in Nat /\ UNCHANGED <<sequence, claimed, seen>>
      BY <1>7, <2>2, <3>1 DEF WriteTrace, TraceInv
    <3> QED
      BY <3>2, <3>3, <3>4, <3>5 DEF TraceInv
  <2> QED
    BY <1>7, <2>1, <2>2 DEF WriteTrace
<1>8. CASE Crash
  <2>1. /\ sequence' = 0 /\ claimed' = 0 /\ log' = log /\ left' = [t \in Threads |-> 0]
        /\ trace' = [t \in Threads |-> "no"] /\ seen' = [t \in Threads |-> 0]
    BY <1>8 DEF Crash
  <2>2. log <= MaxBytes + Line
    BY TraceAssumption DEF TraceInv, Threads
  <2> QED
    BY <2>1, <2>2, TraceAssumption DEF TraceInv, Threads
<1>9. CASE UNCHANGED vars
  BY <1>1, <1>9 DEF vars
<1>10. CASE Owner
  <2>1. CASE Prepare
    BY <1>1, <2>1 DEF Prepare
  <2>2. CASE RuntimePrepare
    BY <1>1, <2>2 DEF RuntimePrepare
  <2>3. CASE Guard
    BY <1>1, <2>3 DEF Guard
  <2>4. CASE Boot
    BY <1>1, <2>4 DEF Boot
  <2>5. CASE ConnectStart
    BY <1>1, <2>5 DEF ConnectStart
  <2>6. CASE ActivateEnd
    BY <1>2, <2>6 DEF ActivateEnd, Threads
  <2>7. CASE ActivateResult
    BY <1>1, <2>7 DEF ActivateResult
  <2>8. CASE Deactivate
    BY <1>1, <2>8 DEF Deactivate
  <2>9. CASE Query
    BY <1>1, <2>9 DEF Query
  <2> QED
    BY <1>10, <1>3, <2>1, <2>2, <2>3, <2>4, <2>5, <2>6, <2>7, <2>8, <2>9 DEF Owner
<1>11. CASE Ui
  <2>1. CASE Page
    BY <1>1, <2>1 DEF Page
  <2>2. CASE Publish
    BY <1>2, <2>2 DEF Publish, Threads
  <2>3. CASE Describe
    BY <1>1, <2>3 DEF Describe
  <2>4. CASE LookAtIcon
    BY <1>1, <2>4 DEF LookAtIcon
  <2>5. CASE TruncateIcon
    BY <1>1, <2>5 DEF TruncateIcon
  <2>6. CASE WriteIcon
    BY <1>1, <2>6 DEF WriteIcon
  <2>7. CASE SyncIcon
    BY <1>1, <2>7 DEF SyncIcon
  <2>8. CASE CloseIcon
    BY <1>1, <2>8 DEF CloseIcon
  <2>9. CASE Register
    BY <1>1, <2>9 DEF Register
  <2>10. CASE StoreId
    BY <1>1, <2>10 DEF StoreId
  <2>11. CASE PublishEnd
    BY <1>2, <2>11 DEF PublishEnd, Threads
  <2>12. CASE PublishResult
    BY <1>1, <2>12 DEF PublishResult
  <2> QED
    BY <1>11, <2>1, <2>2, <2>3, <2>4, <2>5, <2>6, <2>7, <2>8, <2>9, <2>10, <2>11, <2>12 DEF Ui
<1> QED
  BY <1>4, <1>5, <1>6, <1>7, <1>8, <1>9, <1>10, <1>11 DEF Next, Traces

\* However the two threads interleave, an activation claims at most MAX_RECORDS
\* records, and the file outgrows its limit by one record at most
\* (diagnostics.rs:37, 88).
THEOREM TraceStaysBounded == Spec => []TraceBounded
<1>1. Spec => []TraceInv
  BY TraceStart, TraceStep, PTL DEF Spec
<1>2. TraceInv => TraceBounded
  BY TraceAssumption DEF TraceInv, TraceBounded, Threads
<1> QED
  BY <1>1, <1>2, PTL

---------------------------------------------------------------------------
(* The core                                                                *)

CoreInv ==
    /\ pc \in [Threads -> OwnerSteps \cup UiSteps] /\ rc \in [Threads -> BOOLEAN]
    /\ core \in {"none", "made"} /\ ready \in BOOLEAN /\ lock \in BOOLEAN
    /\ ready <=> core = "made"
    /\ inside \subseteq Threads
    /\ "owner" \in inside <=> pc["owner"] = "booting"
    /\ "ui" \in inside <=> pc["ui"] = "core"
    /\ lock <=> inside # {}
    /\ \A t, u \in inside : t = u
    /\ active \in BOOLEAN /\ resident \in BOOLEAN
    /\ active => resident
    /\ resident => ready
    /\ entry \in BOOLEAN /\ (entry => resident)
    /\ pc["ui"] # "idle" => resident
    /\ pc["owner"] \in {"boot", "booting", "connect"} => ready
    /\ pc["owner"] \in {"end", "result"} /\ rc["owner"] => ready
    /\ pc["owner"] = "unloaded" => ~resident

LEMMA CoreStart == Init => CoreInv
<1> SUFFICES ASSUME Init PROVE CoreInv
  OBVIOUS
<1>1. /\ pc["owner"] = "unloaded" /\ pc["ui"] = "idle" /\ pc \in [Threads -> OwnerSteps \cup UiSteps]
      /\ rc \in [Threads -> BOOLEAN]
  BY DEF Init, Threads, OwnerSteps, UiSteps
<1>2. core = "none" /\ ready = FALSE /\ lock = FALSE /\ inside = {} /\ active = FALSE /\ resident = FALSE /\ entry = FALSE
  BY DEF Init
<1> QED
  BY <1>1, <1>2 DEF CoreInv, Threads

LEMMA CoreStep == CoreInv /\ [Next]_vars => CoreInv'
<1> SUFFICES ASSUME CoreInv, [Next]_vars
             PROVE  CoreInv'
  OBVIOUS
<1> USE DEF Threads, OwnerSteps, UiSteps, At, Goto, Result
\* A step of the UI thread within a stage.
<1>0. ASSUME NEW n \in UiSteps \ {"idle", "core"}, pc["ui"] \notin {"idle", "core"}, pc' = [pc EXCEPT !["ui"] = n],
             rc' \in [Threads -> BOOLEAN], rc'["owner"] = rc["owner"],
             UNCHANGED <<core, ready, lock, inside, active, resident, entry>>
      PROVE  CoreInv'
  BY <1>0 DEF CoreInv
<1>1. CASE Prepare
  BY <1>1 DEF Prepare, CoreInv, flags, guarded, app
<1>2. CASE Activate
  BY <1>2 DEF Activate, Mark, CoreInv, flags, guarded, app
<1>3. CASE RuntimePrepare
  <2>1. pc' = [pc EXCEPT !["owner"] = "guard"] /\ pc["owner"] = "prepare" /\ UNCHANGED <<rc, inside, active, resident, entry>>
    BY <1>3 DEF RuntimePrepare, flags, app
  <2>2. CASE ready
    <3>1. UNCHANGED <<core, ready, lock>>
      BY <1>3, <2>2 DEF RuntimePrepare, Skips
    <3> QED
      BY <2>1, <3>1 DEF CoreInv
  <2>3. CASE ~ready
    <3>1. inside = {} /\ lock = FALSE /\ ~resident /\ core = "none"
      BY <2>1, <2>3 DEF CoreInv
    <3>2. \/ core' = "made" /\ lock' = FALSE /\ ready' = TRUE
          \/ ready' = FALSE /\ UNCHANGED <<core, lock>>
      BY <1>3, <2>3 DEF RuntimePrepare, Skips
    <3> QED
      BY <2>1, <2>3, <3>1, <3>2 DEF CoreInv
  <2> QED
    BY <2>2, <2>3
<1>4. CASE Guard
  BY <1>4 DEF Guard, CoreInv, flags, guarded, app
<1>5. CASE Boot
  <2>1. CASE At("owner", "boot") /\ Enter("owner") /\ Goto("owner", "booting")
    BY <1>5, <2>1 DEF Boot, Enter, CoreInv, flags, app
  <2>2. CASE At("owner", "booting") /\ Exit("owner") /\ Goto("owner", "connect")
    BY <1>5, <2>2 DEF Boot, Exit, CoreInv, flags, app
  <2> QED
    BY <1>5, <2>1, <2>2 DEF Boot
<1>6. CASE ConnectStart
  BY <1>6 DEF ConnectStart, CoreInv, flags, guarded, app
<1>7. CASE ActivateEnd
  BY <1>7 DEF ActivateEnd, CoreInv, flags, guarded, app
<1>8. CASE ActivateResult
  BY <1>8 DEF ActivateResult, Stays, CoreInv, flags, guarded, app
<1>9. CASE Deactivate
  BY <1>9 DEF Deactivate, CoreInv, flags, guarded, app
<1>10. CASE Query
  BY <1>10 DEF Query, CoreInv, flags, guarded, app
<1>11. CASE Page
  <2>1. CASE At("ui", "idle") /\ entry /\ Enter("ui") /\ Goto("ui", "core")
    BY <1>11, <2>1 DEF Page, Enter, CoreInv, flags, app
  <2>2. CASE At("ui", "core") /\ Exit("ui") /\ Goto("ui", "idle")
    BY <1>11, <2>2 DEF Page, Exit, CoreInv, flags, app
  <2> QED
    BY <1>11, <2>1, <2>2 DEF Page
<1>12. CASE Publish
  BY <1>12 DEF Publish, CoreInv, flags, guarded, app
<1>13. CASE Describe
  BY <1>13 DEF Describe, CoreInv, flags, guarded, app
<1>14. CASE LookAtIcon
  <2>1. \E n \in UiSteps \ {"idle", "core"} : pc' = [pc EXCEPT !["ui"] = n]
    BY <1>14 DEF LookAtIcon
  <2>2. rc' \in [Threads -> BOOLEAN] /\ rc'["owner"] = rc["owner"] /\ pc["ui"] \notin {"idle", "core"}
    BY <1>14 DEF LookAtIcon, CoreInv
  <2>3. UNCHANGED <<core, ready, lock, inside, active, resident, entry>>
    BY <1>14 DEF LookAtIcon, flags, guarded, app
  <2> QED
    BY <1>0, <2>1, <2>2, <2>3
<1>15. CASE TruncateIcon
  <2>1. \E n \in UiSteps \ {"idle", "core"} : pc' = [pc EXCEPT !["ui"] = n]
    BY <1>15 DEF TruncateIcon
  <2>2. rc' \in [Threads -> BOOLEAN] /\ rc'["owner"] = rc["owner"] /\ pc["ui"] \notin {"idle", "core"}
    BY <1>15 DEF TruncateIcon, CoreInv
  <2>3. UNCHANGED <<core, ready, lock, inside, active, resident, entry>>
    BY <1>15 DEF TruncateIcon, flags, guarded, app
  <2> QED
    BY <1>0, <2>1, <2>2, <2>3
<1>16. CASE WriteIcon
  <2>1. \E n \in UiSteps \ {"idle", "core"} : pc' = [pc EXCEPT !["ui"] = n]
    BY <1>16 DEF WriteIcon
  <2>2. rc' \in [Threads -> BOOLEAN] /\ rc'["owner"] = rc["owner"] /\ pc["ui"] \notin {"idle", "core"}
    BY <1>16 DEF WriteIcon, CoreInv
  <2>3. UNCHANGED <<core, ready, lock, inside, active, resident, entry>>
    BY <1>16 DEF WriteIcon, flags, guarded, app
  <2> QED
    BY <1>0, <2>1, <2>2, <2>3
<1>17. CASE SyncIcon
  <2>1. \E n \in UiSteps \ {"idle", "core"} : pc' = [pc EXCEPT !["ui"] = n]
    BY <1>17 DEF SyncIcon
  <2>2. rc' \in [Threads -> BOOLEAN] /\ rc'["owner"] = rc["owner"] /\ pc["ui"] \notin {"idle", "core"}
    BY <1>17 DEF SyncIcon, CoreInv
  <2>3. UNCHANGED <<core, ready, lock, inside, active, resident, entry>>
    BY <1>17 DEF SyncIcon, flags, guarded, app
  <2> QED
    BY <1>0, <2>1, <2>2, <2>3
<1>18. CASE CloseIcon
  <2>1. \E n \in UiSteps \ {"idle", "core"} : pc' = [pc EXCEPT !["ui"] = n]
    BY <1>18 DEF CloseIcon
  <2>2. rc' \in [Threads -> BOOLEAN] /\ rc'["owner"] = rc["owner"] /\ pc["ui"] \notin {"idle", "core"}
    BY <1>18 DEF CloseIcon, CoreInv
  <2>3. UNCHANGED <<core, ready, lock, inside, active, resident, entry>>
    BY <1>18 DEF CloseIcon, flags, guarded, app
  <2> QED
    BY <1>0, <2>1, <2>2, <2>3
<1>19. CASE Register
  BY <1>19 DEF Register, CoreInv, flags, guarded, app
<1>20. CASE StoreId
  BY <1>20 DEF StoreId, CoreInv, flags, guarded, app
<1>21. CASE PublishEnd
  BY <1>21 DEF PublishEnd, CoreInv, flags, guarded, app
<1>22. CASE PublishResult
  BY <1>22 DEF PublishResult, CoreInv, flags, guarded, app
<1>23. ASSUME NEW t \in Threads, Traces(t)
      PROVE  CoreInv'
  <2>1. UNCHANGED <<pc, rc, flags, guarded, app>>
    BY <1>23 DEF Traces, Load, Claim, OpenTrace, WriteTrace
  <2> QED
    BY <2>1 DEF CoreInv, flags, guarded, app
<1>24. CASE Crash
  BY <1>24 DEF Crash, CoreInv, flags, guarded, app
<1>25. CASE UNCHANGED vars
  BY <1>25 DEF vars, CoreInv, flags, guarded, app
<1> QED
  BY <1>1, <1>2, <1>3, <1>4, <1>5, <1>6, <1>7, <1>8, <1>9, <1>10, <1>11, <1>12, <1>13, <1>14, <1>15, <1>16, <1>17, <1>18, <1>19, <1>20, <1>21, <1>22, <1>23, <1>24, <1>25 DEF Next, Owner, Ui

\* Whatever is activated again while a page is open, the core is initialised
\* before it is used and used by one thread at a time (runtime.rs:49-102).
THEOREM CoreIsExclusive == Spec => []CoreExclusive
<1>1. Spec => []CoreInv
  BY CoreStart, CoreStep, PTL DEF Spec
<1>2. CoreInv => CoreExclusive
  BY DEF CoreInv, CoreExclusive, Threads
<1> QED
  BY <1>1, <1>2, PTL

---------------------------------------------------------------------------
(* What is registered                                                      *)

ServedInv ==
    /\ errors \in [Reports -> BOOLEAN]
    /\ endpoint \in BOOLEAN /\ listening \in BOOLEAN /\ timer \in {"none", "running"}
    /\ timer = "running" <=> endpoint
    /\ listening <=> endpoint
    /\ errors["connect"] <=> ~endpoint
    /\ endpoint => resident \/ (pc["owner"] \in {"end", "result"} /\ rc["owner"])
    /\ answer \in {"none", "stopped", "REBOOT_REQUIRED"}
    /\ answer = "stopped" => pc["owner"] = "idle" /\ ~resident
    /\ status.active => active
    /\ pc["owner"] = "unloaded" => ~status.active

EntryInv ==
    /\ descriptors \in BOOLEAN /\ app_id \in BOOLEAN
    /\ app_id <=> entry /\ pc["ui"] # "registered"
    /\ entry => descriptors /\ icon.bytes = Icon
    /\ pc["ui"] \in {"icon", "truncate", "write", "sync", "close", "register", "registered"} => descriptors
    /\ pc["ui"] \in {"truncate", "write", "sync", "close", "register"} => ~entry
    /\ pc["ui"] \in {"sync", "register"} => icon.bytes = Icon
    /\ pc["ui"] = "close" /\ rc["ui"] => icon.bytes = Icon
    /\ pc["ui"] = "registered" => entry
    /\ app_state = "REGISTERED" => app_id
    /\ status.app_state = "REGISTERED" => app_id

LEMMA ServedStart == Init => ServedInv
<1> SUFFICES ASSUME Init PROVE ServedInv
  OBVIOUS
<1>1. errors \in [Reports -> BOOLEAN] /\ errors["connect"] = TRUE
  BY DEF Init, Reports
<1>2. pc["owner"] = "unloaded" /\ status.active = FALSE
  BY DEF Init, Threads, NoStatus
<1>3. endpoint = FALSE /\ listening = FALSE /\ timer = "none" /\ answer = "none"
  BY DEF Init
<1> QED
  BY <1>1, <1>2, <1>3 DEF ServedInv

LEMMA EntryStart == Init => EntryInv
<1> SUFFICES ASSUME Init PROVE EntryInv
  OBVIOUS
<1>1. pc["ui"] = "idle" /\ status.app_state = "NONE"
  BY DEF Init, Threads, NoStatus
<1>2. descriptors = FALSE /\ app_id = FALSE /\ entry = FALSE /\ app_state = "NONE"
  BY DEF Init
<1> QED
  BY <1>1, <1>2 DEF EntryInv

\* Steps that touch nothing an invariant speaks of.
LEMMA ServedQuiet ==
  ASSUME ServedInv, UNCHANGED <<connection, active, resident, answer, status>>,
         errors' \in [Reports -> BOOLEAN], errors'["connect"] = errors["connect"],
         pc'["owner"] = pc["owner"], rc'["owner"] = rc["owner"]
  PROVE  ServedInv'
BY DEF ServedInv, connection

LEMMA EntryQuiet ==
  ASSUME EntryInv, UNCHANGED <<app, icon>>, status' = status,
         pc'["ui"] = pc["ui"], rc'["ui"] = rc["ui"]
  PROVE  EntryInv'
BY DEF EntryInv, app

LEMMA ServedStep == CoreInv /\ ServedInv /\ [Next]_vars => ServedInv'
<1> SUFFICES ASSUME CoreInv, ServedInv, [Next]_vars
             PROVE  ServedInv'
  OBVIOUS
<1>0. pc \in [Threads -> OwnerSteps \cup UiSteps] /\ rc \in [Threads -> BOOLEAN] /\ errors \in [Reports -> BOOLEAN]
  BY DEF CoreInv, ServedInv
<1> USE DEF At, Goto, Result
<1>1. CASE Prepare
  BY <1>1, <1>0 DEF Prepare, CoreInv, ServedInv, connection, flags, told, Threads, Reports
<1>2. CASE Activate
  BY <1>2, <1>0 DEF Activate, CoreInv, ServedInv, connection, flags, told, Threads, Reports
<1>3. CASE RuntimePrepare
  BY <1>3, <1>0 DEF RuntimePrepare, CoreInv, ServedInv, connection, flags, told, Threads, Reports
<1>4. CASE Guard
  BY <1>4, <1>0 DEF Guard, CoreInv, ServedInv, connection, flags, told, Threads, Reports
<1>5. CASE Boot
  BY <1>5, <1>0 DEF Boot, CoreInv, ServedInv, connection, flags, told, Threads, Reports
<1>6. CASE ConnectStart
  <2>1. pc["owner"] = "connect" /\ pc'["owner"] = "end" /\ rc'["owner"] = TRUE
    BY <1>6, <1>0 DEF ConnectStart, Threads
  <2>2. \/ UNCHANGED <<endpoint, timer, listening>>
        \/ ~endpoint /\ timer' = "none" /\ UNCHANGED <<endpoint, listening>>
        \/ ~endpoint /\ endpoint' = TRUE /\ timer' = "running" /\ listening' = TRUE
    BY <1>6 DEF ConnectStart, DestroyedTimer
  <2>3. /\ endpoint' \in BOOLEAN /\ listening' \in BOOLEAN /\ timer' \in {"none", "running"}
        /\ (timer' = "running" <=> endpoint') /\ (listening' <=> endpoint')
    <3>1. CASE UNCHANGED <<endpoint, timer, listening>>
      BY <3>1 DEF ServedInv
    <3>2. CASE ~endpoint /\ timer' = "none" /\ UNCHANGED <<endpoint, listening>>
      <4>1. endpoint = FALSE /\ listening = FALSE
        BY <3>2 DEF ServedInv
      <4> QED
        BY <3>2, <4>1
    <3>3. CASE ~endpoint /\ endpoint' = TRUE /\ timer' = "running" /\ listening' = TRUE
      BY <3>3
    <3> QED
      BY <2>2, <3>1, <3>2, <3>3
  <2>4. errors' = [errors EXCEPT !["connect"] = ~endpoint']
    BY <1>6 DEF ConnectStart
  <2>5. errors' \in [Reports -> BOOLEAN] /\ (errors'["connect"] <=> ~endpoint')
    BY <2>3, <2>4, <1>0 DEF Reports
  <2>6. UNCHANGED <<active, resident, answer, status>> /\ answer # "stopped"
    BY <1>6, <2>1 DEF ConnectStart, told, ServedInv
  <2> QED
    BY <2>1, <2>3, <2>5, <2>6 DEF ServedInv
<1>7. CASE ActivateEnd
  BY <1>7, <1>0 DEF ActivateEnd, CoreInv, ServedInv, connection, flags, told, Threads, Reports
<1>8. CASE ActivateResult
  <2>1. errors' \in [Reports -> BOOLEAN] /\ errors'["connect"] = errors["connect"]
    BY <1>8, <1>0 DEF ActivateResult, Reports
  <2>2. pc["owner"] = "result" /\ pc'["owner"] = "idle" /\ rc["owner"] \in BOOLEAN
    BY <1>8, <1>0 DEF ActivateResult, Threads
  <2>3. resident' = (resident \/ rc["owner"]) /\ active' = (active \/ rc["owner"])
    BY <1>8 DEF ActivateResult, Stays
  <2>4. UNCHANGED <<connection, answer, status>>
    BY <1>8 DEF ActivateResult, told
  <2>5. answer # "stopped" /\ (endpoint => resident \/ rc["owner"])
    BY <2>2 DEF ServedInv
  <2> QED
    BY <2>1, <2>2, <2>3, <2>4, <2>5 DEF ServedInv, connection
<1>9. CASE Deactivate
  BY <1>9, <1>0 DEF Deactivate, CoreInv, ServedInv, connection, flags, told, Threads, Reports
<1>10. CASE Query
  BY <1>10, <1>0 DEF Query, CoreInv, ServedInv, connection, flags, told, Threads, Reports
<1>11. CASE Page
  <2>1. UNCHANGED <<connection, active, resident, answer, status>>
    BY <1>11 DEF Page, flags, told
  <2>2. errors' \in [Reports -> BOOLEAN] /\ errors'["connect"] = errors["connect"]
    BY <1>11, <1>0 DEF Page, flags, Reports
  <2>3. pc'["owner"] = pc["owner"] /\ rc'["owner"] = rc["owner"]
    BY <1>11, <1>0 DEF Page, Threads
  <2> QED
    BY <2>1, <2>2, <2>3, ServedQuiet
<1>12. CASE Publish
  <2>1. UNCHANGED <<connection, active, resident, answer, status>>
    BY <1>12 DEF Publish, flags, told
  <2>2. errors' \in [Reports -> BOOLEAN] /\ errors'["connect"] = errors["connect"]
    BY <1>12, <1>0 DEF Publish, flags, Reports
  <2>3. pc'["owner"] = pc["owner"] /\ rc'["owner"] = rc["owner"]
    BY <1>12, <1>0 DEF Publish, Threads
  <2> QED
    BY <2>1, <2>2, <2>3, ServedQuiet
<1>13. CASE Describe
  <2>1. UNCHANGED <<connection, active, resident, answer, status>>
    BY <1>13 DEF Describe, flags, told
  <2>2. errors' \in [Reports -> BOOLEAN] /\ errors'["connect"] = errors["connect"]
    BY <1>13, <1>0 DEF Describe, flags, Reports
  <2>3. pc'["owner"] = pc["owner"] /\ rc'["owner"] = rc["owner"]
    BY <1>13, <1>0 DEF Describe, Threads
  <2> QED
    BY <2>1, <2>2, <2>3, ServedQuiet
<1>14. CASE LookAtIcon
  <2>1. UNCHANGED <<connection, active, resident, answer, status>>
    BY <1>14 DEF LookAtIcon, flags, told
  <2>2. errors' \in [Reports -> BOOLEAN] /\ errors'["connect"] = errors["connect"]
    BY <1>14, <1>0 DEF LookAtIcon, flags, Reports
  <2>3. pc'["owner"] = pc["owner"] /\ rc'["owner"] = rc["owner"]
    BY <1>14, <1>0 DEF LookAtIcon, Threads
  <2> QED
    BY <2>1, <2>2, <2>3, ServedQuiet
<1>15. CASE TruncateIcon
  <2>1. UNCHANGED <<connection, active, resident, answer, status>>
    BY <1>15 DEF TruncateIcon, flags, told
  <2>2. errors' \in [Reports -> BOOLEAN] /\ errors'["connect"] = errors["connect"]
    BY <1>15, <1>0 DEF TruncateIcon, flags, Reports
  <2>3. pc'["owner"] = pc["owner"] /\ rc'["owner"] = rc["owner"]
    BY <1>15, <1>0 DEF TruncateIcon, Threads
  <2> QED
    BY <2>1, <2>2, <2>3, ServedQuiet
<1>16. CASE WriteIcon
  <2>1. UNCHANGED <<connection, active, resident, answer, status>>
    BY <1>16 DEF WriteIcon, flags, told
  <2>2. errors' \in [Reports -> BOOLEAN] /\ errors'["connect"] = errors["connect"]
    BY <1>16, <1>0 DEF WriteIcon, flags, Reports
  <2>3. pc'["owner"] = pc["owner"] /\ rc'["owner"] = rc["owner"]
    BY <1>16, <1>0 DEF WriteIcon, Threads
  <2> QED
    BY <2>1, <2>2, <2>3, ServedQuiet
<1>17. CASE SyncIcon
  <2>1. UNCHANGED <<connection, active, resident, answer, status>>
    BY <1>17 DEF SyncIcon, flags, told
  <2>2. errors' \in [Reports -> BOOLEAN] /\ errors'["connect"] = errors["connect"]
    BY <1>17, <1>0 DEF SyncIcon, flags, Reports
  <2>3. pc'["owner"] = pc["owner"] /\ rc'["owner"] = rc["owner"]
    BY <1>17, <1>0 DEF SyncIcon, Threads
  <2> QED
    BY <2>1, <2>2, <2>3, ServedQuiet
<1>18. CASE CloseIcon
  <2>1. UNCHANGED <<connection, active, resident, answer, status>>
    BY <1>18 DEF CloseIcon, flags, told
  <2>2. errors' \in [Reports -> BOOLEAN] /\ errors'["connect"] = errors["connect"]
    BY <1>18, <1>0 DEF CloseIcon, flags, Reports
  <2>3. pc'["owner"] = pc["owner"] /\ rc'["owner"] = rc["owner"]
    BY <1>18, <1>0 DEF CloseIcon, Threads
  <2> QED
    BY <2>1, <2>2, <2>3, ServedQuiet
<1>19. CASE Register
  <2>1. UNCHANGED <<connection, active, resident, answer, status>>
    BY <1>19 DEF Register, flags, told
  <2>2. errors' \in [Reports -> BOOLEAN] /\ errors'["connect"] = errors["connect"]
    BY <1>19, <1>0 DEF Register, flags, Reports
  <2>3. pc'["owner"] = pc["owner"] /\ rc'["owner"] = rc["owner"]
    BY <1>19, <1>0 DEF Register, Threads
  <2> QED
    BY <2>1, <2>2, <2>3, ServedQuiet
<1>20. CASE StoreId
  <2>1. UNCHANGED <<connection, active, resident, answer, status>>
    BY <1>20 DEF StoreId, flags, told
  <2>2. errors' \in [Reports -> BOOLEAN] /\ errors'["connect"] = errors["connect"]
    BY <1>20, <1>0 DEF StoreId, flags, Reports
  <2>3. pc'["owner"] = pc["owner"] /\ rc'["owner"] = rc["owner"]
    BY <1>20, <1>0 DEF StoreId, Threads
  <2> QED
    BY <2>1, <2>2, <2>3, ServedQuiet
<1>21. CASE PublishEnd
  <2>1. UNCHANGED <<connection, active, resident, answer, status>>
    BY <1>21 DEF PublishEnd, flags, told
  <2>2. errors' \in [Reports -> BOOLEAN] /\ errors'["connect"] = errors["connect"]
    BY <1>21, <1>0 DEF PublishEnd, flags, Reports
  <2>3. pc'["owner"] = pc["owner"] /\ rc'["owner"] = rc["owner"]
    BY <1>21, <1>0 DEF PublishEnd, Threads
  <2> QED
    BY <2>1, <2>2, <2>3, ServedQuiet
<1>22. CASE PublishResult
  <2>1. UNCHANGED <<connection, active, resident, answer, status>>
    BY <1>22 DEF PublishResult, flags, told
  <2>2. errors' \in [Reports -> BOOLEAN] /\ errors'["connect"] = errors["connect"]
    BY <1>22, <1>0 DEF PublishResult, flags, Reports
  <2>3. pc'["owner"] = pc["owner"] /\ rc'["owner"] = rc["owner"]
    BY <1>22, <1>0 DEF PublishResult, Threads
  <2> QED
    BY <2>1, <2>2, <2>3, ServedQuiet
<1>23. ASSUME NEW t \in Threads, Traces(t)
      PROVE  ServedInv'
  <2>1. UNCHANGED <<pc, rc, flags, connection, told>>
    BY <1>23 DEF Traces, Load, Claim, OpenTrace, WriteTrace
  <2> QED
    BY <2>1, <1>0, ServedQuiet DEF flags, told
<1>24. CASE Crash
  <2>1. errors' = [r \in Reports |-> r = "connect"] /\ status' = NoStatus /\ endpoint' = FALSE /\ listening' = FALSE
        /\ timer' = "none" /\ answer' = "none"
    BY <1>24 DEF Crash
  <2>2. errors'["connect"] = TRUE /\ errors' \in [Reports -> BOOLEAN] /\ status'.active = FALSE
    BY <2>1 DEF Reports, NoStatus
  <2> QED
    BY <2>1, <2>2 DEF ServedInv
<1>25. CASE UNCHANGED vars
  BY <1>25, <1>0, ServedQuiet DEF vars, flags, told
<1> QED
  BY <1>1, <1>2, <1>3, <1>4, <1>5, <1>6, <1>7, <1>8, <1>9, <1>10, <1>11, <1>12, <1>13, <1>14, <1>15, <1>16, <1>17, <1>18, <1>19, <1>20, <1>21, <1>22, <1>23, <1>24, <1>25 DEF Next, Owner, Ui

LEMMA EntryStep == CoreInv /\ EntryInv /\ [Next]_vars => EntryInv'
<1> SUFFICES ASSUME CoreInv, EntryInv, [Next]_vars
             PROVE  EntryInv'
  OBVIOUS
<1>0. pc \in [Threads -> OwnerSteps \cup UiSteps] /\ rc \in [Threads -> BOOLEAN]
  BY DEF CoreInv
<1> USE DEF At, Goto, Result
<1>1. CASE Prepare
  <2>1. UNCHANGED <<app, icon>> /\ status' = status
    BY <1>1 DEF Prepare, told
  <2>2. pc'["ui"] = pc["ui"] /\ rc'["ui"] = rc["ui"]
    BY <1>1, <1>0 DEF Prepare, Threads
  <2> QED
    BY <2>1, <2>2, EntryQuiet
<1>2. CASE Activate
  <2>1. UNCHANGED <<app, icon>> /\ status' = status
    BY <1>2 DEF Activate, told
  <2>2. pc'["ui"] = pc["ui"] /\ rc'["ui"] = rc["ui"]
    BY <1>2, <1>0 DEF Activate, Threads
  <2> QED
    BY <2>1, <2>2, EntryQuiet
<1>3. CASE RuntimePrepare
  <2>1. UNCHANGED <<app, icon>> /\ status' = status
    BY <1>3 DEF RuntimePrepare, told
  <2>2. pc'["ui"] = pc["ui"] /\ rc'["ui"] = rc["ui"]
    BY <1>3, <1>0 DEF RuntimePrepare, Threads
  <2> QED
    BY <2>1, <2>2, EntryQuiet
<1>4. CASE Guard
  <2>1. UNCHANGED <<app, icon>> /\ status' = status
    BY <1>4 DEF Guard, told
  <2>2. pc'["ui"] = pc["ui"] /\ rc'["ui"] = rc["ui"]
    BY <1>4, <1>0 DEF Guard, Threads
  <2> QED
    BY <2>1, <2>2, EntryQuiet
<1>5. CASE Boot
  <2>1. UNCHANGED <<app, icon>> /\ status' = status
    BY <1>5 DEF Boot, told
  <2>2. pc'["ui"] = pc["ui"] /\ rc'["ui"] = rc["ui"]
    BY <1>5, <1>0 DEF Boot, Threads
  <2> QED
    BY <2>1, <2>2, EntryQuiet
<1>6. CASE ConnectStart
  <2>1. UNCHANGED <<app, icon>> /\ status' = status
    BY <1>6 DEF ConnectStart, told
  <2>2. pc'["ui"] = pc["ui"] /\ rc'["ui"] = rc["ui"]
    BY <1>6, <1>0 DEF ConnectStart, Threads
  <2> QED
    BY <2>1, <2>2, EntryQuiet
<1>7. CASE ActivateEnd
  <2>1. UNCHANGED <<app, icon>> /\ status' = status
    BY <1>7 DEF ActivateEnd, told
  <2>2. pc'["ui"] = pc["ui"] /\ rc'["ui"] = rc["ui"]
    BY <1>7, <1>0 DEF ActivateEnd, Threads
  <2> QED
    BY <2>1, <2>2, EntryQuiet
<1>8. CASE ActivateResult
  <2>1. UNCHANGED <<app, icon>> /\ status' = status
    BY <1>8 DEF ActivateResult, told
  <2>2. pc'["ui"] = pc["ui"] /\ rc'["ui"] = rc["ui"]
    BY <1>8, <1>0 DEF ActivateResult, Threads
  <2> QED
    BY <2>1, <2>2, EntryQuiet
<1>9. CASE Deactivate
  <2>1. UNCHANGED <<app, icon>> /\ status' = status
    BY <1>9 DEF Deactivate, told
  <2>2. pc'["ui"] = pc["ui"] /\ rc'["ui"] = rc["ui"]
    BY <1>9, <1>0 DEF Deactivate, Threads
  <2> QED
    BY <2>1, <2>2, EntryQuiet
<1>10. CASE Query
  BY <1>10, <1>0 DEF Query, EntryInv, app, Threads
<1>11. CASE Page
  BY <1>11, <1>0 DEF Page, EntryInv, app, told, Threads
<1>12. CASE Publish
  BY <1>12, <1>0 DEF Publish, EntryInv, app, told, Threads
<1>13. CASE Describe
  BY <1>13, <1>0 DEF Describe, EntryInv, app, told, Threads
<1>14. CASE LookAtIcon
  <2>1. pc["ui"] = "icon" /\ UNCHANGED <<app, icon>> /\ status' = status
    BY <1>14 DEF LookAtIcon, told
  <2>2. descriptors /\ (~app_id => ~entry)
    BY <2>1 DEF EntryInv
  <2>3. \/ pc'["ui"] = "publish.end"
        \/ ~app_id /\ pc'["ui"] = "truncate"
        \/ ~app_id /\ pc'["ui"] = "register" /\ icon.bytes = Icon
    BY <1>14, <1>0 DEF LookAtIcon, Identical, Threads
  <2> QED
    BY <2>1, <2>2, <2>3 DEF EntryInv, app
<1>15. CASE TruncateIcon
  BY <1>15, <1>0 DEF TruncateIcon, EntryInv, app, told, Threads
<1>16. CASE WriteIcon
  <2>1. pc["ui"] = "write" /\ UNCHANGED app /\ status' = status
    BY <1>16 DEF WriteIcon, told
  <2>2. descriptors /\ ~entry
    BY <2>1 DEF EntryInv
  <2>3. CASE pc'["ui"] = "close" /\ rc'["ui"] = FALSE /\ icon' = icon
    BY <2>1, <2>2, <2>3 DEF EntryInv, app
  <2>4. ASSUME NEW n \in Len(icon.bytes) + 1 .. Len(Icon), icon' = [bytes |-> SubSeq(Icon, 1, n), synced |-> FALSE],
               pc'["ui"] = IF n = Len(Icon) THEN "sync" ELSE "write"
        PROVE  EntryInv'
    <3>1. icon'.bytes = SubSeq(Icon, 1, n)
      BY <2>4
    <3>2. SubSeq(Icon, 1, Len(Icon)) = Icon
      BY IconAssumption, SubSeqProperties
    <3>3. pc'["ui"] = "sync" => icon'.bytes = Icon
      BY <2>4, <3>1, <3>2
    <3> QED
      BY <2>1, <2>2, <2>4, <3>3 DEF EntryInv, app
  <2> QED
    BY <1>16, <1>0, <2>3, <2>4 DEF WriteIcon, Threads
<1>17. CASE SyncIcon
  BY <1>17, <1>0 DEF SyncIcon, EntryInv, app, told, Threads
<1>18. CASE CloseIcon
  BY <1>18, <1>0 DEF CloseIcon, EntryInv, app, told, Threads
<1>19. CASE Register
  <2>1. pc["ui"] = "register" /\ UNCHANGED <<descriptors, app_id, icon, status>>
    BY <1>19 DEF Register, told
  <2>2. descriptors /\ ~entry /\ ~app_id /\ icon.bytes = Icon
    BY <2>1 DEF EntryInv
  <2>3. \/ pc'["ui"] = "registered" /\ entry' = TRUE /\ app_state' = app_state
        \/ pc'["ui"] = "publish.end" /\ entry' = entry /\ app_state' = "FAILED"
    BY <1>19, <1>0 DEF Register, NotRegistered, Threads
  <2> QED
    BY <2>1, <2>2, <2>3 DEF EntryInv
<1>20. CASE StoreId
  BY <1>20, <1>0 DEF StoreId, EntryInv, app, told, Threads
<1>21. CASE PublishEnd
  BY <1>21, <1>0 DEF PublishEnd, EntryInv, app, told, Threads
<1>22. CASE PublishResult
  BY <1>22, <1>0 DEF PublishResult, EntryInv, app, told, Threads
<1>23. ASSUME NEW t \in Threads, Traces(t)
      PROVE  EntryInv'
  <2>1. UNCHANGED <<pc, rc, app, icon, told>>
    BY <1>23 DEF Traces, Load, Claim, OpenTrace, WriteTrace
  <2> QED
    BY <2>1, EntryQuiet DEF told
<1>24. CASE Crash
  <2>1. pc' = [t \in Threads |-> IF t = "owner" THEN "unloaded" ELSE "idle"] /\ status' = NoStatus
        /\ descriptors' = FALSE /\ app_id' = FALSE /\ entry' = FALSE /\ app_state' = "NONE"
    BY <1>24 DEF Crash
  <2>2. pc'["ui"] = "idle" /\ status'.app_state = "NONE"
    BY <2>1 DEF Threads, NoStatus
  <2> QED
    BY <2>1, <2>2 DEF EntryInv
<1>25. CASE UNCHANGED vars
  BY <1>25, EntryQuiet DEF vars, told
<1> QED
  BY <1>1, <1>2, <1>3, <1>4, <1>5, <1>6, <1>7, <1>8, <1>9, <1>10, <1>11, <1>12, <1>13, <1>14, <1>15, <1>16, <1>17, <1>18, <1>19, <1>20, <1>21, <1>22, <1>23, <1>24, <1>25 DEF Next, Owner, Ui

---------------------------------------------------------------------------
(* What the Supervisor may rely on                                         *)

LifecycleInv == CoreInv /\ ServedInv /\ EntryInv

LEMMA LifecycleHolds == Spec => []LifecycleInv
<1>1. Init => LifecycleInv
  BY CoreStart, ServedStart, EntryStart DEF LifecycleInv
<1>2. LifecycleInv /\ [Next]_vars => LifecycleInv'
  BY CoreStep, ServedStep, EntryStep DEF LifecycleInv
<1> QED
  BY <1>1, <1>2, PTL DEF Spec

\* A module that may be removed has left nothing that would call it
\* (module.rs:125).
THEOREM StopIsSafe == Spec => []StopsOnlyWhatIsGone
<1>1. LifecycleInv => StopsOnlyWhatIsGone
  BY DEF LifecycleInv, CoreInv, ServedInv, StopsOnlyWhatIsGone, Threads
<1> QED
  BY <1>1, LifecycleHolds, PTL

\* Imports are served, or the data page says that they are not; no failed
\* start leaves a timer behind (connect.rs:23).
THEOREM ImportIsServed == Spec => []ImportServed
<1>1. LifecycleInv => ImportServed
  BY DEF LifecycleInv, ServedInv, ImportServed
<1> QED
  BY <1>1, LifecycleHolds, PTL

\* The launcher never shows an entry whose icon, pages or core are not whole
\* (native_app.rs:44, storage.rs:58).
THEOREM EntryIsWhole == Spec => []EntryIsComplete
<1>1. LifecycleInv => EntryIsComplete
  BY DEF LifecycleInv, CoreInv, EntryInv, EntryIsComplete
<1> QED
  BY <1>1, LifecycleHolds, PTL

\* The status the manager reads is true (module.rs:139).
THEOREM StatusIsTrue == Spec => []StatusTrue
<1>1. LifecycleInv => StatusTrue
  BY DEF LifecycleInv, CoreInv, ServedInv, EntryInv, StatusTrue
<1> QED
  BY <1>1, LifecycleHolds, PTL

---------------------------------------------------------------------------
(* The types that no invariant above needs                                 *)

FixedInv ==
    /\ services \subseteq {"required", "connect"} /\ identity \in BOOLEAN
    /\ icon.bytes \in Seq(Nat) /\ icon.synced \in BOOLEAN
    /\ app_state \in {"NONE", "REGISTERED", "FAILED"}

LEMMA FixedStart == Init => FixedInv
<1> SUFFICES ASSUME Init PROVE FixedInv
  OBVIOUS
<1>1. PICK b \in OldIcons : icon = [bytes |-> b, synced |-> TRUE]
  BY DEF Init
<1>2. icon.bytes \in Seq(Nat) /\ icon.synced \in BOOLEAN
  BY <1>1, IconAssumption
<1>3. services \subseteq {"required", "connect"} /\ identity \in BOOLEAN /\ app_state = "NONE"
  BY DEF Init
<1> QED
  BY <1>2, <1>3 DEF FixedInv

LEMMA FixedStep == FixedInv /\ [Next]_vars => FixedInv'
<1> SUFFICES ASSUME FixedInv, [Next]_vars
             PROVE  FixedInv'
  OBVIOUS
<1>1. CASE UNCHANGED <<firmware, icon, app_state>>
  BY <1>1 DEF FixedInv, firmware
<1>2. Owner \/ (\E t \in Threads : Traces(t)) \/ UNCHANGED vars => UNCHANGED <<firmware, icon, app_state>>
  <2>1. Owner => UNCHANGED <<firmware, icon, app_state>>
    <3>1. Prepare \/ Activate \/ RuntimePrepare \/ Guard \/ Boot => UNCHANGED <<firmware, icon, app_state>>
      BY DEF Prepare, Activate, RuntimePrepare, Guard, Boot, app
    <3>2. ConnectStart \/ ActivateEnd \/ ActivateResult \/ Deactivate \/ Query
             => UNCHANGED <<firmware, icon, app_state>>
      BY DEF ConnectStart, ActivateEnd, ActivateResult, Deactivate, Query, app
    <3> QED
      BY <3>1, <3>2 DEF Owner
  <2>2. ASSUME NEW t \in Threads
        PROVE  Traces(t) => UNCHANGED <<firmware, icon, app_state>>
    BY DEF Traces, Load, Claim, OpenTrace, WriteTrace, app
  <2> QED
    BY <2>1, <2>2 DEF vars, app
<1>3. Page \/ Publish \/ Describe \/ PublishEnd \/ PublishResult => UNCHANGED <<firmware, icon, app_state>>
  BY DEF Page, Publish, Describe, PublishEnd, PublishResult, app
<1>4. CASE LookAtIcon \/ Register \/ StoreId
  <2>1. UNCHANGED <<firmware, icon>> /\ app_state' \in {app_state, "REGISTERED", "FAILED"}
    BY <1>4 DEF LookAtIcon, Register, StoreId, NotRegistered, app
  <2> QED
    BY <2>1 DEF FixedInv, firmware
<1>5. ASSUME UNCHANGED <<firmware, app_state>>, icon'.bytes \in Seq(Nat), icon'.synced \in BOOLEAN
      PROVE  FixedInv'
  BY <1>5 DEF FixedInv, firmware
<1>6. CASE TruncateIcon \/ SyncIcon \/ CloseIcon
  <2>1. /\ UNCHANGED <<firmware, app_state>>
        /\ \/ icon' = icon
           \/ icon' = [bytes |-> <<>>, synced |-> FALSE]
           \/ icon' = [bytes |-> icon.bytes, synced |-> TRUE]
    BY <1>6 DEF TruncateIcon, SyncIcon, CloseIcon, app
  <2>2. icon'.bytes \in Seq(Nat) /\ icon'.synced \in BOOLEAN
    <3>1. CASE icon' = icon
      BY <3>1 DEF FixedInv
    <3>2. CASE icon' = [bytes |-> <<>>, synced |-> FALSE]
      BY <3>2
    <3>3. CASE icon' = [bytes |-> icon.bytes, synced |-> TRUE]
      BY <3>3 DEF FixedInv
    <3> QED
      BY <2>1, <3>1, <3>2, <3>3
  <2> QED
    BY <2>1, <2>2, <1>5
<1>7. CASE WriteIcon
  <2>1. /\ UNCHANGED <<firmware, app_state>>
        /\ \/ icon' = icon
           \/ \E n \in Len(icon.bytes) + 1 .. Len(Icon) : icon' = [bytes |-> SubSeq(Icon, 1, n), synced |-> FALSE]
    BY <1>7 DEF WriteIcon, app
  <2>2. ASSUME NEW n \in Len(icon.bytes) + 1 .. Len(Icon)
        PROVE  SubSeq(Icon, 1, n) \in Seq(Nat)
    BY IconAssumption DEF FixedInv
  <2>3. icon'.bytes \in Seq(Nat) /\ icon'.synced \in BOOLEAN
    <3>1. CASE icon' = icon
      BY <3>1 DEF FixedInv
    <3>2. ASSUME NEW n \in Len(icon.bytes) + 1 .. Len(Icon), icon' = [bytes |-> SubSeq(Icon, 1, n), synced |-> FALSE]
          PROVE  icon'.bytes \in Seq(Nat) /\ icon'.synced \in BOOLEAN
      BY <2>2, <3>2
    <3> QED
      BY <2>1, <3>1, <3>2
  <2> QED
    BY <2>1, <2>3, <1>5
<1>8. CASE Crash
  <2>1. /\ UNCHANGED firmware /\ app_state' = "NONE"
        /\ \E n \in 0 .. Len(icon.bytes) : icon' = [bytes |-> SubSeq(icon.bytes, 1, n), synced |-> TRUE]
    <3>1. Len(icon.bytes) \in 0 .. Len(icon.bytes)
      BY DEF FixedInv
    <3> QED
      BY <1>8, <3>1 DEF Crash
  <2>2. ASSUME NEW n \in 0 .. Len(icon.bytes)
        PROVE  SubSeq(icon.bytes, 1, n) \in Seq(Nat)
    BY DEF FixedInv
  <2> QED
    BY <2>1, <2>2 DEF FixedInv, firmware
<1> QED
  BY <1>1, <1>2, <1>3, <1>4, <1>5, <1>6, <1>7, <1>8 DEF Next, Ui

\* The state stays well typed (module.rs, runtime.rs, native_app.rs, diagnostics.rs).
THEOREM LifecycleTypes == Spec => []LifecycleTypeOK
<1>1. Spec => [](TraceInv /\ FixedInv)
  BY TraceStart, TraceStep, FixedStart, FixedStep, PTL DEF Spec
<1>2. TraceInv /\ FixedInv /\ LifecycleInv => LifecycleTypeOK
  <2> SUFFICES ASSUME TraceInv, FixedInv, LifecycleInv
               PROVE  LifecycleTypeOK
    OBVIOUS
  <2>1. sequence \in 0..MaxRecords /\ claimed \in Nat /\ log \in Nat
        /\ seen \in [Threads -> 0..MaxRecords] /\ left \in [Threads -> 0..Line]
    BY DEF TraceInv
  <2>2. /\ pc \in [Threads -> OwnerSteps \cup UiSteps] /\ rc \in [Threads -> BOOLEAN]
        /\ core \in {"none", "made"} /\ ready \in BOOLEAN /\ lock \in BOOLEAN /\ inside \subseteq Threads
        /\ active \in BOOLEAN /\ resident \in BOOLEAN /\ entry \in BOOLEAN
    <3>1. CoreInv
      BY DEF LifecycleInv
    <3>2. pc \in [Threads -> OwnerSteps \cup UiSteps] /\ rc \in [Threads -> BOOLEAN] /\ core \in {"none", "made"}
      BY <3>1, Zenon DEF CoreInv
    <3>3. ready \in BOOLEAN /\ lock \in BOOLEAN /\ inside \subseteq Threads
      BY <3>1, Zenon DEF CoreInv
    <3>4. active \in BOOLEAN /\ resident \in BOOLEAN
      BY <3>1, Zenon DEF CoreInv
    <3>5. entry \in BOOLEAN
      BY <3>1 DEF CoreInv
    <3> QED
      BY <3>2, <3>3, <3>4, <3>5, Zenon
  <2>3. /\ errors \in [Reports -> BOOLEAN]
        /\ endpoint \in BOOLEAN /\ listening \in BOOLEAN /\ timer \in {"none", "running"}
        /\ answer \in {"none", "stopped", "REBOOT_REQUIRED"}
    BY DEF LifecycleInv, ServedInv
  <2>4. descriptors \in BOOLEAN /\ app_id \in BOOLEAN
    BY DEF LifecycleInv, EntryInv
  <2> QED
    BY <2>1, <2>2, <2>3, <2>4, Zenon DEF FixedInv, LifecycleTypeOK
<1> QED
  BY <1>1, <1>2, LifecycleHolds, PTL

=============================================================================
