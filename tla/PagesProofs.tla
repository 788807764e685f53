---------------------------- MODULE PagesProofs ----------------------------
(* The wristband's pages: whatever the user, the clock, the file and the   *)
(* firmware do, app, pages and stack stay of one mind.                      *)
EXTENDS Pages, FiniteSetTheorems, TLAPS

-----------------------------------------------------------------------------
(* The inductive invariant                                                 *)

Single(Z) == \A x, y \in Z : x = y

\* A route is opened from one of lower rank only, so none is open twice.
Rank == [r \in Routes |-> CASE r = "Home" -> 1 [] r = "Week" -> 2
                            [] r = "Today" -> 3 [] r = "Detail" -> 4
                            [] r = "Data" -> 5]

\* The routes one comes by: from Home on, each opened from the one before it.
IsPath(q) ==
    /\ q \in Seq(Routes) /\ q # <<>> /\ q[1] = "Home"
    /\ \A i, j \in DOMAIN q : i < j => Rank[q[i]] < Rank[q[j]]

Trail(a) == Append(a.history, a.route)

\* The day is known once the clock is.
AppOK(a) ==
    /\ a \in [route : Routes, history : Seq(Routes), schedule : Files,
              clock : Days \cup {0}, day : Days \cup {0},
              course : {a.course}, status : {a.status}]
    /\ a.clock # 0 => a.day # 0

PageOK(q) ==
    /\ q \in [active : BOOLEAN, interactive : BOOLEAN, timer : BOOLEAN,
              fresh : BOOLEAN, view : {q.view}, title : {q.title},
              pressed : {q.pressed}]
    /\ Single(q.view) /\ Single(q.pressed)
    /\ ~q.active => /\ ~q.interactive /\ ~q.timer /\ ~q.fresh
                    /\ q.view = {} /\ q.title = 0 /\ q.pressed = {}

\* Page p, in state q, shows what it should of the app a.
Drawn(a, p, q) ==
    /\ q.fresh /\ a.route = p => q.view = {Present(a)}
    /\ q.title # 0 => p = "Today" /\ q.title = a.day

Ops == Routes \cup {"none", "pop"}

StateOK(s) ==
    /\ s \in [app : {s.app}, pages : {s.pages}, disk : Files,
              dirty : BOOLEAN, op : Ops]
    /\ AppOK(s.app)
    /\ s.pages = [p \in Routes |-> s.pages[p]]
    /\ \A p \in Routes : PageOK(s.pages[p]) /\ Drawn(s.app, p, s.pages[p])

\* The app is where the firmware's stack is, or will be once it did op.
TrailAgrees(a, o, q) ==
    /\ IsPath(Trail(a)) /\ (q # <<>> => IsPath(q))
    /\ o = "none" /\ q # <<>> => Trail(a) = q
    /\ o \in Routes => q # <<>> /\ Trail(a) = Append(q, o)
    /\ o = "pop" => Len(q) >= 2 /\ Trail(a) = Below(q)

\* The firmware created the pages of its stack and no others.
ActiveOnStack == \A p \in Routes : pages[p].active <=> p \in InSeq(stack)

\* The finger is where the page saw it come down.
FingerSeen == \A p \in Routes : \A x \in pages[p].pressed : finger = {x.card}

PagesInv ==
    /\ StateOK(S)
    /\ awake \in BOOLEAN /\ stack \in Seq(Routes)
    /\ TrailAgrees(app, op, stack)
    /\ ActiveOnStack
    /\ OnlyTopRuns
    /\ ~awake => Idle
    /\ FingerSeen
    /\ ClickIsPressed
-----------------------------------------------------------------------------
(* Paths                                                                   *)

LEMMA RankOK ==
    /\ Rank["Home"] = 1 /\ Rank["Week"] = 2 /\ Rank["Today"] = 3
    /\ Rank["Detail"] = 4 /\ Rank["Data"] = 5
    /\ \A r \in Routes : Rank[r] \in 1..5 /\ (Rank[r] = 1 => r = "Home")
  BY DEF Rank, Routes

LEMMA SeqFacts ==
    ASSUME NEW q \in Seq(Routes)
    PROVE  /\ Len(q) \in Nat /\ DOMAIN q = 1..Len(q)
           /\ q # <<>> => /\ Len(q) >= 1 /\ Top(q) \in Routes
                          /\ Below(q) \in Seq(Routes)
                          /\ Len(Below(q)) = Len(q) - 1
                          /\ \A i \in 1..(Len(q) - 1) : Below(q)[i] = q[i]
                          /\ q = Append(Below(q), Top(q))
           /\ \A r \in Routes : /\ Append(q, r) \in Seq(Routes)
                                /\ Len(Append(q, r)) = Len(q) + 1
                                /\ Top(Append(q, r)) = r
                                /\ Below(Append(q, r)) = q
                                /\ \A i \in 1..Len(q) : Append(q, r)[i] = q[i]
  <1>1. Len(q) \in Nat /\ DOMAIN q = 1..Len(q)
    OBVIOUS
  <1>2. ASSUME q # <<>>
        PROVE  /\ Len(q) >= 1 /\ Top(q) \in Routes
               /\ Below(q) \in Seq(Routes)
               /\ Len(Below(q)) = Len(q) - 1
               /\ \A i \in 1..(Len(q) - 1) : Below(q)[i] = q[i]
    <2> DEFINE n == Len(q) - 1
    <2>1. n \in 0..Len(q) /\ Len(q) \in 1..Len(q)
      BY <1>1, <1>2
    <2>2. q[Len(q)] \in Routes /\ Len(q) >= 1
      BY <2>1
    <2> HIDE DEF n
    <2>3. /\ SubSeq(q, 1, n) \in Seq(Routes) /\ Len(SubSeq(q, 1, n)) = n
          /\ \A i \in 1..n : SubSeq(q, 1, n)[i] = q[i]
      BY <1>1, <2>1
    <2> QED BY <2>2, <2>3 DEF Top, Below, n
  <1>3. ASSUME q # <<>>
        PROVE  q = Append(Below(q), Top(q))
    <2> DEFINE b == Below(q)
               r == Top(q)
               c == Append(b, r)
    <2>1. b \in Seq(Routes) /\ Len(b) = Len(q) - 1 /\ r \in Routes /\ r = q[Len(q)]
      BY <1>2, <1>3 DEF Top
    <2>2. \A i \in 1..(Len(q) - 1) : b[i] = q[i]
      BY <1>2, <1>3
    <2> HIDE DEF b, r
    <2>3. c \in Seq(Routes) /\ Len(c) = Len(q)
      <3>1. c \in Seq(Routes) /\ Len(c) = Len(b) + 1
        BY <2>1
      <3> HIDE DEF c
      <3> QED BY <1>1, <2>1, <3>1
    <2>4. \A i \in 1..Len(q) : c[i] = q[i]
      BY <1>1, <2>1, <2>2
    <2> HIDE DEF c
    <2>5. c = q
      BY <2>3, <2>4
    <2> QED BY <2>5 DEF c, b, r
  <1>4. ASSUME NEW r \in Routes
        PROVE  /\ Append(q, r) \in Seq(Routes)
               /\ Len(Append(q, r)) = Len(q) + 1
               /\ Top(Append(q, r)) = r
               /\ \A i \in 1..Len(q) : Append(q, r)[i] = q[i]
    BY DEF Top
  <1>5. ASSUME NEW r \in Routes
        PROVE  Below(Append(q, r)) = q
    <2> DEFINE a == Append(q, r)
               b == SubSeq(a, 1, Len(q))
    <2>1. a \in Seq(Routes) /\ Len(a) = Len(q) + 1 /\ \A i \in 1..Len(q) : a[i] = q[i]
      BY <1>4
    <2> HIDE DEF a
    <2>2. b \in Seq(Routes) /\ Len(b) = Len(q) /\ \A i \in 1..Len(q) : b[i] = a[i]
      BY <1>1, <2>1
    <2> HIDE DEF b
    <2>3. b = q
      BY <2>1, <2>2
    <2>4. Len(a) - 1 = Len(q)
      BY <1>1, <2>1
    <2> QED BY <2>3, <2>4 DEF Below, a, b
  <1> QED BY <1>1, <1>2, <1>3, <1>4, <1>5

LEMMA InSeqFacts ==
    ASSUME NEW q \in Seq(Routes)
    PROVE  /\ InSeq(q) \subseteq Routes
           /\ \A r : r \in InSeq(q) <=> \E k \in 1..Len(q) : q[k] = r
           /\ \A r \in Routes : InSeq(Append(q, r)) = InSeq(q) \cup {r}
           /\ q # <<>> => Top(q) \in InSeq(q)
  <1>1. \A r : r \in InSeq(q) <=> \E k \in 1..Len(q) : q[k] = r
    BY DEF InSeq
  <1>2. InSeq(q) \subseteq Routes
    BY <1>1
  <1>3. ASSUME NEW r \in Routes
        PROVE  InSeq(Append(q, r)) = InSeq(q) \cup {r}
    <2> DEFINE a == Append(q, r)
    <2>1. /\ a \in Seq(Routes) /\ Len(a) = Len(q) + 1 /\ Len(q) \in Nat
          /\ a[Len(q) + 1] = r /\ \A i \in 1..Len(q) : a[i] = q[i]
      OBVIOUS
    <2> HIDE DEF a
    <2>2. \A x : x \in InSeq(a) <=> \E k \in 1..Len(a) : a[k] = x
      BY <2>1 DEF InSeq
    <2>3. \A x : x \in InSeq(a) <=> x \in InSeq(q) \/ x = r
      BY <1>1, <2>1, <2>2
    <2> QED BY <2>3 DEF a
  <1>4. q # <<>> => Top(q) \in InSeq(q)
    BY <1>1 DEF Top
  <1> QED BY <1>1, <1>2, <1>3, <1>4

LEMMA PathExtends ==
    ASSUME NEW q, IsPath(q), NEW r \in Routes, Rank[Top(q)] < Rank[r]
    PROVE  IsPath(Append(q, r)) /\ r \notin InSeq(q)
  <1> DEFINE a == Append(q, r)
  <1>1. /\ q \in Seq(Routes) /\ q # <<>> /\ Len(q) \in Nat /\ Len(q) >= 1
        /\ DOMAIN q = 1..Len(q) /\ q[1] = "Home"
        /\ \A i \in 1..Len(q) : q[i] \in Routes
    BY SeqFacts DEF IsPath
  <1>2. /\ a \in Seq(Routes) /\ Len(a) = Len(q) + 1 /\ DOMAIN a = 1..Len(a)
        /\ a[Len(q) + 1] = r /\ \A i \in 1..Len(q) : a[i] = q[i]
    BY <1>1
  <1> HIDE DEF a
  <1>3. \A i \in 1..Len(q) : Rank[q[i]] < Rank[r]
    <2> SUFFICES ASSUME NEW i \in 1..Len(q) PROVE Rank[q[i]] < Rank[r]
      OBVIOUS
    <2>0. i \in DOMAIN q /\ Len(q) \in DOMAIN q /\ (i = Len(q) \/ i < Len(q))
      <3> DEFINE n == Len(q)
      <3>1. n \in Nat /\ n >= 1 /\ DOMAIN q = 1..n
        BY <1>1
      <3>2. i \in 1..n
        OBVIOUS
      <3> HIDE DEF n
      <3>3. n \in 1..n /\ (i = n \/ i < n)
        BY <3>1, <3>2
      <3> QED BY <3>1, <3>2, <3>3 DEF n
    <2>1. i = Len(q) \/ Rank[q[i]] < Rank[q[Len(q)]]
      <3>1. \A k, j \in DOMAIN q : k < j => Rank[q[k]] < Rank[q[j]]
        BY DEF IsPath
      <3> QED BY <2>0, <3>1
    <2>2. Rank[q[i]] \in Int /\ Rank[r] \in Int /\ Rank[q[Len(q)]] \in Int
      BY <1>1, RankOK
    <2> QED BY <2>1, <2>2 DEF Top
  <1>4. \A i, j \in 1..Len(a) : i < j => Rank[a[i]] < Rank[a[j]]
    <2> SUFFICES ASSUME NEW i \in 1..Len(a), NEW j \in 1..Len(a), i < j
                 PROVE  Rank[a[i]] < Rank[a[j]]
      OBVIOUS
    <2>1. CASE j = Len(q) + 1
      BY <1>1, <1>2, <1>3, <2>1
    <2>2. CASE j # Len(q) + 1
      BY <1>1, <1>2, <2>2 DEF IsPath
    <2> QED BY <2>1, <2>2
  <1>5. IsPath(a)
    BY <1>1, <1>2, <1>4 DEF IsPath
  <1>6. r \notin InSeq(q)
    <2>1. Rank[r] \in Int
      BY RankOK
    <2> QED BY <1>1, <1>3, <2>1, InSeqFacts
  <1> QED BY <1>5, <1>6 DEF a

\* A path without its end is a path, and its end is nowhere else on it.
LEMMA PathShrinks ==
    ASSUME NEW q, IsPath(q)
    PROVE  /\ Len(q) >= 2 => IsPath(Below(q)) /\ Top(Below(q)) = q[Len(q) - 1]
           /\ InSeq(Below(q)) = InSeq(q) \ {Top(q)}
           /\ Top(q) = "Home" => Len(q) = 1
           /\ \A i, j \in 1..Len(q) : q[i] = q[j] => i = j
  <1> DEFINE b == Below(q)
  <1>1. /\ q \in Seq(Routes) /\ q # <<>> /\ Len(q) \in Nat /\ Len(q) >= 1
        /\ DOMAIN q = 1..Len(q) /\ q[1] = "Home"
        /\ \A i \in 1..Len(q) : q[i] \in Routes /\ Rank[q[i]] \in 1..5
    BY SeqFacts, RankOK DEF IsPath
  <1>2. /\ b \in Seq(Routes) /\ Len(b) = Len(q) - 1 /\ DOMAIN b = 1..Len(b)
        /\ \A i \in 1..(Len(q) - 1) : b[i] = q[i]
    BY <1>1, SeqFacts
  <1> HIDE DEF b
  <1>3. \A i, j \in 1..Len(q) : i < j => Rank[q[i]] < Rank[q[j]]
    BY <1>1 DEF IsPath
  <1>4. \A i, j \in 1..Len(q) : q[i] = q[j] => i = j
    <2> SUFFICES ASSUME NEW i \in 1..Len(q), NEW j \in 1..Len(q), q[i] = q[j], i # j
                 PROVE  FALSE
      OBVIOUS
    <2>1. i < j \/ j < i
      OBVIOUS
    <2>2. Rank[q[i]] \in Int
      BY <1>1
    <2> QED BY <1>3, <2>1, <2>2
  <1>5. Len(q) >= 2 => IsPath(b) /\ Top(b) = q[Len(q) - 1]
    <2> SUFFICES ASSUME Len(q) >= 2 PROVE IsPath(b) /\ Top(b) = q[Len(q) - 1]
      OBVIOUS
    <2>1. b # <<>> /\ b[1] = "Home"
      BY <1>1, <1>2
    <2>2. \A i, j \in 1..Len(b) : i < j => Rank[b[i]] < Rank[b[j]]
      BY <1>1, <1>2, <1>3
    <2> QED BY <1>1, <1>2, <2>1, <2>2 DEF IsPath, Top
  <1>6. InSeq(b) = InSeq(q) \ {Top(q)}
    <2>0. \A r : r \in InSeq(b) <=> \E k \in 1..Len(b) : b[k] = r
      BY <1>2, InSeqFacts
    <2>1. \A r : r \in InSeq(b) <=> \E k \in 1..(Len(q) - 1) : q[k] = r
      BY <1>1, <1>2, <2>0
    <2>2. \A r : r \in InSeq(q) <=> \E k \in 1..Len(q) : q[k] = r
      BY <1>1, InSeqFacts
    <2>3. ASSUME NEW r \in InSeq(b) PROVE r \in InSeq(q) /\ r # q[Len(q)]
      <3>1. PICK k \in 1..(Len(q) - 1) : q[k] = r
        BY <2>1
      <3>2. k \in 1..Len(q) /\ Len(q) \in 1..Len(q) /\ k # Len(q)
        <4>1. Len(q) \in Nat /\ Len(q) >= 1 /\ k \in 1..(Len(q) - 1)
          BY <1>1
        <4> QED BY <4>1
      <3> QED BY <1>4, <2>2, <3>1, <3>2
    <2>4. ASSUME NEW r \in InSeq(q), r # q[Len(q)] PROVE r \in InSeq(b)
      BY <1>1, <2>1, <2>2, <2>4
    <2> QED BY <2>3, <2>4 DEF Top
  <1>7. Top(q) = "Home" => Len(q) = 1
    <2>1. Top(q) = "Home" => q[1] = q[Len(q)]
      BY <1>1 DEF Top
    <2>2. 1 \in 1..Len(q) /\ Len(q) \in 1..Len(q)
      BY <1>1
    <2> QED BY <1>4, <2>1, <2>2
  <1> QED BY <1>4, <1>5, <1>6, <1>7 DEF b

-----------------------------------------------------------------------------
(* What the functions of a callback leave behind                           *)

\* The page's part in StackAgrees and its like is the same in q and r.
SameFace(q, r) ==
    /\ q.active = r.active /\ q.interactive = r.interactive
    /\ q.timer = r.timer /\ q.pressed = r.pressed

\* While there is a day page, the day it shows is the app's.
DayKept(s, t) == s.pages["Today"].active /\ s.app.day # 0 => t.app.day = s.app.day

\* Only the page Today depends on the day, and Home is never above it.
Steady(s) == s.app.route = "Home" => ~s.pages["Today"].active

\* t is s with the app kept up to date and pages drawn.
KeptUp(s, t) ==
    /\ StateOK(t) /\ t.op = s.op /\ DayKept(s, t)
    /\ t.app.route = s.app.route /\ t.app.history = s.app.history
    /\ \A p \in Routes : SameFace(s.pages[p], t.pages[p])

LEMMA NoPageOK == PageOK(NoPage) /\ \A a, p : Drawn(a, p, NoPage)
  <1>1. /\ NoPage.active = FALSE /\ NoPage.interactive = FALSE
        /\ NoPage.timer = FALSE /\ NoPage.fresh = FALSE /\ NoPage.view = {}
        /\ NoPage.title = 0 /\ NoPage.pressed = {}
        /\ NoPage \in [active : BOOLEAN, interactive : BOOLEAN, timer : BOOLEAN,
                       fresh : BOOLEAN, view : {{}}, title : {0}, pressed : {{}}]
    BY DEF NoPage
  <1> QED BY <1>1 DEF PageOK, Single, Drawn

\* A title belongs to a page that is there.
LEMMA TitleActive ==
    ASSUME NEW s, StateOK(s), NEW p \in Routes, s.pages[p].title # 0
    PROVE  p = "Today" /\ s.pages["Today"].active /\ s.app.day # 0
  BY DEF StateOK, PageOK, Drawn

LEMMA PutPage ==
    ASSUME NEW s, StateOK(s), NEW p \in Routes, NEW q, PageOK(q), Drawn(s.app, p, q)
    PROVE  LET t == [s EXCEPT !.pages[p] = q]
           IN  /\ StateOK(t) /\ t.app = s.app /\ t.op = s.op /\ t.pages[p] = q
               /\ t.disk = s.disk /\ t.dirty = s.dirty
               /\ \A r \in Routes \ {p} : t.pages[r] = s.pages[r]
  <1> DEFINE t == [s EXCEPT !.pages[p] = q]
             d == [s.pages EXCEPT ![p] = q]
  <1>1. /\ d[p] = q /\ d = [r \in Routes |-> d[r]]
        /\ \A r \in Routes \ {p} : d[r] = s.pages[r]
    BY DEF StateOK
  <1>2. t = [s EXCEPT !.pages = d]
    OBVIOUS
  <1> HIDE DEF d, t
  <1>3. /\ t.app = s.app /\ t.op = s.op /\ t.pages = d
        /\ t.disk = s.disk /\ t.dirty = s.dirty
        /\ t \in [app : {t.app}, pages : {t.pages}, disk : Files,
                  dirty : BOOLEAN, op : Ops]
    BY <1>2 DEF StateOK
  <1>4. StateOK(t)
    BY <1>1, <1>3 DEF StateOK
  <1> QED BY <1>1, <1>3, <1>4 DEF t

LEMMA BecomesOK ==
    ASSUME NEW s, StateOK(s), NEW a, AppOK(a),
           s.pages["Today"].active /\ s.app.day # 0 => a.day = s.app.day
    PROVE  LET t == Becomes(s, a)
           IN  /\ StateOK(t) /\ t.app = a /\ t.op = s.op /\ DayKept(s, t)
               /\ t.disk = s.disk /\ t.dirty = s.dirty
               /\ \A p \in Routes : SameFace(s.pages[p], t.pages[p])
  <1> DEFINE d == [p \in Routes |-> [s.pages[p] EXCEPT !.fresh = FALSE]]
             t == Becomes(s, a)
  <1>1. t = [s EXCEPT !.app = a, !.pages = d]
    BY DEF Becomes
  <1>2. ASSUME NEW p \in Routes
        PROVE  /\ PageOK(d[p]) /\ Drawn(a, p, d[p]) /\ SameFace(s.pages[p], d[p])
    <2> DEFINE q == s.pages[p]
               r == [q EXCEPT !.fresh = FALSE]
    <2>1. PageOK(q) /\ Drawn(s.app, p, q)
      BY DEF StateOK
    <2>2. q.title # 0 => a.day = s.app.day
      BY TitleActive
    <2>3. d[p] = r
      OBVIOUS
    <2> HIDE DEF q, d
    <2>4. /\ r.active = q.active /\ r.interactive = q.interactive
          /\ r.timer = q.timer /\ r.fresh = FALSE /\ r.view = q.view
          /\ r.title = q.title /\ r.pressed = q.pressed
          /\ r \in [active : BOOLEAN, interactive : BOOLEAN, timer : BOOLEAN,
                    fresh : BOOLEAN, view : {r.view}, title : {r.title},
                    pressed : {r.pressed}]
      BY <2>1 DEF PageOK
    <2> HIDE DEF r
    <2>7. PageOK(r)
      BY <2>1, <2>4 DEF PageOK
    <2>8. Drawn(a, p, r)
      BY <2>1, <2>2, <2>4 DEF Drawn
    <2> QED BY <2>3, <2>4, <2>7, <2>8 DEF SameFace, q
  <1>3. d = [p \in Routes |-> d[p]]
    OBVIOUS
  <1> HIDE DEF d, t
  <1>4. /\ t.app = a /\ t.op = s.op /\ t.pages = d
        /\ t.disk = s.disk /\ t.dirty = s.dirty
        /\ t \in [app : {t.app}, pages : {t.pages}, disk : Files,
                  dirty : BOOLEAN, op : Ops]
    BY <1>1 DEF StateOK
  <1>5. StateOK(t)
    BY <1>2, <1>3, <1>4 DEF StateOK
  <1> QED BY <1>2, <1>4, <1>5 DEF t, DayKept

\* The parts of s that no page shows.
LEMMA PutRest ==
    ASSUME NEW s, StateOK(s), NEW t, t.app = s.app, t.pages = s.pages,
           t \in [app : {t.app}, pages : {t.pages}, disk : Files,
                  dirty : BOOLEAN, op : Ops]
    PROVE  StateOK(t)
  BY DEF StateOK

LEMMA PutOp ==
    ASSUME NEW s, StateOK(s), NEW o \in Ops
    PROVE  LET t == [s EXCEPT !.op = o]
           IN  /\ StateOK(t) /\ t.op = o /\ t.app = s.app /\ t.pages = s.pages
               /\ t.disk = s.disk /\ t.dirty = s.dirty
  <1> DEFINE t == [s EXCEPT !.op = o]
  <1>1. /\ t.op = o /\ t.app = s.app /\ t.pages = s.pages
        /\ t.disk = s.disk /\ t.dirty = s.dirty
        /\ t \in [app : {t.app}, pages : {t.pages}, disk : Files,
                  dirty : BOOLEAN, op : Ops]
    BY DEF StateOK
  <1> HIDE DEF t
  <1> QED BY <1>1, PutRest DEF t

LEMMA PutDirty ==
    ASSUME NEW s, StateOK(s), NEW b \in BOOLEAN
    PROVE  LET t == [s EXCEPT !.dirty = b]
           IN  /\ StateOK(t) /\ t.op = s.op /\ t.app = s.app /\ t.pages = s.pages
               /\ t.disk = s.disk /\ t.dirty = b
  <1> DEFINE t == [s EXCEPT !.dirty = b]
  <1>1. /\ t.op = s.op /\ t.app = s.app /\ t.pages = s.pages
        /\ t.disk = s.disk /\ t.dirty = b
        /\ t \in [app : {t.app}, pages : {t.pages}, disk : Files,
                  dirty : BOOLEAN, op : Ops]
    BY DEF StateOK
  <1> HIDE DEF t
  <1> QED BY <1>1, PutRest DEF t

LEMMA PutDisk ==
    ASSUME NEW s, StateOK(s), NEW f \in Files
    PROVE  LET t == [s EXCEPT !.disk = f]
           IN  /\ StateOK(t) /\ t.op = s.op /\ t.app = s.app /\ t.pages = s.pages
               /\ t.disk = f /\ t.dirty = s.dirty
  <1> DEFINE t == [s EXCEPT !.disk = f]
  <1>1. /\ t.op = s.op /\ t.app = s.app /\ t.pages = s.pages
        /\ t.disk = f /\ t.dirty = s.dirty
        /\ t \in [app : {t.app}, pages : {t.pages}, disk : Files,
                  dirty : BOOLEAN, op : Ops]
    BY DEF StateOK
  <1> HIDE DEF t
  <1> QED BY <1>1, PutRest DEF t

LEMMA KeptUpSteps ==
    ASSUME NEW s, NEW t, NEW u, KeptUp(s, t), KeptUp(t, u)
    PROVE  KeptUp(s, u)
  <1>1. \A p \in Routes : SameFace(s.pages[p], u.pages[p])
    BY DEF KeptUp, SameFace
  <1>2. s.pages["Today"].active = t.pages["Today"].active
    BY DEF KeptUp, SameFace, Routes
  <1>3. DayKept(s, u)
    BY <1>2 DEF KeptUp, DayKept
  <1> QED BY <1>1, <1>3 DEF KeptUp

LEMMA KeptUpSteady ==
    ASSUME NEW s, NEW t, KeptUp(s, t), Steady(s)
    PROVE  Steady(t)
  BY DEF KeptUp, SameFace, Steady, Routes

LEMMA BecomesKeeps ==
    ASSUME NEW s, StateOK(s), NEW a, AppOK(a), a.route = s.app.route,
           a.history = s.app.history,
           s.pages["Today"].active /\ s.app.day # 0 => a.day = s.app.day
    PROVE  KeptUp(s, Becomes(s, a)) /\ Becomes(s, a).disk = s.disk
  <1> DEFINE t == Becomes(s, a)
  <1>1. /\ StateOK(t) /\ t.app = a /\ t.op = s.op /\ DayKept(s, t)
        /\ t.disk = s.disk
        /\ \A p \in Routes : SameFace(s.pages[p], t.pages[p])
    BY BecomesOK
  <1> HIDE DEF t
  <1> QED BY <1>1 DEF KeptUp, t

LEMMA ReloadKeeps ==
    ASSUME NEW s, StateOK(s), NEW f \in Files
    PROVE  KeptUp(s, Reload(s, f)) /\ Reload(s, f).disk = s.disk
  <1> DEFINE a == [s.app EXCEPT !.schedule = f]
  <1>1. AppOK(a) /\ a.route = s.app.route /\ a.history = s.app.history /\ a.day = s.app.day
    <2>1. AppOK(s.app)
      BY DEF StateOK
    <2>2. /\ a.route = s.app.route /\ a.history = s.app.history /\ a.day = s.app.day
          /\ a.clock = s.app.clock
          /\ a \in [route : Routes, history : Seq(Routes), schedule : Files,
                    clock : Days \cup {0}, day : Days \cup {0},
                    course : {a.course}, status : {a.status}]
      BY <2>1 DEF AppOK
    <2> HIDE DEF a
    <2> QED BY <2>1, <2>2 DEF AppOK
  <1> HIDE DEF a
  <1> QED BY <1>1, BecomesKeeps DEF Reload, a

LEMMA StatusKeeps ==
    ASSUME NEW s, StateOK(s), NEW text
    PROVE  KeptUp(s, SetDataStatus(s, text)) /\ SetDataStatus(s, text).disk = s.disk
  <1> DEFINE a == [s.app EXCEPT !.status = text]
  <1>1. AppOK(a) /\ a.route = s.app.route /\ a.history = s.app.history /\ a.day = s.app.day
    <2>1. AppOK(s.app)
      BY DEF StateOK
    <2>2. /\ a.route = s.app.route /\ a.history = s.app.history /\ a.day = s.app.day
          /\ a.clock = s.app.clock
          /\ a \in [route : Routes, history : Seq(Routes), schedule : Files,
                    clock : Days \cup {0}, day : Days \cup {0},
                    course : {a.course}, status : {a.status}]
      BY <2>1 DEF AppOK
    <2> HIDE DEF a
    <2> QED BY <2>1, <2>2 DEF AppOK
  <1> HIDE DEF a
  <1> QED BY <1>1, BecomesKeeps DEF SetDataStatus, a

LEMMA DaysOK == 0 \notin Days /\ 1 \in Days /\ Days \subseteq Nat
  <1>1. Cardinality(Days) \in Nat
    BY DaysAssumption, FS_CardinalityType
  <1> DEFINE n == Cardinality(Days)
  <1>2. n \in Nat /\ Days = 1..n /\ Days # {}
    BY <1>1, DaysAssumption
  <1> HIDE DEF n
  <1> QED BY <1>2

LEMMA TickKeeps ==
    ASSUME NEW s, StateOK(s), Steady(s), NEW c \in Days
    PROVE  KeptUp(s, ClockTick(s, c)) /\ ClockTick(s, c).disk = s.disk
  <1> DEFINE a == Ticked(s.app, c)
             today == s.pages["Today"]
  <1>1. AppOK(s.app) /\ c # 0 /\ "Today" \in Routes
    BY DaysOK DEF StateOK, Routes
  <1>2. /\ a.route = s.app.route /\ a.history = s.app.history /\ a.clock = c
        /\ a.schedule = s.app.schedule /\ a.course = s.app.course
        /\ a.status = s.app.status
        /\ a.day = IF s.app.route = "Home" \/ s.app.day = 0 THEN c ELSE s.app.day
        /\ a \in [route : Routes, history : Seq(Routes), schedule : Files,
                  clock : Days \cup {0}, day : Days \cup {0},
                  course : {a.course}, status : {a.status}]
    BY <1>1 DEF AppOK, Ticked
  <1> HIDE DEF a
  <1>3. AppOK(a)
    BY <1>1, <1>2 DEF AppOK
  <1>4. today.active /\ s.app.day # 0 => a.day = s.app.day
    BY <1>2 DEF Steady
  <1>5. CASE s.app.clock # c
    BY <1>2, <1>3, <1>4, <1>5, BecomesKeeps DEF ClockTick, a
  <1>6. CASE s.app.clock = c
    <2> DEFINE t == [s EXCEPT !.app = a]
    <2>1. t = ClockTick(s, c)
      BY <1>6 DEF ClockTick, a
    <2>2. /\ t.app = a /\ t.pages = s.pages /\ t.op = s.op /\ t.disk = s.disk
          /\ t.dirty = s.dirty
          /\ t \in [app : {t.app}, pages : {t.pages}, disk : Files,
                    dirty : BOOLEAN, op : Ops]
      BY DEF StateOK
    <2> HIDE DEF t
    <2>3. s.app.day # 0
      BY <1>1, <1>6 DEF AppOK
    <2>4. s.app.route # "Home" => a.day = s.app.day
      BY <1>2, <2>3
    <2>5. Present(a) = Present(s.app)
      <3>1. ShownDay(a) = ShownDay(s.app) \/ s.app.route = "Home"
        BY <2>4, <1>2, <1>6 DEF ShownDay, KnownDay
      <3>2. HomeRows(a) = HomeRows(s.app)
        BY <1>2, <1>6 DEF HomeRows
      <3>3. Selected(a) = Selected(s.app) /\ WeekRows(a) = WeekRows(s.app)
        BY <1>2 DEF Selected, WeekRows
      <3>4. DayRows(a) = DayRows(s.app) \/ s.app.route = "Home"
        BY <3>1, <1>2 DEF DayRows
      <3>5. CASE s.app.route = "Home"
        BY <3>2, <3>5, <1>2 DEF Present
      <3>6. CASE s.app.route # "Home"
        BY <3>1, <3>2, <3>3, <3>4, <3>6, <1>2 DEF Present
      <3> QED BY <3>5, <3>6
    <2>6. ASSUME NEW p \in Routes
          PROVE  PageOK(s.pages[p]) /\ Drawn(a, p, s.pages[p])
      <3>1. PageOK(s.pages[p]) /\ Drawn(s.app, p, s.pages[p])
        BY DEF StateOK
      <3>2. s.pages[p].title # 0 => a.day = s.app.day
        BY TitleActive, <1>4
      <3> QED BY <3>1, <3>2, <2>5, <1>2 DEF Drawn
    <2>7. StateOK(t)
      <3>1. s.pages = [p \in Routes |-> s.pages[p]]
        BY DEF StateOK
      <3> QED BY <1>3, <2>2, <2>6, <3>1 DEF StateOK
    <2>8. \A p \in Routes : SameFace(s.pages[p], t.pages[p])
      BY <2>2 DEF SameFace
    <2>9. DayKept(s, t)
      BY <1>4, <2>2 DEF DayKept
    <2> QED BY <1>2, <2>1, <2>2, <2>7, <2>8, <2>9 DEF KeptUp
  <1> QED BY <1>5, <1>6

LEMMA KeptUpSame ==
    ASSUME NEW s, StateOK(s)
    PROVE  KeptUp(s, s)
  BY DEF KeptUp, DayKept, SameFace

LEMMA MaintainKeeps ==
    ASSUME NEW s, StateOK(s), Steady(s), NEW w \in Worlds
    PROVE  KeptUp(s, Maintain(s, w)) /\ Maintain(s, w).disk = s.disk
  <1> DEFINE ticked == IF w.clock = 0 THEN s ELSE ClockTick(s, w.clock)
             clean == [ticked EXCEPT !.dirty = FALSE]
             loaded == IF w.load = "not due" THEN ticked ELSE Reloaded(clean, w)
  <1>0. w.clock \in Days \cup {0}
    BY DEF Worlds
  <1>1. KeptUp(s, ticked) /\ ticked.disk = s.disk
    BY <1>0, TickKeeps, KeptUpSame
  <1>2. KeptUp(s, clean) /\ clean.disk = s.disk
    <2>1. StateOK(ticked)
      BY <1>1 DEF KeptUp
    <2> HIDE DEF ticked
    <2>2. /\ StateOK(clean) /\ clean.op = ticked.op /\ clean.app = ticked.app
          /\ clean.pages = ticked.pages /\ clean.disk = ticked.disk
      BY <2>1, PutDirty
    <2> HIDE DEF clean
    <2> QED BY <1>1, <2>2 DEF KeptUp, DayKept
  <1> HIDE DEF clean
  <1>3. KeptUp(s, Reloaded(clean, w)) /\ Reloaded(clean, w).disk = s.disk
    <2>1. StateOK(clean) /\ clean.disk \in Files
      BY <1>2 DEF KeptUp, StateOK
    <2>2. KeptUp(clean, Reload(clean, clean.disk)) /\ Reload(clean, clean.disk).disk = s.disk
      BY <1>2, <2>1, ReloadKeeps
    <2> QED BY <1>2, <2>2, KeptUpSteps DEF Reloaded
  <1> HIDE DEF ticked
  <1>4. KeptUp(s, loaded) /\ loaded.disk = s.disk
    BY <1>1, <1>3
  <1>5. Maintain(s, w) \in {s, loaded, SetDataStatus(loaded, <<"unsupported">>)}
    BY DEF Maintain, loaded, ticked, clean
  <1> HIDE DEF loaded
  <1>6. /\ KeptUp(loaded, SetDataStatus(loaded, <<"unsupported">>))
        /\ SetDataStatus(loaded, <<"unsupported">>).disk = s.disk
    <2>1. StateOK(loaded)
      BY <1>4 DEF KeptUp
    <2> QED BY <1>4, <2>1, StatusKeeps
  <1> QED BY <1>4, <1>5, <1>6, KeptUpSteps, KeptUpSame

-----------------------------------------------------------------------------
(* Pages come, rest, are drawn and go                                      *)

\* Nothing happens on page q.
Rests(q) == ~q.interactive /\ ~q.timer /\ q.pressed = {}

\* t is s with page p in another state and the rest as it was.
OnlyPage(s, t, p) ==
    /\ StateOK(t) /\ t.app = s.app /\ t.op = s.op
    /\ t.disk = s.disk /\ t.dirty = s.dirty
    /\ \A r \in Routes \ {p} : t.pages[r] = s.pages[r]

\* What can be said of a page that has been given the fields of f.
LEMMA PageFields ==
    ASSUME NEW s, StateOK(s), NEW p \in Routes, NEW q,
           q \in [active : BOOLEAN, interactive : BOOLEAN, timer : BOOLEAN,
                  fresh : BOOLEAN, view : {q.view}, title : {q.title},
                  pressed : {q.pressed}],
           q.active, Single(q.pressed), q.view = s.pages[p].view,
           q.title = s.pages[p].title, q.fresh = s.pages[p].fresh
    PROVE  PageOK(q) /\ Drawn(s.app, p, q)
  BY DEF StateOK, PageOK, Drawn

LEMMA PauseOK ==
    ASSUME NEW s, StateOK(s), NEW p \in Routes
    PROVE  LET t == PagePause(s, p)
           IN  /\ OnlyPage(s, t, p)
               /\ Rests(t.pages[p]) /\ t.pages[p].active = s.pages[p].active
  <1> DEFINE old == s.pages[p]
             q == [old EXCEPT !.interactive = FALSE, !.pressed = {}, !.timer = FALSE]
             t == PagePause(s, p)
  <1>1. PageOK(old) /\ Drawn(s.app, p, old)
    BY DEF StateOK
  <1>2. t = [s EXCEPT !.pages[p] = q]
    BY DEF PagePause, StateOK
  <1> HIDE DEF old, t
  <1>3. /\ q.active = old.active /\ ~q.interactive /\ ~q.timer /\ q.pressed = {}
        /\ q.fresh = old.fresh /\ q.view = old.view /\ q.title = old.title
        /\ q \in [active : BOOLEAN, interactive : BOOLEAN, timer : BOOLEAN,
                  fresh : BOOLEAN, view : {q.view}, title : {q.title},
                  pressed : {q.pressed}]
    BY <1>1 DEF PageOK
  <1> HIDE DEF q
  <1>4. PageOK(q) /\ Drawn(s.app, p, q)
    BY <1>1, <1>3 DEF PageOK, Drawn, Single
  <1>5. OnlyPage(s, t, p) /\ t.pages[p] = q
    BY <1>2, <1>4, PutPage DEF OnlyPage
  <1> QED BY <1>3, <1>5 DEF Rests, t, old

LEMMA DestroyOK ==
    ASSUME NEW s, StateOK(s), NEW p \in Routes
    PROVE  LET t == PageDestroy(s, p)
           IN  /\ OnlyPage(s, t, p)
               /\ Rests(t.pages[p]) /\ ~t.pages[p].active
  <1> DEFINE t == PageDestroy(s, p)
  <1>1. OnlyPage(s, t, p) /\ t.pages[p] = NoPage
    BY NoPageOK, PutPage DEF OnlyPage, PageDestroy
  <1> QED BY <1>1 DEF Rests, NoPage

LEMMA StartOK ==
    ASSUME NEW s, StateOK(s), NEW p \in Routes, s.pages[p].active
    PROVE  LET t == StartTimer(s, p)
           IN  /\ OnlyPage(s, t, p) /\ t.pages[p].timer
               /\ t.pages[p].active = s.pages[p].active
               /\ t.pages[p].interactive = s.pages[p].interactive
               /\ t.pages[p].pressed = s.pages[p].pressed
  <1> DEFINE old == s.pages[p]
             q == [old EXCEPT !.timer = TRUE]
             t == StartTimer(s, p)
  <1>1. PageOK(old) /\ Drawn(s.app, p, old) /\ old.active
    BY DEF StateOK
  <1>2. t = [s EXCEPT !.pages[p] = q]
    BY DEF StartTimer, StateOK
  <1> HIDE DEF old, t
  <1>3. /\ q.active = old.active /\ q.interactive = old.interactive /\ q.timer
        /\ q.pressed = old.pressed
        /\ q.fresh = old.fresh /\ q.view = old.view /\ q.title = old.title
        /\ q \in [active : BOOLEAN, interactive : BOOLEAN, timer : BOOLEAN,
                  fresh : BOOLEAN, view : {q.view}, title : {q.title},
                  pressed : {q.pressed}]
    BY <1>1 DEF PageOK
  <1> HIDE DEF q
  <1>4. PageOK(q) /\ Drawn(s.app, p, q)
    BY <1>1, <1>3 DEF PageOK, Drawn, Single
  <1>5. OnlyPage(s, t, p) /\ t.pages[p] = q
    BY <1>2, <1>4, PutPage DEF OnlyPage
  <1> QED BY <1>3, <1>5 DEF t, old

LEMMA WakeOK ==
    ASSUME NEW s, StateOK(s), NEW p \in Routes, s.pages[p].active
    PROVE  LET t == [s EXCEPT !.pages[p].interactive = TRUE]
           IN  /\ OnlyPage(s, t, p) /\ Shown(t.pages[p])
               /\ t.pages[p].timer = s.pages[p].timer
               /\ t.pages[p].pressed = s.pages[p].pressed
  <1> DEFINE old == s.pages[p]
             q == [old EXCEPT !.interactive = TRUE]
             t == [s EXCEPT !.pages[p].interactive = TRUE]
  <1>1. PageOK(old) /\ Drawn(s.app, p, old) /\ old.active
    BY DEF StateOK
  <1>2. t = [s EXCEPT !.pages[p] = q]
    BY DEF StateOK
  <1> HIDE DEF old, t
  <1>3. /\ q.active = old.active /\ q.interactive /\ q.timer = old.timer
        /\ q.pressed = old.pressed
        /\ q.fresh = old.fresh /\ q.view = old.view /\ q.title = old.title
        /\ q \in [active : BOOLEAN, interactive : BOOLEAN, timer : BOOLEAN,
                  fresh : BOOLEAN, view : {q.view}, title : {q.title},
                  pressed : {q.pressed}]
    BY <1>1 DEF PageOK
  <1> HIDE DEF q
  <1>4. PageOK(q) /\ Drawn(s.app, p, q)
    BY <1>1, <1>3 DEF PageOK, Drawn, Single
  <1>5. OnlyPage(s, t, p) /\ t.pages[p] = q
    BY <1>2, <1>4, PutPage DEF OnlyPage
  <1> QED BY <1>1, <1>3, <1>5 DEF t, old, Shown

LEMMA NewPageOK ==
    ASSUME NEW s, StateOK(s), NEW p \in Routes
    PROVE  LET t == [s EXCEPT !.pages[p] = [NoPage EXCEPT !.active = TRUE,
                                                          !.interactive = TRUE]]
           IN  /\ OnlyPage(s, t, p) /\ Shown(t.pages[p])
               /\ ~t.pages[p].timer /\ t.pages[p].pressed = {}
  <1> DEFINE q == [NoPage EXCEPT !.active = TRUE, !.interactive = TRUE]
             t == [s EXCEPT !.pages[p] = q]
  <1>1. /\ q.active /\ q.interactive /\ ~q.timer /\ q.pressed = {}
        /\ ~q.fresh /\ q.view = {} /\ q.title = 0
        /\ q \in [active : BOOLEAN, interactive : BOOLEAN, timer : BOOLEAN,
                  fresh : BOOLEAN, view : {q.view}, title : {q.title},
                  pressed : {q.pressed}]
    BY DEF NoPage
  <1> HIDE DEF q
  <1>2. PageOK(q) /\ Drawn(s.app, p, q)
    BY <1>1 DEF PageOK, Drawn, Single
  <1>3. OnlyPage(s, t, p) /\ t.pages[p] = q
    BY <1>2, PutPage DEF OnlyPage
  <1> HIDE DEF t
  <1> QED BY <1>1, <1>3 DEF Shown, t, q

LEMMA RenderKeeps ==
    ASSUME NEW s, StateOK(s), NEW p \in Routes, NEW w
    PROVE  LET t == Render(s, p, w)
           IN  /\ StateOK(t) /\ t.app = s.app /\ t.op = s.op /\ t.disk = s.disk
               /\ \A r \in Routes : SameFace(s.pages[r], t.pages[r])
  <1> DEFINE old == s.pages[p]
             title == IF p = "Today" /\ old.view = {} THEN KnownDay(s.app) ELSE old.title
             q == [old EXCEPT !.view = {Present(s.app)}, !.fresh = TRUE, !.title = title]
             t == [s EXCEPT !.pages[p] = q]
  <1>1. PageOK(old) /\ Drawn(s.app, p, old) /\ AppOK(s.app)
    BY DEF StateOK
  <1>2. Render(s, p, w) = IF Shown(old) /\ Renders(s, p, w) /\ ~old.fresh THEN t ELSE s
    BY DEF Render
  <1>3. title # 0 => p = "Today" /\ title = s.app.day
    BY <1>1 DEF Drawn, KnownDay, AppOK
  <1> HIDE DEF old, title
  <1>4. /\ q.active = old.active /\ q.interactive = old.interactive
        /\ q.timer = old.timer /\ q.pressed = old.pressed
        /\ q.fresh /\ q.view = {Present(s.app)} /\ q.title = title
        /\ q \in [active : BOOLEAN, interactive : BOOLEAN, timer : BOOLEAN,
                  fresh : BOOLEAN, view : {q.view}, title : {q.title},
                  pressed : {q.pressed}]
    BY <1>1 DEF PageOK
  <1> HIDE DEF q
  <1>5. old.active => PageOK(q) /\ Drawn(s.app, p, q)
    BY <1>1, <1>3, <1>4 DEF PageOK, Drawn, Single
  <1>6. old.active => OnlyPage(s, t, p) /\ t.pages[p] = q
    BY <1>5, PutPage DEF OnlyPage
  <1> HIDE DEF t
  <1>7. CASE Render(s, p, w) = s
    BY <1>7 DEF SameFace
  <1>8. CASE Render(s, p, w) = t /\ old.active
    BY <1>4, <1>6, <1>8 DEF OnlyPage, SameFace, old
  <1> QED BY <1>2, <1>7, <1>8 DEF Shown

-----------------------------------------------------------------------------
(* Page p becomes the one the app is on                                    *)

\* On a path, r is once: rewinding to it leaves what was before it.
LEMMA RewoundOK ==
    ASSUME NEW a, AppOK(a), IsPath(Trail(a)), NEW k \in 1..Len(a.history)
    PROVE  /\ Rewound(a.history, a.history[k]) = SubSeq(a.history, 1, k - 1)
           /\ SubSeq(a.history, 1, k - 1) \in Seq(Routes)
  <1> DEFINE h == a.history
             q == Trail(a)
             at == {j \in DOMAIN h : h[j] = h[k]}
             last == CHOOSE i \in at : \A j \in at : j <= i
  <1>1. h \in Seq(Routes) /\ a.route \in Routes /\ Len(h) \in Nat /\ DOMAIN h = 1..Len(h)
    BY SeqFacts DEF AppOK
  <1>2. Len(q) = Len(h) + 1 /\ \A i \in 1..Len(h) : q[i] = h[i]
    BY <1>1 DEF Trail
  <1>3. \A i, j \in 1..Len(q) : q[i] = q[j] => i = j
    BY PathShrinks
  <1> HIDE DEF h, q
  <1>0. k \in 1..Len(h)
    BY DEF h
  <1>4. at = {k}
    <2>1. \A j \in 1..Len(h) : j \in 1..Len(q)
      BY <1>1, <1>2
    <2> QED BY <1>0, <1>1, <1>2, <1>3, <2>1
  <1>5. last = k
    BY <1>0, <1>4
  <1>6. Rewound(h, h[k]) = SubSeq(h, 1, k - 1)
    BY <1>4, <1>5 DEF Rewound
  <1>7. SubSeq(h, 1, k - 1) \in Seq(Routes)
    <2> DEFINE m == k - 1
    <2>1. m \in 0..Len(h)
      BY <1>0, <1>1
    <2> HIDE DEF m
    <2>2. SubSeq(h, 1, m) \in Seq(Routes)
      BY <1>1, <2>1
    <2> QED BY <2>2 DEF m
  <1> QED BY <1>6, <1>7 DEF h

\* Where the app is once page p has been entered.
Arrived(a, p) == IF a.route = p THEN a.history ELSE Rewound(a.history, p)

\* From s, page p is on, the app has come to it and the other pages are as before.
Entered(s, t, p, w) ==
    /\ StateOK(t) /\ t.op = s.op /\ t.disk = s.disk /\ DayKept(s, t)
    /\ t.app.route = p /\ t.app.history = Arrived(s.app, p)
    /\ \A r \in Routes \ {p} : SameFace(s.pages[r], t.pages[r])
    /\ Shown(t.pages[p]) /\ t.pages[p].pressed = s.pages[p].pressed
    /\ w.draw # "fails" => t.pages[p].timer

LEMMA ResumeRouteOK ==
    ASSUME NEW s, StateOK(s), NEW p \in Routes, Arrived(s.app, p) \in Seq(Routes)
    PROVE  LET t == ResumeRoute(s, p)
           IN  /\ StateOK(t) /\ t.op = s.op /\ t.disk = s.disk /\ DayKept(s, t)
               /\ t.app.route = p /\ t.app.history = Arrived(s.app, p)
               /\ \A r \in Routes : SameFace(s.pages[r], t.pages[r])
  <1>1. CASE s.app.route = p
    <2>1. ResumeRoute(s, p) = s
      BY <1>1 DEF ResumeRoute
    <2> QED BY <1>1, <2>1 DEF Arrived, DayKept, SameFace
  <1>2. CASE s.app.route # p
    <2> DEFINE h == Rewound(s.app.history, p)
               a == [s.app EXCEPT !.history = h, !.route = p]
               t == Becomes(s, a)
    <2>1. ResumeRoute(s, p) = t
      BY <1>2 DEF ResumeRoute
    <2>2. h = Arrived(s.app, p) /\ h \in Seq(Routes)
      BY <1>2 DEF Arrived
    <2>3. AppOK(s.app)
      BY DEF StateOK
    <2> HIDE DEF h
    <2>4. /\ a.route = p /\ a.history = h /\ a.day = s.app.day /\ a.clock = s.app.clock
          /\ a \in [route : Routes, history : Seq(Routes), schedule : Files,
                    clock : Days \cup {0}, day : Days \cup {0},
                    course : {a.course}, status : {a.status}]
      BY <2>2, <2>3 DEF AppOK
    <2> HIDE DEF a
    <2>5. AppOK(a)
      BY <2>3, <2>4 DEF AppOK
    <2>6. /\ StateOK(t) /\ t.app = a /\ t.op = s.op /\ DayKept(s, t)
          /\ t.disk = s.disk
          /\ \A r \in Routes : SameFace(s.pages[r], t.pages[r])
      BY <2>4, <2>5, BecomesOK
    <2> HIDE DEF t
    <2> QED BY <2>1, <2>2, <2>4, <2>6
  <1> QED BY <1>1, <1>2

LEMMA EnterOK ==
    ASSUME NEW s, StateOK(s), NEW p \in Routes, NEW w \in Worlds,
           Shown(s.pages[p]), Arrived(s.app, p) \in Seq(Routes),
           p = "Home" => ~s.pages["Today"].active
    PROVE  Entered(s, Enter(s, p, w), p, w)
  <1> DEFINE r == ResumeRoute(s, p)
             m == Maintain(r, w)
             d == Render(m, p, w)
             t == Enter(s, p, w)
  <1>1. /\ StateOK(r) /\ r.op = s.op /\ r.disk = s.disk /\ DayKept(s, r)
        /\ r.app.route = p /\ r.app.history = Arrived(s.app, p)
        /\ \A q \in Routes : SameFace(s.pages[q], r.pages[q])
    BY ResumeRouteOK
  <1> HIDE DEF r
  <1>2. Steady(r)
    BY <1>1 DEF Steady, SameFace, Routes
  <1>3. KeptUp(r, m) /\ m.disk = r.disk
    BY <1>1, <1>2, MaintainKeeps
  <1> HIDE DEF m
  <1>4. StateOK(m) /\ m.app.route = p
    BY <1>1, <1>3 DEF KeptUp
  <1>5. /\ StateOK(d) /\ d.app = m.app /\ d.op = m.op /\ d.disk = m.disk
        /\ \A q \in Routes : SameFace(m.pages[q], d.pages[q])
    BY <1>4, RenderKeeps
  <1>6. t = IF Renders(m, p, w) THEN StartTimer(d, p) ELSE d
    BY DEF Enter, d, m, r
  <1>7. w.draw # "fails" => Renders(m, p, w)
    BY <1>4 DEF Renders
  <1> SUFFICES Entered(s, t, p, w)
    OBVIOUS
  <1> HIDE DEF d, t
  <1>8. \A q \in Routes : SameFace(s.pages[q], d.pages[q])
    BY <1>1, <1>3, <1>5 DEF KeptUp, SameFace
  <1>9. DayKept(s, d)
    <2>1. "Today" \in Routes
      BY DEF Routes
    <2>2. s.pages["Today"].active = r.pages["Today"].active
      BY <1>1, <2>1 DEF SameFace
    <2> QED BY <1>1, <1>3, <1>5, <2>2 DEF DayKept, KeptUp
  <1>10. /\ d.op = s.op /\ d.disk = s.disk /\ d.app.route = p
         /\ d.app.history = Arrived(s.app, p)
    BY <1>1, <1>3, <1>5 DEF KeptUp
  <1>11. Shown(d.pages[p]) /\ d.pages[p].pressed = s.pages[p].pressed
    <2>1. SameFace(s.pages[p], d.pages[p])
      BY <1>8
    <2>2. d.pages[p].active /\ d.pages[p].interactive
      BY <2>1, Zenon DEF SameFace, Shown
    <2> QED BY <2>1, <2>2 DEF SameFace, Shown
  <1>12. CASE t = d /\ w.draw = "fails"
    BY <1>5, <1>8, <1>9, <1>10, <1>11, <1>12 DEF Entered
  <1>13. CASE t = StartTimer(d, p)
    <2>1. /\ OnlyPage(d, t, p) /\ t.pages[p].timer
          /\ t.pages[p].active = d.pages[p].active
          /\ t.pages[p].interactive = d.pages[p].interactive
          /\ t.pages[p].pressed = d.pages[p].pressed
      BY <1>5, <1>11, <1>13, StartOK DEF Shown
    <2>2. DayKept(s, t)
      BY <1>9, <2>1 DEF DayKept, OnlyPage
    <2>3. \A q \in Routes \ {p} : SameFace(s.pages[q], t.pages[q])
      BY <1>8, <2>1 DEF OnlyPage, SameFace
    <2>4. Shown(t.pages[p])
      BY <1>11, <2>1, Zenon DEF Shown
    <2>5. t.pages[p].pressed = s.pages[p].pressed
      BY <1>11, <2>1
    <2>6. StateOK(t) /\ t.app = d.app /\ t.op = d.op /\ t.disk = d.disk
      BY <2>1 DEF OnlyPage
    <2> QED BY <1>10, <2>1, <2>2, <2>3, <2>4, <2>5, <2>6 DEF Entered
  <1> QED BY <1>6, <1>7, <1>12, <1>13

LEMMA CreateOK ==
    ASSUME NEW s, StateOK(s), NEW p \in Routes, NEW w \in Worlds,
           ~s.pages[p].active, Arrived(s.app, p) \in Seq(Routes),
           p = "Home" => ~s.pages["Today"].active
    PROVE  LET t == PageCreate(s, p, w)
           IN  Entered(s, t, p, w) /\ t.pages[p].pressed = {}
  <1> DEFINE n == [s EXCEPT !.pages[p] = [NoPage EXCEPT !.active = TRUE,
                                                        !.interactive = TRUE]]
             t == Enter(n, p, w)
  <1>1. OnlyPage(s, n, p) /\ Shown(n.pages[p]) /\ n.pages[p].pressed = {}
    BY NewPageOK
  <1>2. PageCreate(s, p, w) = t
    BY DEF PageCreate
  <1> HIDE DEF n
  <1>3. p = "Home" => ~n.pages["Today"].active
    BY <1>1 DEF OnlyPage, Routes
  <1>4. Entered(n, t, p, w)
    BY <1>1, <1>3, EnterOK DEF OnlyPage
  <1> HIDE DEF t
  <1>5. DayKept(s, t)
    <2>1. CASE p = "Today"
      BY <2>1 DEF DayKept
    <2>2. CASE p # "Today"
      BY <1>1, <1>4, <2>2 DEF DayKept, Entered, OnlyPage, Routes
    <2> QED BY <2>1, <2>2
  <1>6. \A r \in Routes \ {p} : SameFace(s.pages[r], t.pages[r])
    BY <1>1, <1>4 DEF Entered, OnlyPage, SameFace
  <1>7. Entered(s, t, p, w)
    <2>1. n.app = s.app /\ n.op = s.op /\ n.disk = s.disk /\ ~s.pages[p].active
      BY <1>1 DEF OnlyPage
    <2>2. t.pages[p].pressed = s.pages[p].pressed
      BY <1>1, <1>4 DEF Entered, StateOK, PageOK
    <2> QED BY <1>4, <1>5, <1>6, <2>1, <2>2 DEF Entered
  <1> QED BY <1>1, <1>2, <1>4, <1>7 DEF Entered

LEMMA ResumeOK ==
    ASSUME NEW s, StateOK(s), NEW p \in Routes, NEW w \in Worlds,
           s.pages[p].active, Arrived(s.app, p) \in Seq(Routes),
           p = "Home" => ~s.pages["Today"].active
    PROVE  Entered(s, PageResume(s, p, w), p, w)
  <1> DEFINE n == [s EXCEPT !.pages[p].interactive = TRUE]
             t == Enter(n, p, w)
  <1>1. /\ OnlyPage(s, n, p) /\ Shown(n.pages[p])
        /\ n.pages[p].pressed = s.pages[p].pressed
    BY WakeOK
  <1>2. PageResume(s, p, w) = t
    BY DEF PageResume
  <1> HIDE DEF n
  <1>3. p = "Home" => ~n.pages["Today"].active
    BY <1>1 DEF OnlyPage, Routes
  <1>4. Entered(n, t, p, w)
    BY <1>1, <1>3, EnterOK DEF OnlyPage
  <1> HIDE DEF t
  <1>5. ASSUME NEW r \in Routes
        PROVE  s.pages[r].active <=> n.pages[r].active
    <2>1. CASE r = p
      BY <1>1, <2>1 DEF Shown
    <2>2. CASE r # p
      BY <1>1, <2>2 DEF OnlyPage
    <2> QED BY <2>1, <2>2
  <1>6. DayKept(s, t)
    BY <1>1, <1>4, <1>5 DEF DayKept, Entered, OnlyPage, Routes
  <1>7. \A r \in Routes \ {p} : SameFace(s.pages[r], t.pages[r])
    BY <1>1, <1>4 DEF Entered, OnlyPage, SameFace
  <1>8. Entered(s, t, p, w)
    BY <1>1, <1>4, <1>6, <1>7 DEF Entered, OnlyPage
  <1> QED BY <1>2, <1>8

-----------------------------------------------------------------------------
(* The user moves                                                          *)

\* After the callback, the app is on page p as before and nothing is pressed.
Stays(s, t, p) ==
    /\ StateOK(t) /\ t.op = s.op /\ DayKept(s, t)
    /\ t.app.route = s.app.route /\ t.app.history = s.app.history
    /\ \A r \in Routes \ {p} : SameFace(s.pages[r], t.pages[r])
    /\ Shown(t.pages[p]) /\ t.pages[p].pressed = {}
    /\ "busy" \notin FaultKinds /\ s.pages[p].timer => t.pages[p].timer

\* The app went where a is, and page p waits for the firmware to do how.
Leaves(s, t, p, a, how) ==
    /\ StateOK(t) /\ t.op = how /\ DayKept(s, t)
    /\ t.app.route = a.route /\ t.app.history = a.history
    /\ \A r \in Routes \ {p} : SameFace(s.pages[r], t.pages[r])
    /\ Rests(t.pages[p]) /\ t.pages[p].active

LEMMA DrawsUnlessBusy ==
    ASSUME NEW w \in Worlds, "busy" \notin FaultKinds
    PROVE  w.draw # "fails"
  BY DEF Worlds, FaultsIn

LEMMA KeptUpStays ==
    ASSUME NEW s, NEW t, KeptUp(s, t), NEW p \in Routes, Shown(s.pages[p]),
           s.pages[p].pressed = {}
    PROVE  Stays(s, t, p)
  <1>1. SameFace(s.pages[p], t.pages[p])
    BY DEF KeptUp
  <1>2. Shown(t.pages[p])
    BY <1>1, Zenon DEF Shown, SameFace
  <1>3. t.pages[p].pressed = {} /\ (s.pages[p].timer => t.pages[p].timer)
    BY <1>1 DEF SameFace
  <1> QED BY <1>2, <1>3 DEF Stays, KeptUp

LEMMA MovesOK ==
    ASSUME NEW s, StateOK(s), NEW p \in Routes, s.app.route = p, s.pages[p].active,
           p = "Home" => ~s.pages["Today"].active,
           NEW a, AppOK(a), a.schedule = s.app.schedule, a.clock = s.app.clock,
           s.pages["Today"].active => a.day = s.app.day,
           NEW how \in Ops, NEW refused \in BOOLEAN, NEW v \in Worlds
    PROVE  LET t == Moves(s, p, a, how, refused, v)
           IN  IF refused THEN Stays(s, t, p) ELSE Leaves(s, t, p, a, how)
  <1> DEFINE b == Becomes(s, a)
             left == PagePause(b, p)
             gone == [left EXCEPT !.op = how]
             old == [s.app EXCEPT !.schedule = left.app.schedule,
                                  !.clock = left.app.clock]
             back == Restored(left, s.app)
             t == PageResume(back, p, v)
  <1>0. "Today" \in Routes
    BY DEF Routes
  <1>1. /\ StateOK(b) /\ b.app = a /\ b.op = s.op /\ DayKept(s, b)
        /\ \A r \in Routes : SameFace(s.pages[r], b.pages[r])
    BY BecomesOK
  <1> HIDE DEF b
  <1>2. /\ OnlyPage(b, left, p) /\ Rests(left.pages[p])
        /\ left.pages[p].active = b.pages[p].active
    BY <1>1, PauseOK
  <1>3. Moves(s, p, a, how, refused, v) = IF refused THEN t ELSE gone
    BY DEF Moves, left, b
  <1> HIDE DEF left
  <1>4. \A r \in Routes \ {p} : SameFace(s.pages[r], left.pages[r])
    BY <1>1, <1>2 DEF OnlyPage, SameFace
  <1>5. left.pages[p].active
    BY <1>1, <1>2 DEF SameFace
  <1>6. Leaves(s, gone, p, a, how)
    <2>1. /\ StateOK(gone) /\ gone.op = how /\ gone.app = left.app
          /\ gone.pages = left.pages
      BY <1>2, PutOp DEF OnlyPage
    <2> HIDE DEF gone
    <2>2. left.app = a
      BY <1>1, <1>2 DEF OnlyPage
    <2>3. DayKept(s, gone)
      BY <1>1, <2>1, <2>2 DEF DayKept
    <2> QED BY <1>2, <1>4, <1>5, <2>1, <2>2, <2>3 DEF Leaves
  <1>7. Stays(s, t, p)
    <2>1. AppOK(s.app) /\ StateOK(left) /\ left.app = a /\ left.op = s.op
      BY <1>1, <1>2 DEF OnlyPage, StateOK
    <2>2. /\ old.route = p /\ old.history = s.app.history /\ old.day = s.app.day
          /\ old.clock = s.app.clock
          /\ old \in [route : Routes, history : Seq(Routes), schedule : Files,
                      clock : Days \cup {0}, day : Days \cup {0},
                      course : {old.course}, status : {old.status}]
      BY <2>1 DEF AppOK
    <2>3. back = Becomes(left, old)
      BY DEF Restored
    <2> HIDE DEF old
    <2>4. AppOK(old)
      BY <2>1, <2>2 DEF AppOK
    <2>5. s.pages["Today"].active <=> left.pages["Today"].active
      <3>1. CASE p = "Today"
        BY <1>5, <3>1
      <3>2. CASE p # "Today"
        BY <1>0, <1>4, <3>2 DEF SameFace
      <3> QED BY <3>1, <3>2
    <2>6. left.pages["Today"].active => old.day = left.app.day
      BY <2>1, <2>2, <2>5
    <2>7. /\ StateOK(back) /\ back.app = old /\ back.op = s.op
          /\ \A r \in Routes : SameFace(left.pages[r], back.pages[r])
      BY <2>1, <2>3, <2>4, <2>6, BecomesOK
    <2> HIDE DEF back
    <2>8. SameFace(left.pages[p], back.pages[p]) /\ back.pages[p].active
      BY <1>5, <2>7 DEF SameFace
    <2>9. Arrived(back.app, p) = s.app.history /\ s.app.history \in Seq(Routes)
      BY <2>1, <2>2, <2>7 DEF Arrived, AppOK
    <2>10. back.pages["Today"].active <=> s.pages["Today"].active
      BY <1>0, <2>5, <2>7 DEF SameFace
    <2>11. Entered(back, t, p, v)
      BY <2>7, <2>8, <2>9, <2>10, ResumeOK
    <2> HIDE DEF t
    <2>12. DayKept(s, t)
      BY <2>2, <2>7, <2>10, <2>11 DEF DayKept, Entered
    <2>13. \A r \in Routes \ {p} : SameFace(s.pages[r], t.pages[r])
      BY <1>4, <2>7, <2>11 DEF Entered, SameFace
    <2>14. t.pages[p].pressed = {}
      BY <1>2, <2>8, <2>11 DEF Entered, SameFace, Rests
    <2>15. "busy" \notin FaultKinds => t.pages[p].timer
      BY <2>11, DrawsUnlessBusy DEF Entered
    <2> QED BY <2>2, <2>7, <2>9, <2>11, <2>12, <2>13, <2>14, <2>15
            DEF Stays, Entered
  <1> QED BY <1>3, <1>6, <1>7

\* The rows of each page.
LEMMA CardsOK ==
    ASSUME NEW a, a.route \in Routes, NEW k \in DOMAIN Present(a).cards
    PROVE  LET row == Present(a).cards[k]
           IN  \/ a.route = "Home" /\ row.kind \in {"none", "Today", "Week", "Data"}
               \/ a.route = "Today" /\ row.kind = "Course"
               \/ a.route = "Week" /\ row.kind = "Day" /\ row.arg \in Days
               \/ a.route = "Detail" /\ row.kind = "none"
               \/ a.route = "Data" /\ row.kind \in {"Refresh", "Clear"}
  <1> DEFINE row == Present(a).cards[k]
  <1>1. CASE a.route = "Home"
    <2>1. Present(a).cards = HomeRows(a)
      BY <1>1 DEF Present
    <2>2. k \in 1..4
      BY <2>1 DEF HomeRows
    <2> QED BY <1>1, <2>1, <2>2 DEF HomeRows, Row, Still
  <1>2. CASE a.route = "Today"
    <2>1. Present(a).cards = DayRows(a)
      BY <1>2 DEF Present
    <2> QED BY <1>2, <2>1 DEF DayRows, Row
  <1>3. CASE a.route = "Week"
    <2>1. Present(a).cards = WeekRows(a)
      BY <1>3 DEF Present
    <2>2. k \in Days
      BY <2>1, DaysAssumption DEF WeekRows
    <2> QED BY <1>3, <2>1, <2>2 DEF WeekRows, Row
  <1>4. CASE a.route = "Detail"
    <2>1. Present(a).cards \in {<<>>, <<Still(<<"course", The(Selected(a)).text>>)>>}
      BY <1>4 DEF Present
    <2> QED BY <1>4, <2>1 DEF Row, Still
  <1>5. CASE a.route = "Data"
    <2>1. Present(a).cards = <<Row(<<"refresh">>, "Refresh", 0), Row(<<"clear">>, "Clear", 0)>>
      BY <1>5 DEF Present
    <2>2. k \in 1..2
      BY <2>1
    <2> QED BY <1>5, <2>1, <2>2 DEF Row
  <1> QED BY <1>1, <1>2, <1>3, <1>4, <1>5 DEF Routes

LEMMA GoesOK ==
    ASSUME NEW a, AppOK(a), NEW r \in Routes
    PROVE  LET b == Goes(a, r)
           IN  /\ AppOK(b) /\ b.route = r /\ b.history = Trail(a)
               /\ b.schedule = a.schedule /\ b.clock = a.clock /\ b.day = a.day
  <1> DEFINE b == Goes(a, r)
  <1>1. Append(a.history, a.route) \in Seq(Routes)
    BY SeqFacts DEF AppOK
  <1>2. /\ b.route = r /\ b.history = Trail(a)
        /\ b.schedule = a.schedule /\ b.clock = a.clock /\ b.day = a.day
        /\ b \in [route : Routes, history : Seq(Routes), schedule : Files,
                  clock : Days \cup {0}, day : Days \cup {0},
                  course : {b.course}, status : {b.status}]
    BY <1>1 DEF AppOK, Goes, Trail
  <1> HIDE DEF b
  <1> QED BY <1>2 DEF AppOK, b

\* A row opens a page of higher rank; only the day page takes a new day.
LEMMA OpenedOK ==
    ASSUME NEW a, AppOK(a), NEW k \in DOMAIN Present(a).cards, NEW row,
           row = Present(a).cards[k], row.kind \notin {"none", "Refresh", "Clear"}
    PROVE  LET b == Opened(a, row)
           IN  /\ AppOK(b) /\ Rank[a.route] < Rank[b.route] /\ b.history = Trail(a)
               /\ b.schedule = a.schedule /\ b.clock = a.clock
               /\ b.route # "Today" => b.day = a.day
  <1> DEFINE b == Opened(a, row)
  <1>1. \/ a.route = "Home" /\ row.kind \in {"Today", "Week", "Data"}
        \/ a.route = "Today" /\ row.kind = "Course"
        \/ a.route = "Week" /\ row.kind = "Day" /\ row.arg \in Days
    BY CardsOK DEF AppOK
  <1>2. "Today" \in Routes /\ "Week" \in Routes /\ "Data" \in Routes /\ "Detail" \in Routes
    BY DEF Routes
  <1>3. ASSUME NEW r \in Routes, Rank[a.route] < Rank[r], NEW c,
               c \in [route : Routes, history : Seq(Routes), schedule : Files,
                      clock : Days \cup {0}, day : Days \cup {0},
                      course : {c.course}, status : {c.status}],
               c.route = r, c.history = Trail(a), c.schedule = a.schedule,
               c.clock = a.clock, a.clock # 0 => c.day # 0, r # "Today" => c.day = a.day
        PROVE  /\ AppOK(c) /\ Rank[a.route] < Rank[c.route] /\ c.history = Trail(a)
               /\ c.schedule = a.schedule /\ c.clock = a.clock
               /\ c.route # "Today" => c.day = a.day
    BY <1>3 DEF AppOK
  <1>4. CASE a.route = "Home" /\ row.kind = "Week"
    <2>1. b = Goes(a, "Week")
      BY <1>4 DEF Opened
    <2>2. /\ AppOK(b) /\ b.route = "Week" /\ b.history = Trail(a)
          /\ b.schedule = a.schedule /\ b.clock = a.clock /\ b.day = a.day
      BY <1>2, <2>1, GoesOK
    <2> HIDE DEF b
    <2>3. Rank[a.route] < Rank[b.route]
      BY <1>4, <2>2, RankOK
    <2> QED BY <2>2, <2>3 DEF b
  <1>5. CASE a.route = "Home" /\ row.kind = "Today"
    <2> DEFINE g == Goes(a, "Today")
               c == [g EXCEPT !.day = IF a.clock = 0 THEN @ ELSE a.clock]
    <2>1. b = c
      BY <1>5 DEF Opened
    <2>2. /\ AppOK(g) /\ g.route = "Today" /\ g.history = Trail(a)
          /\ g.schedule = a.schedule /\ g.clock = a.clock
      BY <1>2, GoesOK
    <2> HIDE DEF g
    <2>3. /\ c.route = "Today" /\ c.history = Trail(a) /\ c.schedule = a.schedule
          /\ c.clock = a.clock
          /\ a.clock # 0 => c.day # 0
          /\ c \in [route : Routes, history : Seq(Routes), schedule : Files,
                    clock : Days \cup {0}, day : Days \cup {0},
                    course : {c.course}, status : {c.status}]
      BY <2>2 DEF AppOK
    <2> HIDE DEF b, c
    <2>4. Rank[a.route] < Rank["Today"]
      BY <1>5, RankOK
    <2>5. /\ AppOK(c) /\ Rank[a.route] < Rank[c.route] /\ c.history = Trail(a)
          /\ c.schedule = a.schedule /\ c.clock = a.clock
      BY <1>2, <1>3, <2>3, <2>4
    <2> QED BY <2>1, <2>3, <2>5 DEF b
  <1>6. CASE a.route = "Home" /\ row.kind = "Data"
    <2> DEFINE g == Goes(a, "Data")
               text == IF a.schedule = Empty THEN <<"empty">>
                       ELSE <<"holds", Cardinality(Courses(a.schedule))>>
               c == [g EXCEPT !.status = text]
    <2>1. b = c
      BY <1>6 DEF Opened
    <2>2. /\ AppOK(g) /\ g.route = "Data" /\ g.history = Trail(a)
          /\ g.schedule = a.schedule /\ g.clock = a.clock /\ g.day = a.day
      BY <1>2, GoesOK
    <2> HIDE DEF g, text
    <2>3. /\ c.route = "Data" /\ c.history = Trail(a) /\ c.schedule = a.schedule
          /\ c.clock = a.clock /\ c.day = a.day
          /\ c \in [route : Routes, history : Seq(Routes), schedule : Files,
                    clock : Days \cup {0}, day : Days \cup {0},
                    course : {c.course}, status : {c.status}]
      BY <2>2 DEF AppOK
    <2> HIDE DEF b, c
    <2>4. Rank[a.route] < Rank["Data"] /\ (a.clock # 0 => c.day # 0)
      BY <1>6, <2>3, RankOK DEF AppOK
    <2>5. /\ AppOK(c) /\ Rank[a.route] < Rank[c.route] /\ c.history = Trail(a)
          /\ c.schedule = a.schedule /\ c.clock = a.clock
      BY <1>2, <1>3, <2>3, <2>4
    <2> QED BY <2>1, <2>3, <2>5 DEF b
  <1>7. CASE a.route = "Week" /\ row.kind = "Day"
    <2> DEFINE g == Goes(a, "Today")
               c == [g EXCEPT !.day = row.arg]
    <2>1. b = c
      BY <1>7 DEF Opened
    <2>2. /\ AppOK(g) /\ g.route = "Today" /\ g.history = Trail(a)
          /\ g.schedule = a.schedule /\ g.clock = a.clock
      BY <1>2, GoesOK
    <2>3. row.arg \in Days /\ row.arg # 0
      BY <1>1, <1>7, DaysOK
    <2> HIDE DEF g
    <2>4. /\ c.route = "Today" /\ c.history = Trail(a) /\ c.schedule = a.schedule
          /\ c.clock = a.clock /\ c.day # 0
          /\ c \in [route : Routes, history : Seq(Routes), schedule : Files,
                    clock : Days \cup {0}, day : Days \cup {0},
                    course : {c.course}, status : {c.status}]
      BY <2>2, <2>3 DEF AppOK
    <2> HIDE DEF b, c
    <2>5. Rank[a.route] < Rank["Today"]
      BY <1>7, RankOK
    <2>6. /\ AppOK(c) /\ Rank[a.route] < Rank[c.route] /\ c.history = Trail(a)
          /\ c.schedule = a.schedule /\ c.clock = a.clock
      BY <1>2, <1>3, <2>4, <2>5
    <2> QED BY <2>1, <2>4, <2>6 DEF b
  <1>8. CASE a.route = "Today" /\ row.kind = "Course"
    <2> DEFINE g == Goes(a, "Detail")
               c == [g EXCEPT !.course = row.arg]
    <2>1. b = c
      BY <1>8 DEF Opened
    <2>2. /\ AppOK(g) /\ g.route = "Detail" /\ g.history = Trail(a)
          /\ g.schedule = a.schedule /\ g.clock = a.clock /\ g.day = a.day
      BY <1>2, GoesOK
    <2> HIDE DEF g
    <2>3. /\ c.route = "Detail" /\ c.history = Trail(a) /\ c.schedule = a.schedule
          /\ c.clock = a.clock /\ c.day = a.day
          /\ c \in [route : Routes, history : Seq(Routes), schedule : Files,
                    clock : Days \cup {0}, day : Days \cup {0},
                    course : {c.course}, status : {c.status}]
      BY <2>2 DEF AppOK
    <2> HIDE DEF b, c
    <2>4. Rank[a.route] < Rank["Detail"] /\ (a.clock # 0 => c.day # 0)
      BY <1>8, <2>3, RankOK DEF AppOK
    <2>5. /\ AppOK(c) /\ Rank[a.route] < Rank[c.route] /\ c.history = Trail(a)
          /\ c.schedule = a.schedule /\ c.clock = a.clock
      BY <1>2, <1>3, <2>3, <2>4
    <2> QED BY <2>1, <2>3, <2>5 DEF b
  <1> QED BY <1>1, <1>4, <1>5, <1>6, <1>7, <1>8

LEMMA BackedOK ==
    ASSUME NEW a, AppOK(a), IsPath(Trail(a)), a.route # "Home"
    PROVE  LET b == Backed(a)
           IN  /\ AppOK(b) /\ IsPath(Trail(b)) /\ Trail(b) = Below(Trail(a))
               /\ Len(Trail(a)) >= 2
               /\ b.schedule = a.schedule /\ b.clock = a.clock /\ b.day = a.day
  <1> DEFINE h == a.history
             q == Trail(a)
             b == Backed(a)
             x == Top(h)
             y == Below(h)
  <1>1. h \in Seq(Routes) /\ a.route \in Routes /\ Len(h) \in Nat /\ q = Append(h, a.route)
    BY SeqFacts DEF AppOK, Trail
  <1>2. Below(q) = h /\ Len(q) = Len(h) + 1 /\ (h = <<>> => q[1] = a.route)
    BY <1>1, SeqFacts
  <1>3. h # <<>>
    BY <1>2 DEF IsPath
  <1>4. x \in Routes /\ y \in Seq(Routes) /\ h = Append(y, x) /\ Len(h) >= 1
    BY <1>1, <1>3, SeqFacts
  <1>5. IsPath(h) /\ Len(q) >= 2
    <2>1. Len(q) >= 2
      BY <1>1, <1>2, <1>4
    <2> QED BY <1>2, <2>1, PathShrinks
  <1>6. b = [a EXCEPT !.route = x, !.history = y]
    BY <1>3 DEF Backed
  <1> HIDE DEF h, q, b, x, y
  <1>7. /\ b.route = x /\ b.history = y
        /\ b.schedule = a.schedule /\ b.clock = a.clock /\ b.day = a.day
        /\ b \in [route : Routes, history : Seq(Routes), schedule : Files,
                  clock : Days \cup {0}, day : Days \cup {0},
                  course : {b.course}, status : {b.status}]
    BY <1>4, <1>6 DEF AppOK
  <1>8. AppOK(b)
    BY <1>7 DEF AppOK
  <1>9. Trail(b) = h
    BY <1>4, <1>7 DEF Trail
  <1> QED BY <1>2, <1>5, <1>7, <1>8, <1>9 DEF b, q

LEMMA HandleBackOK ==
    ASSUME NEW s, StateOK(s), NEW p \in Routes, s.app.route = p, s.pages[p].active,
           p # "Home", IsPath(Trail(s.app)),
           NEW refused \in BOOLEAN, NEW v \in Worlds
    PROVE  LET t == HandleBack(s, p, refused, v)
           IN  IF refused THEN Stays(s, t, p) ELSE Leaves(s, t, p, Backed(s.app), "pop")
  <1> DEFINE a == Backed(s.app)
  <1>1. AppOK(a) /\ a.schedule = s.app.schedule /\ a.clock = s.app.clock /\ a.day = s.app.day
    BY BackedOK DEF StateOK
  <1>2. HandleBack(s, p, refused, v) = Moves(s, p, a, "pop", refused, v)
    BY DEF HandleBack
  <1>3. "pop" \in Ops
    BY DEF Ops
  <1> HIDE DEF a
  <1>4. LET t == Moves(s, p, a, "pop", refused, v)
        IN  IF refused THEN Stays(s, t, p) ELSE Leaves(s, t, p, a, "pop")
    BY <1>1, <1>3, MovesOK
  <1> QED BY <1>2, <1>4 DEF a

LEMMA EmptyFile == Empty \in Files
  BY FilesAssumption

LEMMA RefreshedKeeps ==
    ASSUME NEW s, StateOK(s), NEW v
    PROVE  KeptUp(s, Refreshed(s, v))
  <1> DEFINE r == Reload(s, s.disk)
             e == SetDataStatus(s, <<"not refreshed">>)
             n == SetDataStatus(r, <<"no file">>)
             k == SetDataStatus(r, <<"refreshed", Cardinality(Courses(s.disk))>>)
  <1>1. KeptUp(s, r)
    BY ReloadKeeps DEF StateOK
  <1>2. Refreshed(s, v) \in {e, n, k}
    <2>1. CASE v.load = "error"
      BY <2>1 DEF Refreshed
    <2>2. CASE v.load # "error" /\ s.disk = Empty
      BY <2>2 DEF Refreshed
    <2>3. CASE v.load # "error" /\ s.disk # Empty
      BY <2>3 DEF Refreshed
    <2> QED BY <2>1, <2>2, <2>3
  <1> HIDE DEF r
  <1>3. StateOK(r)
    BY <1>1 DEF KeptUp
  <1>4. KeptUp(s, e) /\ KeptUp(r, n) /\ KeptUp(r, k)
    BY <1>3, StatusKeeps
  <1> HIDE DEF e, n, k
  <1> QED BY <1>1, <1>2, <1>4, KeptUpSteps

LEMMA ClearedKeeps ==
    ASSUME NEW s, StateOK(s), NEW v
    PROVE  KeptUp(s, Cleared(s, v))
  <1> DEFINE c == [s EXCEPT !.disk = Empty]
             r == Reload(c, Empty)
             e == SetDataStatus(s, <<"not cleared">>)
             k == SetDataStatus(r, <<"cleared">>)
  <1>1. KeptUp(s, c)
    <2>1. StateOK(c) /\ c.op = s.op /\ c.app = s.app /\ c.pages = s.pages
      BY EmptyFile, PutDisk
    <2> HIDE DEF c
    <2> QED BY <2>1 DEF KeptUp, DayKept, SameFace
  <1>2. Cleared(s, v) = IF v.load = "error" THEN e ELSE k
    BY DEF Cleared
  <1> HIDE DEF c
  <1>3. KeptUp(c, r)
    BY <1>1, EmptyFile, ReloadKeeps DEF KeptUp
  <1> HIDE DEF r
  <1>4. KeptUp(s, e) /\ KeptUp(r, k)
    BY <1>3, StatusKeeps DEF KeptUp
  <1> HIDE DEF e, k
  <1> QED BY <1>1, <1>2, <1>3, <1>4, KeptUpSteps

\* The row stays on its page or opens one that is not there yet.
LEMMA HandleActionOK ==
    ASSUME NEW s, StateOK(s), NEW p \in Routes, s.app.route = p,
           Shown(s.pages[p]), s.pages[p].pressed = {},
           p = "Home" => ~s.pages["Today"].active,
           \A r \in Routes : Rank[p] < Rank[r] => ~s.pages[r].active,
           NEW k \in DOMAIN Present(s.app).cards, NEW row,
           row = Present(s.app).cards[k], row.kind # "none",
           NEW refused \in BOOLEAN, NEW v \in Worlds
    PROVE  LET t == HandleAction(s, p, row, refused, v)
               a == Opened(s.app, row)
           IN  \/ Stays(s, t, p)
               \/ /\ Leaves(s, t, p, a, a.route) /\ a.route \in Routes
                  /\ a.history = Trail(s.app) /\ Rank[p] < Rank[a.route]
  <1>1. CASE row.kind = "Refresh"
    <2>1. HandleAction(s, p, row, refused, v) = Refreshed(s, v)
      BY <1>1 DEF HandleAction
    <2>2. KeptUp(s, Refreshed(s, v))
      BY RefreshedKeeps
    <2> QED BY <2>1, <2>2, KeptUpStays
  <1>2. CASE row.kind = "Clear"
    <2>1. HandleAction(s, p, row, refused, v) = Cleared(s, v)
      BY <1>2 DEF HandleAction
    <2>2. KeptUp(s, Cleared(s, v))
      BY ClearedKeeps
    <2> QED BY <2>1, <2>2, KeptUpStays
  <1>3. CASE row.kind \notin {"Refresh", "Clear"}
    <2> DEFINE a == Opened(s.app, row)
    <2>1. HandleAction(s, p, row, refused, v) = Moves(s, p, a, a.route, refused, v)
      BY <1>3 DEF HandleAction
    <2>2. /\ AppOK(a) /\ Rank[p] < Rank[a.route] /\ a.history = Trail(s.app)
          /\ a.schedule = s.app.schedule /\ a.clock = s.app.clock
          /\ a.route # "Today" => a.day = s.app.day
      BY <1>3, OpenedOK DEF StateOK
    <2> HIDE DEF a
    <2>3. a.route \in Routes /\ a.route \in Ops
      BY <2>2 DEF AppOK, Ops
    <2>4. s.pages["Today"].active => a.day = s.app.day
      BY <2>2, <2>3
    <2>5. s.pages[p].active
      BY DEF Shown
    <2>6. LET t == Moves(s, p, a, a.route, refused, v)
          IN  IF refused THEN Stays(s, t, p) ELSE Leaves(s, t, p, a, a.route)
      BY <2>2, <2>3, <2>4, <2>5, MovesOK
    <2> QED BY <2>1, <2>2, <2>3, <2>6 DEF a
  <1> QED BY <1>1, <1>2, <1>3

\* What is drawn at the end of a callback changes neither.
LEMMA RenderStays ==
    ASSUME NEW s, NEW t, NEW p \in Routes, NEW q \in Routes, NEW w, Stays(s, t, p)
    PROVE  Stays(s, Render(t, q, w), p)
  <1> DEFINE d == Render(t, q, w)
  <1>1. /\ StateOK(d) /\ d.app = t.app /\ d.op = t.op
        /\ \A r \in Routes : SameFace(t.pages[r], d.pages[r])
    BY RenderKeeps DEF Stays
  <1> HIDE DEF d
  <1>2. \A r \in Routes \ {p} : SameFace(s.pages[r], d.pages[r])
    BY <1>1 DEF Stays, SameFace
  <1>3. SameFace(t.pages[p], d.pages[p])
    BY <1>1
  <1>4. Shown(d.pages[p])
    BY <1>3, Zenon DEF Stays, SameFace, Shown
  <1>5. /\ d.pages[p].pressed = {}
        /\ "busy" \notin FaultKinds /\ s.pages[p].timer => d.pages[p].timer
    BY <1>3 DEF Stays, SameFace
  <1>6. DayKept(s, d)
    BY <1>1 DEF Stays, DayKept
  <1> SUFFICES Stays(s, d, p)
    BY DEF d
  <1> QED BY <1>1, <1>2, <1>4, <1>5, <1>6 DEF Stays

LEMMA RenderLeaves ==
    ASSUME NEW s, NEW t, NEW p \in Routes, NEW w, NEW a, NEW how, Leaves(s, t, p, a, how)
    PROVE  Leaves(s, Render(t, p, w), p, a, how)
  <1> DEFINE d == Render(t, p, w)
  <1>1. /\ StateOK(d) /\ d.app = t.app /\ d.op = t.op
        /\ \A r \in Routes : SameFace(t.pages[r], d.pages[r])
    BY RenderKeeps DEF Leaves
  <1> HIDE DEF d
  <1>2. \A r \in Routes \ {p} : SameFace(s.pages[r], d.pages[r])
    BY <1>1 DEF Leaves, SameFace
  <1>3. SameFace(t.pages[p], d.pages[p])
    BY <1>1
  <1>4. Rests(d.pages[p]) /\ d.pages[p].active
    BY <1>3 DEF Leaves, SameFace, Rests
  <1>6. DayKept(s, d)
    BY <1>1 DEF Leaves, DayKept
  <1> SUFFICES Leaves(s, d, p, a, how)
    BY DEF d
  <1> QED BY <1>1, <1>2, <1>4, <1>6 DEF Leaves

-----------------------------------------------------------------------------
(* Each action                                                             *)

StaysStep ==
    InSeq(stack) \cap InSeq(stack') \cap {"Today"} # {} /\ app.day # 0 =>
        app.day' = app.day
TimerStep == "busy" \notin FaultKinds /\ TopHasTimer => TopHasTimer'
StepOK == PagesInv' /\ StaysStep /\ TimerStep

\* A lit page at rest in the sense of OnlyTopRuns.
Quietly == \A r \in Routes : \/ Rests(pages[r])
                             \/ /\ Shown(pages[r]) /\ pages[r].pressed = {}
                                /\ Idle /\ awake /\ r = Top(stack)

LEMMA InvFacts ==
    ASSUME PagesInv
    PROVE  /\ StateOK(S) /\ S.app = app /\ S.pages = pages /\ S.op = op
           /\ AppOK(app) /\ op \in Ops /\ stack \in Seq(Routes)
           /\ \A r \in Routes : PageOK(pages[r])
           /\ stack # <<>> => /\ IsPath(stack) /\ Top(stack) \in Routes
                              /\ pages[Top(stack)].active
           /\ stack # <<>> /\ Top(stack) = "Home" => ~pages["Today"].active
           /\ Idle => Trail(app) = stack /\ app.route = Top(stack)
                      /\ app.history = Below(stack)
           /\ \A r \in Routes : ~Idle \/ ~awake \/ r # Top(stack) => Rests(pages[r])
           /\ Idle => Steady(S)
  <1>1. StateOK(S) /\ S.app = app /\ S.pages = pages /\ S.op = op
    BY DEF PagesInv, S
  <1>2. /\ AppOK(app) /\ op \in Ops /\ stack \in Seq(Routes)
        /\ \A r \in Routes : PageOK(pages[r])
    <2>1. op \in Ops
      BY <1>1 DEF StateOK
    <2> QED BY <1>1, <2>1 DEF StateOK, PagesInv
  <1>3. stack # <<>> => /\ IsPath(stack) /\ Top(stack) \in Routes
                        /\ pages[Top(stack)].active
    <2> SUFFICES ASSUME stack # <<>>
                 PROVE  IsPath(stack) /\ Top(stack) \in Routes /\ pages[Top(stack)].active
      OBVIOUS
    <2>1. IsPath(stack)
      BY DEF PagesInv, TrailAgrees
    <2>2. Top(stack) \in Routes /\ Top(stack) \in InSeq(stack)
      BY <1>2, SeqFacts, InSeqFacts
    <2> QED BY <2>1, <2>2 DEF PagesInv, ActiveOnStack
  <1>4. stack # <<>> /\ Top(stack) = "Home" => ~pages["Today"].active
    <2> SUFFICES ASSUME stack # <<>>, Top(stack) = "Home"
                 PROVE  ~pages["Today"].active
      OBVIOUS
    <2>1. Len(stack) = 1 /\ \A r : r \in InSeq(stack) <=> \E k \in 1..Len(stack) : stack[k] = r
      BY <1>2, <1>3, PathShrinks, InSeqFacts
    <2>2. "Today" \notin InSeq(stack)
      BY <2>1 DEF Top
    <2> QED BY <2>2 DEF PagesInv, ActiveOnStack, Routes
  <1>5. Idle => Trail(app) = stack /\ app.route = Top(stack)
                /\ app.history = Below(stack)
    <2>1. Top(Trail(app)) = app.route /\ Below(Trail(app)) = app.history
      BY <1>2, SeqFacts DEF AppOK, Trail
    <2> QED BY <2>1 DEF PagesInv, TrailAgrees, Idle
  <1>6. \A r \in Routes : ~Idle \/ ~awake \/ r # Top(stack) => Rests(pages[r])
    <2> SUFFICES ASSUME NEW r \in Routes, ~Idle \/ ~awake \/ r # Top(stack)
                 PROVE  Rests(pages[r])
      OBVIOUS
    <2>1. ~Shown(pages[r]) /\ ~pages[r].timer /\ pages[r].pressed = {}
      BY DEF PagesInv, OnlyTopRuns
    <2> QED BY <1>2, <2>1 DEF PageOK, Shown, Rests
  <1>7. Idle => Steady(S)
    BY <1>1, <1>4, <1>5 DEF Steady, Idle
  <1> QED BY <1>1, <1>2, <1>3, <1>4, <1>5, <1>6, <1>7

\* S is a record of the variables.
LEMMA RecordOK ==
    ASSUME NEW t, StateOK(t)
    PROVE  StateOK([app |-> t.app, pages |-> t.pages, disk |-> t.disk,
                    dirty |-> t.dirty, op |-> t.op])
  <1> DEFINE u == [app |-> t.app, pages |-> t.pages, disk |-> t.disk,
                   dirty |-> t.dirty, op |-> t.op]
  <1>1. /\ u.app = t.app /\ u.pages = t.pages
        /\ u \in [app : {u.app}, pages : {u.pages}, disk : Files,
                  dirty : BOOLEAN, op : Ops]
    BY DEF StateOK
  <1> HIDE DEF u
  <1>2. StateOK(u)
    BY <1>1, PutRest
  <1> QED BY <1>2 DEF u

LEMMA QuietlyOK ==
    ASSUME Quietly'
    PROVE  OnlyTopRuns' /\ FingerSeen'
  <1>1. ASSUME NEW r \in Routes
        PROVE  /\ pages'[r].pressed = {}
               /\ Shown(pages'[r]) \/ pages'[r].timer =>
                      Idle' /\ awake' /\ r = Top(stack') /\ Shown(pages'[r])
    BY DEF Quietly, Rests, Shown
  <1>2. OnlyTopRuns'
    BY <1>1 DEF OnlyTopRuns
  <1>3. FingerSeen'
    BY <1>1 DEF FingerSeen
  <1> QED BY <1>2, <1>3

LEMMA DayStays ==
    ASSUME PagesInv, NEW t, DayKept(S, t), app' = t.app
    PROVE  StaysStep
  <1>1. "Today" \in InSeq(stack) => pages["Today"].active
    BY DEF PagesInv, ActiveOnStack, Routes
  <1>2. S.app = app /\ S.pages = pages
    BY DEF S
  <1> QED BY <1>1, <1>2 DEF DayKept, StaysStep

LEMMA PushesOK ==
    ASSUME PagesInv, ~Idle, NEW p \in Routes, p \notin InSeq(stack),
           IsPath(Append(stack, p)), Arrived(app, p) = stack,
           p = "Home" => stack = <<>>,
           NEW w \in Worlds, NEW v \in Worlds, Pushes(p, w, v)
    PROVE  StepOK
  <1> DEFINE below == IF stack = <<>> THEN S ELSE PagePause(S, Top(stack))
             free == [below EXCEPT !.op = "none"]
             made == PageCreate(free, p, w)
             t == PageResume(made, p, v)
  <1>1. /\ app' = t.app /\ pages' = t.pages /\ disk' = t.disk /\ dirty' = t.dirty
        /\ op' = t.op /\ stack' = Append(stack, p) /\ awake' = awake
        /\ finger' = {} /\ acted' = {}
    BY DEF Pushes, Puts, Quiet, t, made, free, below
  <1>2. /\ StateOK(S) /\ S.app = app /\ S.pages = pages /\ stack \in Seq(Routes)
        /\ stack # <<>> => Top(stack) \in Routes
        /\ \A r \in Routes : Rests(pages[r])
    BY InvFacts
  <1>3. \A r \in Routes : pages[r].active <=> r \in InSeq(stack)
    BY DEF PagesInv, ActiveOnStack
  <1>4. /\ StateOK(below) /\ below.app = app
        /\ \A r \in Routes : /\ Rests(below.pages[r])
                             /\ below.pages[r].active <=> r \in InSeq(stack)
    <2>1. CASE stack = <<>>
      BY <1>2, <1>3, <2>1
    <2>2. CASE stack # <<>>
      <3> DEFINE b == PagePause(S, Top(stack))
      <3>1. /\ OnlyPage(S, b, Top(stack)) /\ Rests(b.pages[Top(stack)])
            /\ b.pages[Top(stack)].active = pages[Top(stack)].active
        BY <1>2, <2>2, PauseOK
      <3>2. below = b
        BY <2>2
      <3> HIDE DEF b, below
      <3>3. StateOK(b) /\ b.app = app /\ \A r \in Routes \ {Top(stack)} : b.pages[r] = pages[r]
        BY <1>2, <3>1 DEF OnlyPage
      <3>4. \A r \in Routes : /\ Rests(b.pages[r])
                              /\ b.pages[r].active <=> r \in InSeq(stack)
        BY <1>2, <1>3, <3>1, <3>3
      <3> QED BY <3>2, <3>3, <3>4
    <2> QED BY <2>1, <2>2
  <1> HIDE DEF below
  <1>5. /\ StateOK(free) /\ free.op = "none" /\ free.app = app
        /\ free.pages = below.pages
    BY <1>4, PutOp DEF Ops
  <1> HIDE DEF free
  <1>6. /\ ~free.pages[p].active
        /\ p = "Home" => ~free.pages["Today"].active
    <2>1. \A r \in Routes : free.pages[r].active <=> r \in InSeq(stack)
      BY <1>4, <1>5
    <2>2. stack = <<>> => InSeq(stack) = {}
      BY DEF InSeq
    <2> QED BY <2>1, <2>2 DEF Routes
  <1>7. Entered(free, made, p, w) /\ made.pages[p].pressed = {}
    BY <1>2, <1>5, <1>6, CreateOK
  <1> HIDE DEF made
  <1>8. /\ StateOK(made) /\ made.pages[p].active /\ made.app.route = p
        /\ made.app.history = stack /\ Arrived(made.app, p) = stack
        /\ p = "Home" => ~made.pages["Today"].active
    <2>1. StateOK(made) /\ made.pages[p].active /\ made.app.route = p /\ made.app.history = stack
      BY <1>5, <1>7 DEF Entered, Shown
    <2>2. p = "Home" => ~made.pages["Today"].active
      BY <1>6, <1>7 DEF Entered, SameFace, Routes
    <2> QED BY <2>1, <2>2 DEF Arrived
  <1>9. Entered(made, t, p, v)
    BY <1>2, <1>8, ResumeOK
  <1> HIDE DEF t
  <1>10. /\ StateOK(t) /\ t.op = "none" /\ t.app.route = p /\ t.app.history = stack
         /\ Shown(t.pages[p]) /\ t.pages[p].pressed = {}
         /\ "busy" \notin FaultKinds => t.pages[p].timer
    <2>1. t.op = "none" /\ t.app.history = stack /\ t.pages[p].pressed = {}
      BY <1>5, <1>7, <1>8, <1>9 DEF Entered
    <2>2. "busy" \notin FaultKinds => t.pages[p].timer
      BY <1>9, DrawsUnlessBusy DEF Entered
    <2> QED BY <1>9, <2>1, <2>2 DEF Entered
  <1>11. ASSUME NEW r \in Routes \ {p}
         PROVE  Rests(t.pages[r]) /\ (t.pages[r].active <=> r \in InSeq(stack))
    <2>1. SameFace(free.pages[r], made.pages[r]) /\ SameFace(made.pages[r], t.pages[r])
      BY <1>7, <1>9 DEF Entered
    <2>2. Rests(free.pages[r]) /\ (free.pages[r].active <=> r \in InSeq(stack))
      BY <1>4, <1>5
    <2> QED BY <2>1, <2>2 DEF SameFace, Rests
  <1>12. DayKept(S, t)
    <2>1. CASE p = "Today"
      BY <1>2, <1>3, <2>1 DEF DayKept
    <2>2. CASE p # "Today"
      <3>1. "Today" \in Routes \ {p}
        BY <2>2 DEF Routes
      <3>2. pages["Today"].active => free.pages["Today"].active /\ made.pages["Today"].active
        BY <1>3, <1>4, <1>5, <1>7, <3>1 DEF Entered, SameFace
      <3>3. DayKept(free, made) /\ DayKept(made, t)
        BY <1>7, <1>9 DEF Entered
      <3> QED BY <1>2, <1>5, <3>2, <3>3 DEF DayKept
    <2> QED BY <2>1, <2>2
  <1>13. StateOK(S')
    BY <1>1, <1>10, RecordOK DEF S
  <1>14. /\ stack' \in Seq(Routes) /\ stack' # <<>> /\ Top(stack') = p
         /\ InSeq(stack') = InSeq(stack) \cup {p} /\ Trail(app') = stack'
    BY <1>1, <1>2, <1>10, SeqFacts, InSeqFacts DEF Trail
  <1>15. awake /\ awake' = TRUE
    BY <1>1 DEF PagesInv
  <1>16. Idle' /\ op' = "none"
    BY <1>1, <1>10, <1>14 DEF Idle
  <1>17. TrailAgrees(app, op, stack)'
    BY <1>1, <1>14, <1>16 DEF TrailAgrees, Routes
  <1>18. ActiveOnStack'
    <2>1. t.pages[p].active
      BY <1>10 DEF Shown
    <2> QED BY <1>1, <1>11, <1>14, <2>1 DEF ActiveOnStack
  <1>19. Quietly'
    BY <1>1, <1>10, <1>11, <1>14, <1>15, <1>16 DEF Quietly
  <1>20. OnlyTopRuns' /\ FingerSeen'
    BY <1>19, QuietlyOK
  <1>21. PagesInv'
    BY <1>1, <1>13, <1>14, <1>15, <1>16, <1>17, <1>18, <1>20 DEF PagesInv, ClickIsPressed
  <1>22. StaysStep
    BY <1>1, <1>12, DayStays
  <1>23. TimerStep
    BY <1>1, <1>10, <1>14 DEF TimerStep, TopHasTimer
  <1> QED BY <1>21, <1>22, <1>23 DEF StepOK

LEMMA WorldsOK ==
    /\ First \subseteq Worlds
    /\ \A w : Second(w) \subseteq Worlds
  BY DEF First, Second, Outcomes

LEMMA LaunchOK ==
    ASSUME PagesInv, Launch
    PROVE  StepOK
  <1> DEFINE h == app.history
  <1>1. stack = <<>> /\ ~Idle
    BY DEF Launch, Idle
  <1>2. PICK w \in First : \E v \in Second(w) : Pushes("Home", w, v)
    BY DEF Launch
  <1>3. PICK v \in Second(w) : Pushes("Home", w, v)
    BY <1>2
  <1>4. AppOK(app) /\ IsPath(Trail(app)) /\ stack \in Seq(Routes)
    BY InvFacts DEF PagesInv, TrailAgrees
  <1>5. "Home" \in Routes /\ "Home" \notin InSeq(stack)
    BY <1>1 DEF Routes, InSeq
  <1>6. IsPath(Append(stack, "Home"))
    <2>1. /\ <<"Home">> \in Seq(Routes) /\ <<"Home">> # <<>> /\ <<"Home">>[1] = "Home"
          /\ DOMAIN <<"Home">> = {1}
      BY <1>5
    <2>2. Append(stack, "Home") = <<"Home">>
      BY <1>1
    <2>3. IsPath(<<"Home">>)
      BY <2>1 DEF IsPath
    <2> QED BY <2>2, <2>3
  <1>7. Arrived(app, "Home") = stack
    <2>1. /\ h \in Seq(Routes) /\ app.route \in Routes /\ Len(h) \in Nat
          /\ Len(Trail(app)) = Len(h) + 1 /\ Top(Trail(app)) = app.route
          /\ \A i \in 1..Len(h) : Trail(app)[i] = h[i]
          /\ Trail(app)[Len(h) + 1] = app.route
      BY <1>4, SeqFacts DEF AppOK, Trail
    <2>2. Trail(app)[1] = "Home"
      BY <1>4 DEF IsPath
    <2>3. CASE app.route = "Home"
      <3>1. Len(Trail(app)) = 1
        BY <1>4, <2>1, <2>3, PathShrinks
      <3>2. h = <<>>
        <4> DEFINE n == Len(h)
        <4>1. n \in Nat /\ n + 1 = 1
          BY <2>1, <3>1
        <4> HIDE DEF n
        <4>2. n = 0
          BY <4>1
        <4> HIDE DEF h
        <4>3. h \in Seq(Routes) /\ Len(h) = 0
          BY <2>1, <4>2 DEF n
        <4> QED BY <4>3
      <3> QED BY <1>1, <2>3, <3>2 DEF Arrived
    <2>4. CASE app.route # "Home"
      <3>1. Len(h) # 0
        BY <2>1, <2>2, <2>4
      <3>2. 1 \in 1..Len(h) /\ h[1] = "Home"
        BY <2>1, <2>2, <3>1
      <3>3. Rewound(h, "Home") = SubSeq(h, 1, 1 - 1)
        BY <1>4, <3>2, RewoundOK
      <3>4. SubSeq(h, 1, 0) = <<>>
        BY <2>1
      <3> QED BY <1>1, <2>4, <3>3, <3>4 DEF Arrived
    <2> QED BY <2>3, <2>4
  <1>8. w \in Worlds /\ v \in Worlds
    BY <1>2, <1>3, WorldsOK
  <1> QED BY <1>1, <1>3, <1>5, <1>6, <1>7, <1>8, PushesOK

LEMMA CarryOutPushOK ==
    ASSUME PagesInv, CarryOutPush
    PROVE  StepOK
  <1>1. op \in Routes /\ ~Idle
    BY DEF CarryOutPush, Idle, Routes
  <1>2. PICK w \in First : \E v \in Second(w) : Pushes(op, w, v)
    BY DEF CarryOutPush
  <1>3. PICK v \in Second(w) : Pushes(op, w, v)
    BY <1>2
  <1>4. /\ AppOK(app) /\ stack \in Seq(Routes)
        /\ stack # <<>> /\ Trail(app) = Append(stack, op) /\ IsPath(Trail(app))
    <2>1. op # "none" /\ op # "pop"
      BY <1>1 DEF Routes
    <2> QED BY <1>1, InvFacts DEF PagesInv, TrailAgrees
  <1>5. app.route = op /\ app.history = stack
    <2>1. Top(Trail(app)) = app.route /\ Below(Trail(app)) = app.history
      BY <1>4, SeqFacts DEF AppOK, Trail
    <2>2. Top(Trail(app)) = op /\ Below(Trail(app)) = stack
      BY <1>1, <1>4, SeqFacts
    <2> QED BY <2>1, <2>2
  <1>6. op \notin InSeq(stack)
    <2>1. InSeq(Below(Trail(app))) = InSeq(Trail(app)) \ {Top(Trail(app))}
      BY <1>4, PathShrinks
    <2>2. Below(Trail(app)) = stack /\ Top(Trail(app)) = op
      BY <1>1, <1>4, SeqFacts
    <2> QED BY <2>1, <2>2
  <1>7. op # "Home"
    <2>1. 1 \in 1..Len(stack) /\ stack[1] = "Home"
      <3>1. stack[1] = "Home" /\ Len(stack) \in Nat /\ Len(stack) >= 1
        BY <1>4, SeqFacts DEF PagesInv, TrailAgrees, IsPath
      <3> QED BY <3>1
    <2>2. "Home" \in InSeq(stack)
      BY <1>4, <2>1, InSeqFacts
    <2> QED BY <1>6, <2>2
  <1>8. w \in Worlds /\ v \in Worlds
    BY <1>2, <1>3, WorldsOK
  <1>9. Arrived(app, op) = stack
    BY <1>5 DEF Arrived
  <1> QED BY <1>1, <1>3, <1>4, <1>6, <1>7, <1>8, <1>9, PushesOK

LEMMA PopsOK ==
    ASSUME PagesInv, stack # <<>>, awake,
           Len(stack) >= 2 => Arrived(app, Top(Below(stack))) = Below(Below(stack)),
           NEW w \in Worlds, Pops(w)
    PROVE  StepOK
  <1> DEFINE p == Top(stack)
             b == Below(stack)
             q == Top(b)
             free == [S EXCEPT !.op = "none"]
             still == PagePause(free, p)
             gone == PageDestroy(still, p)
             t == IF Len(stack) = 1 THEN gone ELSE PageResume(gone, q, w)
  <1>1. /\ StateOK(S) /\ S.app = app /\ S.pages = pages /\ stack \in Seq(Routes)
        /\ p \in Routes /\ IsPath(stack)
        /\ \A r \in Routes \ {p} : Rests(pages[r])
    BY InvFacts
  <1>2. /\ b \in Seq(Routes) /\ Len(b) = Len(stack) - 1 /\ Len(stack) >= 1
        /\ InSeq(b) = InSeq(stack) \ {p} /\ Len(stack) \in Nat
        /\ Len(stack) >= 2 => q = stack[Len(stack) - 1] /\ IsPath(b)
    BY <1>1, SeqFacts, PathShrinks
  <1>3. /\ app' = t.app /\ pages' = t.pages /\ disk' = t.disk /\ dirty' = t.dirty
        /\ op' = t.op /\ stack' = b /\ awake' = awake
        /\ finger' = {} /\ acted' = {}
    <2>1. /\ \E u \in {IF Len(stack) = 1 THEN gone
                       ELSE PageResume(gone, stack[Len(stack) - 1], w)} :
                 /\ app' = u.app /\ pages' = u.pages /\ disk' = u.disk
                 /\ dirty' = u.dirty /\ op' = u.op
          /\ stack' = b /\ awake' = awake /\ finger' = {} /\ acted' = {}
      BY DEF Pops, Puts, Quiet
    <2>2. t = IF Len(stack) = 1 THEN gone ELSE PageResume(gone, stack[Len(stack) - 1], w)
      BY <1>2
    <2> HIDE DEF t, gone, b
    <2> QED BY <2>1, <2>2
  <1> HIDE DEF p, b, q
  <1>4. \A r \in Routes : pages[r].active <=> r \in InSeq(stack)
    BY DEF PagesInv, ActiveOnStack
  <1>5. /\ StateOK(free) /\ free.op = "none" /\ free.app = app
        /\ free.pages = pages
    BY <1>1, PutOp DEF Ops
  <1> HIDE DEF free
  <1>6. OnlyPage(free, still, p)
    BY <1>1, <1>5, PauseOK
  <1> HIDE DEF still
  <1>7. OnlyPage(still, gone, p) /\ Rests(gone.pages[p]) /\ ~gone.pages[p].active
    BY <1>1, <1>6, DestroyOK DEF OnlyPage
  <1> HIDE DEF gone
  <1>8. StateOK(gone) /\ gone.op = "none" /\ gone.app = app
    BY <1>5, <1>6, <1>7 DEF OnlyPage
  <1>9. ASSUME NEW r \in Routes
        PROVE  Rests(gone.pages[r]) /\ (gone.pages[r].active <=> r \in InSeq(b))
    <2>1. CASE r = p
      BY <1>2, <1>7, <2>1
    <2>2. CASE r # p
      BY <1>1, <1>2, <1>4, <1>5, <1>6, <1>7, <2>2 DEF OnlyPage
    <2> QED BY <2>1, <2>2
  <1>10. DayKept(S, gone)
    BY <1>1, <1>8 DEF DayKept
  <1>11. CASE Len(stack) = 1
    <2>1. stack' = <<>>
      BY <1>2, <1>3, <1>11
    <2>2. t = gone
      BY <1>11
    <2> HIDE DEF t
    <2>3. StateOK(S')
      BY <1>3, <1>8, <2>2, RecordOK DEF S
    <2>4. app' = app /\ op' = "none" /\ awake' = TRUE
      BY <1>3, <1>8, <2>2 DEF PagesInv
    <2>5. TrailAgrees(app, op, stack)'
      <3>1. IsPath(Trail(app))
        BY DEF PagesInv, TrailAgrees
      <3> QED BY <2>1, <2>4, <3>1 DEF TrailAgrees, Routes
    <2>6. ActiveOnStack'
      BY <1>3, <1>9, <2>2 DEF ActiveOnStack
    <2>7. Quietly'
      BY <1>3, <1>9, <2>2 DEF Quietly
    <2>8. OnlyTopRuns' /\ FingerSeen'
      BY <2>7, QuietlyOK
    <2>9. PagesInv'
      BY <1>2, <1>3, <2>3, <2>4, <2>5, <2>6, <2>8 DEF PagesInv, ClickIsPressed
    <2>10. StaysStep
      BY <1>3, <1>10, <2>2, DayStays
    <2>11. TimerStep
      BY <2>1 DEF TimerStep, TopHasTimer, Idle
    <2> QED BY <2>9, <2>10, <2>11 DEF StepOK
  <1>12. CASE Len(stack) # 1
    <2>0. Len(stack) >= 2 /\ b # <<>>
      BY <1>2, <1>12
    <2>1. t = PageResume(gone, q, w)
      BY <1>12
    <2> HIDE DEF t
    <2>2. q \in Routes /\ q \in InSeq(b) /\ Below(b) \in Seq(Routes) /\ b = Append(Below(b), q)
      BY <1>2, <2>0, SeqFacts, InSeqFacts DEF q
    <2>3. Arrived(gone.app, q) = Below(b)
      BY <1>8, <2>0 DEF q, b
    <2>4. q = "Home" => ~gone.pages["Today"].active
      <3>1. q = "Home" => Len(b) = 1
        BY <1>2, <2>0, PathShrinks DEF q
      <3>2. q = "Home" => "Today" \notin InSeq(b)
        <4>1. \A r : r \in InSeq(b) <=> \E k \in 1..Len(b) : b[k] = r
          BY <1>2, InSeqFacts
        <4>2. q = b[Len(b)]
          BY DEF q, Top
        <4>3. ASSUME q = "Home", NEW k \in 1..Len(b) PROVE b[k] = "Home"
          <5> DEFINE n == Len(b)
          <5>1. k \in 1..n /\ n = 1
            BY <3>1, <4>3
          <5> HIDE DEF n
          <5>2. k = n
            BY <5>1
          <5> QED BY <4>2, <4>3, <5>2 DEF n
        <4> QED BY <4>1, <4>3
      <3> QED BY <1>9, <3>2 DEF Routes
    <2>5. Entered(gone, t, q, w)
      BY <1>8, <1>9, <2>1, <2>2, <2>3, <2>4, ResumeOK
    <2>6. /\ StateOK(t) /\ t.op = "none" /\ t.app.route = q /\ t.app.history = Below(b)
          /\ Shown(t.pages[q]) /\ t.pages[q].pressed = {}
          /\ "busy" \notin FaultKinds => t.pages[q].timer
      <3>1. t.op = "none" /\ t.app.history = Below(b) /\ t.pages[q].pressed = {}
        BY <1>8, <1>9, <2>2, <2>3, <2>5 DEF Entered, Rests
      <3>2. "busy" \notin FaultKinds => t.pages[q].timer
        BY <2>5, DrawsUnlessBusy DEF Entered
      <3> QED BY <2>5, <3>1, <3>2 DEF Entered
    <2>7. ASSUME NEW r \in Routes \ {q}
          PROVE  Rests(t.pages[r]) /\ (t.pages[r].active <=> r \in InSeq(b))
      <3>1. SameFace(gone.pages[r], t.pages[r])
        BY <2>5 DEF Entered
      <3>2. Rests(gone.pages[r]) /\ (gone.pages[r].active <=> r \in InSeq(b))
        BY <1>9
      <3> QED BY <3>1, <3>2 DEF SameFace, Rests
    <2>8. StaysStep
      <3>1. "Today" \in InSeq(b) => gone.pages["Today"].active
        BY <1>9 DEF Routes
      <3>2. DayKept(gone, t)
        BY <2>5 DEF Entered
      <3> QED BY <1>3, <1>8, <3>1, <3>2 DEF StaysStep, DayKept
    <2>9. StateOK(S')
      BY <1>3, <2>6, RecordOK DEF S
    <2>10. Trail(app') = b /\ Top(stack') = q /\ stack' # <<>>
      BY <1>3, <2>0, <2>2, <2>6 DEF Trail, q
    <2>11. awake' = TRUE /\ op' = "none" /\ Idle'
      BY <1>3, <2>6, <2>10 DEF Idle, PagesInv
    <2>12. TrailAgrees(app, op, stack)'
      BY <1>2, <1>3, <2>0, <2>10, <2>11 DEF TrailAgrees, Routes
    <2>13. ActiveOnStack'
      <3>1. t.pages[q].active
        BY <2>6 DEF Shown
      <3> QED BY <1>3, <2>2, <2>7, <3>1 DEF ActiveOnStack
    <2>14. Quietly'
      BY <1>3, <2>6, <2>7, <2>10, <2>11 DEF Quietly
    <2>15. OnlyTopRuns' /\ FingerSeen'
      BY <2>14, QuietlyOK
    <2>16. PagesInv'
      BY <1>2, <1>3, <2>9, <2>11, <2>12, <2>13, <2>15 DEF PagesInv, ClickIsPressed
    <2>17. TimerStep
      BY <1>3, <2>6, <2>10 DEF TimerStep, TopHasTimer
    <2> QED BY <2>8, <2>16, <2>17 DEF StepOK
  <1> QED BY <1>11, <1>12

LEMMA CarryOutPopOK ==
    ASSUME PagesInv, CarryOutPop
    PROVE  StepOK
  <1> DEFINE b == Below(stack)
  <1>1. op = "pop" /\ ~Idle
    BY DEF CarryOutPop, Idle
  <1>2. PICK w \in First : Pops(w)
    BY DEF CarryOutPop
  <1>3. /\ AppOK(app) /\ stack \in Seq(Routes) /\ awake
        /\ Len(stack) >= 2 /\ Trail(app) = b /\ stack # <<>>
    <2>1. stack \in Seq(Routes) /\ Len(stack) >= 2 /\ AppOK(app)
      BY <1>1, InvFacts DEF PagesInv, TrailAgrees
    <2>2. stack # <<>>
      BY <2>1
    <2> QED BY <1>1, <2>1, <2>2 DEF PagesInv, TrailAgrees
  <1>4. app.route = Top(b) /\ app.history = Below(b)
    <2>1. Top(Trail(app)) = app.route /\ Below(Trail(app)) = app.history
      BY <1>3, SeqFacts DEF AppOK, Trail
    <2> QED BY <1>3, <2>1
  <1>5. Arrived(app, Top(b)) = Below(b)
    BY <1>4 DEF Arrived
  <1>6. w \in Worlds
    BY <1>2, WorldsOK
  <1> QED BY <1>2, <1>3, <1>5, <1>6, PopsOK

LEMMA SwipeOK ==
    ASSUME PagesInv, Swipe
    PROVE  StepOK
  <1> DEFINE b == Below(stack)
  <1>1. Idle /\ awake /\ stack # <<>>
    BY DEF Swipe, Idle
  <1>2. PICK w \in First : Pops(w)
    BY DEF Swipe
  <1>3. /\ AppOK(app) /\ stack \in Seq(Routes) /\ IsPath(stack)
        /\ Trail(app) = stack /\ app.route = Top(stack) /\ app.history = b
    BY <1>1, InvFacts
  <1>4. ASSUME Len(stack) >= 2
        PROVE  Arrived(app, Top(b)) = Below(b)
    <2>1. /\ b \in Seq(Routes) /\ Len(b) = Len(stack) - 1
          /\ InSeq(b) = InSeq(stack) \ {Top(stack)} /\ IsPath(b)
      BY <1>1, <1>3, <1>4, SeqFacts, PathShrinks
    <2>2. b # <<>> /\ Len(b) \in Nat /\ Len(b) >= 1 /\ Top(b) \in InSeq(b)
      BY <2>1, SeqFacts, InSeqFacts DEF IsPath
    <2>3. Top(b) # app.route
      BY <1>3, <2>1, <2>2
    <2> DEFINE n == Len(b)
    <2>4. n \in 1..n /\ Top(b) = b[n]
      <3>1. n \in Nat /\ n >= 1 /\ Top(b) = b[n]
        BY <2>2 DEF Top
      <3> HIDE DEF n
      <3> QED BY <3>1
    <2>5. Rewound(b, b[n]) = SubSeq(b, 1, n - 1)
      <3>1. n \in 1..Len(app.history) /\ app.history = b
        BY <1>3, <2>4
      <3> HIDE DEF b, n
      <3>2. Rewound(app.history, app.history[n]) = SubSeq(app.history, 1, n - 1)
        BY <1>3, <3>1, RewoundOK
      <3> QED BY <3>1, <3>2
    <2> QED BY <1>3, <2>3, <2>4, <2>5 DEF Arrived, Below
  <1>5. w \in Worlds
    BY <1>2, WorldsOK
  <1> QED BY <1>1, <1>2, <1>4, <1>5, PopsOK

LEMMA ScreenOffOK ==
    ASSUME PagesInv, ScreenOff
    PROVE  StepOK
  <1> DEFINE p == Top(stack)
             t == PagePause(S, p)
  <1>1. /\ Idle /\ awake /\ awake' = FALSE
        /\ app' = t.app /\ pages' = t.pages /\ disk' = t.disk /\ dirty' = t.dirty
        /\ op' = t.op /\ stack' = stack /\ finger' = {} /\ acted' = {}
    BY DEF ScreenOff, Puts, Quiet
  <1>2. /\ StateOK(S) /\ S.app = app /\ S.pages = pages /\ S.op = op
        /\ p \in Routes /\ stack \in Seq(Routes)
        /\ \A r \in Routes \ {p} : Rests(pages[r])
    BY <1>1, InvFacts DEF Idle
  <1>3. /\ OnlyPage(S, t, p) /\ Rests(t.pages[p])
        /\ t.pages[p].active = pages[p].active
    BY <1>2, PauseOK
  <1> HIDE DEF t, p
  <1>4. StateOK(t) /\ t.app = app /\ t.op = op /\ \A r \in Routes \ {p} : t.pages[r] = pages[r]
    BY <1>2, <1>3 DEF OnlyPage
  <1>5. StateOK(S')
    BY <1>1, <1>4, RecordOK DEF S
  <1>6. TrailAgrees(app, op, stack)' /\ Idle'
    BY <1>1, <1>4 DEF PagesInv, TrailAgrees, Idle
  <1>7. ActiveOnStack'
    BY <1>1, <1>3, <1>4 DEF PagesInv, ActiveOnStack
  <1>8. Quietly'
    BY <1>1, <1>2, <1>3, <1>4 DEF Quietly
  <1>9. OnlyTopRuns' /\ FingerSeen'
    BY <1>8, QuietlyOK
  <1>10. PagesInv'
    BY <1>1, <1>2, <1>5, <1>6, <1>7, <1>9 DEF PagesInv, ClickIsPressed
  <1>11. StaysStep /\ TimerStep
    BY <1>1, <1>4 DEF StaysStep, TimerStep, TopHasTimer
  <1> QED BY <1>10, <1>11 DEF StepOK

LEMMA ScreenOnOK ==
    ASSUME PagesInv, ScreenOn
    PROVE  StepOK
  <1> DEFINE p == Top(stack)
  <1>1. PICK w \in First : Puts(PageResume(S, p, w))
    BY DEF ScreenOn
  <1> DEFINE t == PageResume(S, p, w)
  <1>2. /\ Idle /\ ~awake /\ awake' = TRUE
        /\ app' = t.app /\ pages' = t.pages /\ disk' = t.disk /\ dirty' = t.dirty
        /\ op' = t.op /\ stack' = stack /\ finger' = {} /\ acted' = {}
    BY <1>1 DEF ScreenOn, Puts, Quiet
  <1>3. /\ StateOK(S) /\ S.app = app /\ S.pages = pages /\ S.op = op
        /\ p \in Routes /\ stack \in Seq(Routes) /\ pages[p].active
        /\ p = "Home" => ~pages["Today"].active
        /\ AppOK(app) /\ app.route = p
        /\ \A r \in Routes : Rests(pages[r])
    BY <1>2, InvFacts DEF Idle
  <1>4. Arrived(app, p) = app.history /\ app.history \in Seq(Routes)
    BY <1>3 DEF Arrived, AppOK
  <1>5. Entered(S, t, p, w)
    BY <1>1, <1>3, <1>4, WorldsOK, ResumeOK
  <1> HIDE DEF t, p
  <1>6. /\ StateOK(t) /\ t.app.route = app.route /\ t.app.history = app.history
        /\ t.op = op /\ Shown(t.pages[p]) /\ t.pages[p].pressed = {}
        /\ "busy" \notin FaultKinds => t.pages[p].timer
    <2>1. "busy" \notin FaultKinds => t.pages[p].timer
      BY <1>1, <1>5, WorldsOK, DrawsUnlessBusy DEF Entered
    <2> QED BY <1>3, <1>4, <1>5, <2>1 DEF Entered, Rests
  <1>7. ASSUME NEW r \in Routes \ {p}
        PROVE  Rests(t.pages[r]) /\ (t.pages[r].active <=> pages[r].active)
    <2>1. SameFace(pages[r], t.pages[r]) /\ Rests(pages[r])
      BY <1>3, <1>5 DEF Entered
    <2> QED BY <2>1 DEF SameFace, Rests
  <1>8. StateOK(S')
    BY <1>2, <1>6, RecordOK DEF S
  <1>9. TrailAgrees(app, op, stack)' /\ Idle'
    BY <1>2, <1>6 DEF PagesInv, TrailAgrees, Trail, Idle
  <1>10. ActiveOnStack'
    BY <1>2, <1>3, <1>6, <1>7 DEF PagesInv, ActiveOnStack, Shown
  <1>11. Quietly'
    BY <1>2, <1>6, <1>7, <1>9 DEF Quietly, p
  <1>12. OnlyTopRuns' /\ FingerSeen'
    BY <1>11, QuietlyOK
  <1>13. PagesInv'
    BY <1>2, <1>3, <1>8, <1>9, <1>10, <1>12 DEF PagesInv, ClickIsPressed
  <1>14. StaysStep
    BY <1>2, <1>5, DayStays DEF Entered
  <1>15. TimerStep
    BY <1>2, <1>6 DEF TimerStep, TopHasTimer, p
  <1> QED BY <1>13, <1>14, <1>15 DEF StepOK

LEMMA LeaveOK ==
    ASSUME PagesInv, Leave
    PROVE  StepOK
  <1> DEFINE none == [r \in Routes |-> NoPage]
             t == [S EXCEPT !.pages = none]
  <1>1. /\ app' = t.app /\ pages' = t.pages /\ disk' = t.disk /\ dirty' = t.dirty
        /\ op' = t.op /\ stack' = <<>> /\ awake' = TRUE /\ acted' = {} /\ Idle
    BY DEF Leave, Puts, Quiet
  <1>2. StateOK(S) /\ S.app = app /\ S.op = op
    BY InvFacts
  <1>3. none = [r \in Routes |-> none[r]] /\ \A r \in Routes : none[r] = NoPage
    OBVIOUS
  <1> HIDE DEF none
  <1>4. /\ t.app = app /\ t.pages = none /\ t.op = op
        /\ t \in [app : {t.app}, pages : {t.pages}, disk : Files,
                  dirty : BOOLEAN, op : Ops]
    BY <1>2 DEF StateOK
  <1> HIDE DEF t
  <1>5. StateOK(t)
    <2>1. AppOK(app)
      BY InvFacts
    <2>2. \A r \in Routes : PageOK(t.pages[r]) /\ Drawn(t.app, r, t.pages[r])
      BY <1>3, <1>4, NoPageOK
    <2> QED BY <1>3, <1>4, <2>1, <2>2 DEF StateOK
  <1>6. StateOK(S')
    BY <1>1, <1>5, RecordOK DEF S
  <1>7. stack' \in Seq(Routes) /\ TrailAgrees(app, op, stack)'
    <2>1. op' = "none" /\ app' = app
      BY <1>1, <1>4 DEF Idle
    <2> QED BY <1>1, <2>1 DEF PagesInv, TrailAgrees, Routes
  <1>8. ActiveOnStack'
    <2>1. InSeq(stack') = {}
      BY <1>1 DEF InSeq
    <2>2. \A r \in Routes : ~pages'[r].active
      BY <1>1, <1>3, <1>4 DEF NoPage
    <2> QED BY <2>1, <2>2 DEF ActiveOnStack
  <1>9. Quietly'
    BY <1>1, <1>3, <1>4 DEF Quietly, Rests, NoPage
  <1>10. OnlyTopRuns' /\ FingerSeen'
    BY <1>9, QuietlyOK
  <1>11. PagesInv'
    BY <1>1, <1>6, <1>7, <1>8, <1>10 DEF PagesInv, ClickIsPressed
  <1>12. StaysStep
    BY <1>1, <1>4 DEF StaysStep
  <1>13. TimerStep
    BY <1>1 DEF TimerStep, TopHasTimer, Idle
  <1> QED BY <1>11, <1>12, <1>13 DEF StepOK

LEMMA ImportOK ==
    ASSUME PagesInv, Import
    PROVE  StepOK
  <1>1. /\ app' = app /\ pages' = pages /\ op' = op /\ stack' = stack
        /\ awake' = awake /\ finger' = finger /\ acted' = {}
        /\ disk' \in Files /\ dirty' = TRUE
    BY DEF Import
  <1>2. StateOK(S')
    <2> DEFINE u == [app |-> app, pages |-> pages, disk |-> disk', dirty |-> TRUE,
                     op |-> op]
    <2>1. S' = u /\ op \in Ops
      BY <1>1, InvFacts DEF S
    <2>2. /\ u.app = S.app /\ u.pages = S.pages
          /\ u \in [app : {u.app}, pages : {u.pages}, disk : Files,
                    dirty : BOOLEAN, op : Ops]
      BY <1>1, <2>1 DEF S
    <2> HIDE DEF u
    <2>3. StateOK(u)
      BY <2>2, InvFacts, PutRest
    <2> QED BY <2>1, <2>3
  <1>3. TrailAgrees(app, op, stack)' /\ ActiveOnStack' /\ FingerSeen'
    BY <1>1 DEF PagesInv, ActiveOnStack, FingerSeen
  <1>4. OnlyTopRuns'
    BY <1>1 DEF PagesInv, OnlyTopRuns, Idle
  <1>5. PagesInv'
    BY <1>1, <1>2, <1>3, <1>4 DEF PagesInv, ClickIsPressed, Idle
  <1>6. StaysStep /\ TimerStep
    BY <1>1 DEF StaysStep, TimerStep, TopHasTimer, Idle
  <1> QED BY <1>5, <1>6 DEF StepOK

\* A page that is shown is the top one of a lit screen, and the app is on it.
LEMMA ShownIsTop ==
    ASSUME PagesInv, NEW p \in Routes, Shown(pages[p]) \/ pages[p].timer
    PROVE  /\ Idle /\ awake /\ p = Top(stack) /\ app.route = p /\ op = "none"
           /\ Trail(app) = stack /\ IsPath(stack) /\ Shown(pages[p])
           /\ p = "Home" => ~pages["Today"].active
           /\ \A r \in Routes \ {p} : Rests(pages[r])
           /\ Steady(S)
  <1>1. Idle /\ awake /\ p = Top(stack) /\ Shown(pages[p])
    BY DEF PagesInv, OnlyTopRuns
  <1> QED BY <1>1, InvFacts DEF Idle

LEMMA RefreshTimerOK ==
    ASSUME PagesInv, RefreshTimer
    PROVE  StepOK
  <1>1. PICK p \in {q \in Routes : pages[q].timer /\ Shown(pages[q])} :
            \E w \in First : /\ Puts(Render(Maintain(S, w), p, w)) /\ acted' = {}
                             /\ UNCHANGED <<stack, awake, finger>>
    BY DEF RefreshTimer
  <1>2. PICK w \in First : /\ Puts(Render(Maintain(S, w), p, w)) /\ acted' = {}
                           /\ UNCHANGED <<stack, awake, finger>>
    BY <1>1
  <1> DEFINE m == Maintain(S, w)
             t == Render(m, p, w)
  <1>3. /\ app' = t.app /\ pages' = t.pages /\ disk' = t.disk /\ dirty' = t.dirty
        /\ op' = t.op /\ stack' = stack /\ awake' = awake
        /\ finger' = finger /\ acted' = {}
    BY <1>2 DEF Puts
  <1>4. /\ StateOK(S) /\ S.app = app /\ S.pages = pages /\ S.op = op
        /\ p \in Routes /\ Steady(S)
    BY <1>1, InvFacts, ShownIsTop
  <1>5. KeptUp(S, m)
    BY <1>2, <1>4, WorldsOK, MaintainKeeps
  <1> HIDE DEF m
  <1>6. /\ StateOK(t) /\ t.app = m.app /\ t.op = m.op
        /\ \A r \in Routes : SameFace(m.pages[r], t.pages[r])
    BY <1>4, <1>5, RenderKeeps DEF KeptUp
  <1> HIDE DEF t
  <1>7. /\ op' = op /\ app'.route = app.route /\ app'.history = app.history
        /\ DayKept(S, t)
    BY <1>3, <1>4, <1>5, <1>6 DEF KeptUp, DayKept
  <1>8. ASSUME NEW r \in Routes
        PROVE  SameFace(pages[r], pages'[r])
    BY <1>3, <1>4, <1>5, <1>6 DEF KeptUp, SameFace
  <1>9. Idle' = Idle
    BY <1>3, <1>7 DEF Idle
  <1>10. StateOK(S')
    BY <1>3, <1>6, RecordOK DEF S
  <1>11. TrailAgrees(app, op, stack)'
    BY <1>3, <1>7 DEF PagesInv, TrailAgrees, Trail
  <1>12. ActiveOnStack' /\ FingerSeen'
    BY <1>3, <1>8 DEF PagesInv, ActiveOnStack, FingerSeen, SameFace
  <1>13. OnlyTopRuns'
    <2> SUFFICES ASSUME NEW r \in Routes,
                        Shown(pages'[r]) \/ pages'[r].timer \/ pages'[r].pressed # {}
                 PROVE  Idle' /\ awake' /\ r = Top(stack') /\ Shown(pages'[r])
      BY DEF OnlyTopRuns
    <2>1. Shown(pages[r]) \/ pages[r].timer \/ pages[r].pressed # {}
      BY <1>8, Zenon DEF SameFace, Shown
    <2>2. Idle /\ awake /\ r = Top(stack) /\ Shown(pages[r])
      BY <2>1 DEF PagesInv, OnlyTopRuns
    <2>3. Shown(pages'[r])
      BY <1>8, <2>2, Zenon DEF SameFace, Shown
    <2> QED BY <1>3, <1>9, <2>2, <2>3
  <1>14. PagesInv'
    BY <1>3, <1>9, <1>10, <1>11, <1>12, <1>13 DEF PagesInv, ClickIsPressed
  <1>15. StaysStep
    BY <1>3, <1>7, DayStays
  <1>16. TimerStep
    <2> SUFFICES ASSUME TopHasTimer, Idle, awake PROVE pages'[Top(stack)].timer
      BY <1>3, <1>9 DEF TimerStep, TopHasTimer
    <2>1. Top(stack) \in Routes
      BY InvFacts DEF Idle
    <2> QED BY <1>8, <2>1 DEF TopHasTimer, SameFace
  <1> QED BY <1>14, <1>15, <1>16 DEF StepOK

\* Page p with the rows of z under the finger.
WithPressed(s, p, z) == [s EXCEPT !.pages[p].pressed = z]

LEMMA PressedOK ==
    ASSUME NEW s, StateOK(s), NEW p \in Routes, Shown(s.pages[p]), NEW z, Single(z)
    PROVE  LET t == WithPressed(s, p, z)
           IN  /\ OnlyPage(s, t, p) /\ Shown(t.pages[p])
               /\ t.pages[p].timer = s.pages[p].timer /\ t.pages[p].pressed = z
  <1> DEFINE old == s.pages[p]
             q == [old EXCEPT !.pressed = z]
             t == WithPressed(s, p, z)
  <1>1. PageOK(old) /\ Drawn(s.app, p, old) /\ old.active /\ old.interactive
    BY DEF StateOK, Shown
  <1>2. t = [s EXCEPT !.pages[p] = q]
    BY DEF StateOK, WithPressed
  <1> HIDE DEF old, t
  <1>3. /\ q.active = old.active /\ q.interactive = old.interactive /\ q.timer = old.timer
        /\ q.pressed = z
        /\ q.fresh = old.fresh /\ q.view = old.view /\ q.title = old.title
        /\ q \in [active : BOOLEAN, interactive : BOOLEAN, timer : BOOLEAN,
                  fresh : BOOLEAN, view : {q.view}, title : {q.title},
                  pressed : {q.pressed}]
    BY <1>1 DEF PageOK
  <1> HIDE DEF q
  <1>4. PageOK(q) /\ Drawn(s.app, p, q)
    BY <1>1, <1>3 DEF PageOK, Drawn
  <1>5. OnlyPage(s, t, p) /\ t.pages[p] = q
    BY <1>2, <1>4, PutPage DEF OnlyPage
  <1>6. q.active /\ q.interactive
    BY <1>1, <1>3
  <1> QED BY <1>3, <1>5, <1>6 DEF t, old, Shown

LEMMA PressOK ==
    ASSUME PagesInv, NEW p \in Routes, Shown(pages[p]), NEW k, Press(p, k)
    PROVE  StepOK
  <1> DEFINE card == The(pages[p].view).cards[k]
             z == {[slot |-> k, card |-> card]}
             t == WithPressed(S, p, z)
  <1>1. /\ app' = t.app /\ pages' = t.pages /\ disk' = t.disk /\ dirty' = t.dirty
        /\ op' = t.op /\ stack' = stack /\ awake' = awake
        /\ finger' = {card} /\ acted' = {}
    BY DEF Press, Puts, WithPressed
  <1>2. /\ StateOK(S) /\ S.app = app /\ S.pages = pages /\ S.op = op
        /\ stack \in Seq(Routes)
    BY InvFacts
  <1>3. /\ Idle /\ awake /\ p = Top(stack) /\ \A r \in Routes \ {p} : Rests(pages[r])
    BY ShownIsTop
  <1>4. Single(z) /\ \A x \in z : x.card = card
    BY DEF Single
  <1> HIDE DEF z, card
  <1>5. /\ OnlyPage(S, t, p) /\ Shown(t.pages[p])
        /\ t.pages[p].timer = pages[p].timer /\ t.pages[p].pressed = z
    <2>1. Shown(S.pages[p])
      BY <1>2
    <2>2. /\ OnlyPage(S, t, p) /\ Shown(t.pages[p])
          /\ t.pages[p].timer = S.pages[p].timer /\ t.pages[p].pressed = z
      BY <1>2, <1>4, <2>1, PressedOK
    <2> QED BY <1>2, <2>2
  <1> HIDE DEF t
  <1>6. /\ StateOK(t) /\ app' = app /\ op' = op
        /\ \A r \in Routes \ {p} : pages'[r] = pages[r]
    BY <1>1, <1>2, <1>5 DEF OnlyPage
  <1>7. StateOK(S')
    BY <1>1, <1>6, RecordOK DEF S
  <1>8. TrailAgrees(app, op, stack)' /\ Idle'
    BY <1>1, <1>3, <1>6 DEF PagesInv, TrailAgrees, Idle
  <1>9. ActiveOnStack'
    <2>1. pages[p].active /\ pages'[p].active
      BY <1>1, <1>5 DEF Shown
    <2> QED BY <1>1, <1>6, <2>1 DEF PagesInv, ActiveOnStack
  <1>10. OnlyTopRuns'
    <2>1. ASSUME NEW r \in Routes \ {p}
          PROVE  ~Shown(pages'[r]) /\ ~pages'[r].timer /\ pages'[r].pressed = {}
      BY <1>3, <1>6 DEF Rests, Shown
    <2> QED BY <1>1, <1>3, <1>5, <1>8, <2>1 DEF OnlyTopRuns
  <1>11. FingerSeen'
    <2>1. ASSUME NEW r \in Routes \ {p} PROVE pages'[r].pressed = {}
      BY <1>3, <1>6 DEF Rests
    <2> QED BY <1>1, <1>4, <1>5, <2>1 DEF FingerSeen
  <1>12. PagesInv'
    BY <1>1, <1>2, <1>7, <1>8, <1>9, <1>10, <1>11 DEF PagesInv, ClickIsPressed
  <1>13. StaysStep
    BY <1>6 DEF StaysStep
  <1>14. TimerStep
    BY <1>1, <1>3, <1>5 DEF TimerStep, TopHasTimer
  <1> QED BY <1>12, <1>13, <1>14 DEF StepOK

LEMMA StaysSteps ==
    ASSUME NEW s, NEW t, NEW u, NEW p \in Routes, Stays(s, t, p)
    PROVE  /\ Stays(t, u, p) => Stays(s, u, p)
           /\ \A a, how : Leaves(t, u, p, a, how) => Leaves(s, u, p, a, how)
  <1>1. ASSUME DayKept(t, u), s.pages["Today"].active => t.pages["Today"].active
        PROVE  DayKept(s, u)
    BY <1>1 DEF Stays, DayKept
  <1>2. s.pages["Today"].active => t.pages["Today"].active
    <2>1. t.pages[p].active
      BY DEF Stays, Shown
    <2>2. "Today" # p => SameFace(s.pages["Today"], t.pages["Today"])
      BY DEF Stays, Routes
    <2> QED BY <2>1, <2>2 DEF SameFace
  <1>3. ASSUME Stays(t, u, p) PROVE Stays(s, u, p)
    <2>1. \A r \in Routes \ {p} : SameFace(s.pages[r], u.pages[r])
      BY <1>3 DEF Stays, SameFace
    <2>2. DayKept(s, u)
      BY <1>1, <1>2, <1>3 DEF Stays
    <2> QED BY <1>3, <2>1, <2>2 DEF Stays
  <1>4. ASSUME NEW a, NEW how, Leaves(t, u, p, a, how) PROVE Leaves(s, u, p, a, how)
    <2>1. \A r \in Routes \ {p} : SameFace(s.pages[r], u.pages[r])
      BY <1>4 DEF Stays, Leaves, SameFace
    <2>2. DayKept(s, u)
      BY <1>1, <1>2, <1>4 DEF Leaves
    <2> QED BY <1>4, <2>1, <2>2 DEF Leaves
  <1> QED BY <1>3, <1>4

LEMMA AnswerStays ==
    ASSUME PagesInv, NEW p \in Routes, Shown(pages[p]), NEW t, Stays(S, t, p),
           app' = t.app, pages' = t.pages, disk' = t.disk, dirty' = t.dirty, op' = t.op,
           stack' = stack, awake' = awake, ClickIsPressed'
    PROVE  StepOK
  <1>1. /\ S.app = app /\ S.pages = pages /\ S.op = op /\ stack \in Seq(Routes)
        /\ Idle /\ awake /\ p = Top(stack) /\ \A r \in Routes \ {p} : Rests(pages[r])
    BY InvFacts, ShownIsTop
  <1>2. /\ StateOK(t) /\ op' = op /\ app'.route = app.route /\ app'.history = app.history
        /\ Shown(t.pages[p]) /\ t.pages[p].pressed = {} /\ DayKept(S, t)
        /\ "busy" \notin FaultKinds /\ pages[p].timer => t.pages[p].timer
    BY <1>1 DEF Stays
  <1>3. ASSUME NEW r \in Routes \ {p}
        PROVE  Rests(t.pages[r]) /\ (t.pages[r].active <=> pages[r].active)
    BY <1>1 DEF Stays, SameFace, Rests
  <1>4. StateOK(S')
    BY <1>2, RecordOK DEF S
  <1>5. TrailAgrees(app, op, stack)' /\ Idle'
    BY <1>1, <1>2 DEF PagesInv, TrailAgrees, Trail, Idle
  <1>6. ActiveOnStack'
    <2>1. pages[p].active /\ t.pages[p].active
      BY <1>2 DEF Shown
    <2> QED BY <1>3, <2>1 DEF PagesInv, ActiveOnStack
  <1>7. Quietly'
    BY <1>1, <1>2, <1>3, <1>5 DEF Quietly
  <1>8. OnlyTopRuns' /\ FingerSeen'
    BY <1>7, QuietlyOK
  <1>9. PagesInv'
    BY <1>1, <1>4, <1>5, <1>6, <1>8 DEF PagesInv
  <1>10. StaysStep
    BY <1>2, DayStays
  <1>11. TimerStep
    BY <1>1, <1>2 DEF TimerStep, TopHasTimer
  <1> QED BY <1>9, <1>10, <1>11 DEF StepOK

LEMMA AnswerLeaves ==
    ASSUME PagesInv, NEW p \in Routes, Shown(pages[p]), NEW t, NEW a, NEW how,
           Leaves(S, t, p, a, how), how # "none", TrailAgrees(a, how, stack),
           app' = t.app, pages' = t.pages, disk' = t.disk, dirty' = t.dirty, op' = t.op,
           stack' = stack, awake' = awake, ClickIsPressed'
    PROVE  StepOK
  <1>1. /\ S.app = app /\ S.pages = pages /\ S.op = op /\ stack \in Seq(Routes)
        /\ Idle /\ awake /\ p = Top(stack) /\ \A r \in Routes \ {p} : Rests(pages[r])
    BY InvFacts, ShownIsTop
  <1>2. /\ StateOK(t) /\ op' = how /\ app'.route = a.route /\ app'.history = a.history
        /\ Rests(t.pages[p]) /\ t.pages[p].active /\ DayKept(S, t)
    BY <1>1 DEF Leaves
  <1>3. ASSUME NEW r \in Routes \ {p}
        PROVE  Rests(t.pages[r]) /\ (t.pages[r].active <=> pages[r].active)
    BY <1>1 DEF Leaves, SameFace, Rests
  <1>4. StateOK(S')
    BY <1>2, RecordOK DEF S
  <1>5. TrailAgrees(app, op, stack)' /\ ~Idle'
    BY <1>1, <1>2 DEF TrailAgrees, Trail, Idle
  <1>6. ActiveOnStack'
    <2>1. pages[p].active /\ t.pages[p].active
      BY <1>2 DEF Shown
    <2> QED BY <1>3, <2>1 DEF PagesInv, ActiveOnStack
  <1>7. Quietly'
    BY <1>2, <1>3 DEF Quietly
  <1>8. OnlyTopRuns' /\ FingerSeen'
    BY <1>7, QuietlyOK
  <1>9. PagesInv'
    BY <1>1, <1>4, <1>5, <1>6, <1>8 DEF PagesInv
  <1>10. StaysStep
    BY <1>2, DayStays
  <1>11. TimerStep
    BY <1>5 DEF TimerStep, TopHasTimer
  <1> QED BY <1>9, <1>10, <1>11 DEF StepOK

LEMMA PressEndsOK ==
    ASSUME PagesInv, NEW p \in Routes, Shown(pages[p]), PressEnds(p)
    PROVE  StepOK
  <1> DEFINE t == WithPressed(S, p, {})
  <1>1. /\ app' = t.app /\ pages' = t.pages /\ disk' = t.disk /\ dirty' = t.dirty
        /\ op' = t.op /\ stack' = stack /\ awake' = awake /\ acted' = {}
    BY DEF PressEnds, Puts, Quiet, WithPressed
  <1>2. StateOK(S) /\ Shown(S.pages[p])
    BY InvFacts
  <1>3. /\ OnlyPage(S, t, p) /\ Shown(t.pages[p])
        /\ t.pages[p].timer = S.pages[p].timer /\ t.pages[p].pressed = {}
    BY <1>2, PressedOK DEF Single
  <1> HIDE DEF t
  <1>4. Stays(S, t, p)
    BY <1>3 DEF Stays, OnlyPage, DayKept, SameFace
  <1>5. ClickIsPressed'
    BY <1>1 DEF ClickIsPressed
  <1> QED BY <1>1, <1>4, <1>5, AnswerStays

LEMMA TitleBackOK ==
    ASSUME PagesInv, NEW p \in Routes, Shown(pages[p]), NEW refused \in BOOLEAN,
           NEW v \in Worlds, TitleBack(p, refused, v)
    PROVE  StepOK
  <1> DEFINE t == HandleBack(S, p, refused, v)
             a == Backed(app)
  <1>1. /\ app' = t.app /\ pages' = t.pages /\ disk' = t.disk /\ dirty' = t.dirty
        /\ op' = t.op /\ stack' = stack /\ awake' = awake /\ acted' = {} /\ p # "Home"
    BY DEF TitleBack, Puts, Quiet
  <1>2. /\ StateOK(S) /\ S.app = app /\ S.pages = pages /\ app.route = p
        /\ Trail(app) = stack /\ IsPath(stack) /\ AppOK(app)
    BY InvFacts, ShownIsTop
  <1>3. pages[p].active
    BY DEF Shown
  <1>4. IF refused THEN Stays(S, t, p) ELSE Leaves(S, t, p, a, "pop")
    <2> DEFINE c == Backed(S.app)
    <2>1. IF refused THEN Stays(S, t, p) ELSE Leaves(S, t, p, c, "pop")
      BY <1>1, <1>2, <1>3, HandleBackOK
    <2> QED BY <1>2, <2>1
  <1>5. TrailAgrees(a, "pop", stack)
    <2>1. IsPath(Trail(a)) /\ Trail(a) = Below(stack) /\ Len(stack) >= 2
      BY <1>1, <1>2, BackedOK
    <2> QED BY <1>2, <2>1 DEF TrailAgrees, Routes
  <1>6. ClickIsPressed'
    BY <1>1 DEF ClickIsPressed
  <1> HIDE DEF t, a
  <1>7. CASE refused
    BY <1>1, <1>4, <1>6, <1>7, AnswerStays
  <1>8. CASE ~refused
    BY <1>1, <1>4, <1>5, <1>6, <1>8, AnswerLeaves
  <1> QED BY <1>7, <1>8

\* No page above the top one of a path is there.
LEMMA NoneAbove ==
    ASSUME PagesInv, Idle, NEW r \in Routes, Rank[Top(stack)] < Rank[r]
    PROVE  ~pages[r].active
  <1>1. IsPath(stack)
    BY InvFacts DEF Idle
  <1>2. r \notin InSeq(stack)
    BY <1>1, PathExtends
  <1> QED BY <1>2 DEF PagesInv, ActiveOnStack

LEMMA ClickOK ==
    ASSUME PagesInv, NEW p \in Routes, Shown(pages[p]), pages[p].pressed # {},
           NEW refused \in BOOLEAN, NEW w \in Worlds, Click(p, refused, w)
    PROVE  StepOK
  <1> DEFINE press == The(pages[p].pressed)
             row == press.card
             lifted == WithPressed(S, p, {})
             kept == Maintain(lifted, w)
  <1>1. /\ StateOK(S) /\ S.app = app /\ S.pages = pages /\ Idle /\ p = Top(stack)
        /\ Trail(app) = stack /\ IsPath(stack) /\ Steady(S) /\ Shown(S.pages[p])
        /\ p = "Home" => ~pages["Today"].active
    BY InvFacts, ShownIsTop
  <1>2. press \in pages[p].pressed /\ finger = {row}
    <2>1. press \in pages[p].pressed
      BY DEF The
    <2> QED BY <2>1 DEF PagesInv, FingerSeen
  <1>3. /\ OnlyPage(S, lifted, p) /\ Shown(lifted.pages[p])
        /\ lifted.pages[p].timer = S.pages[p].timer /\ lifted.pages[p].pressed = {}
    BY <1>1, PressedOK DEF Single
  <1>4. kept = Maintain([S EXCEPT !.pages[p].pressed = {}], w)
    BY DEF WithPressed
  <1> HIDE DEF lifted
  <1>5. StateOK(lifted) /\ Steady(lifted) /\ Stays(S, lifted, p)
    <2>1. Stays(S, lifted, p)
      BY <1>3 DEF Stays, OnlyPage, DayKept, SameFace
    <2>2. lifted.pages["Today"].active => S.pages["Today"].active
      <3>1. CASE p = "Today"
        BY <1>1, <3>1 DEF Shown
      <3>2. CASE p # "Today"
        BY <1>3, <3>2 DEF OnlyPage, Routes
      <3> QED BY <3>1, <3>2
    <2> QED BY <1>1, <1>3, <2>1, <2>2 DEF Steady, OnlyPage
  <1>6. KeptUp(lifted, kept)
    BY <1>5, MaintainKeeps
  <1> HIDE DEF kept
  <1>7. Stays(lifted, kept, p)
    BY <1>3, <1>6, KeptUpStays
  <1>8. Stays(S, kept, p)
    BY <1>5, <1>7, StaysSteps
  <1>9. CASE /\ Puts(Render(kept, p, w)) /\ acted' = {}
             /\ UNCHANGED <<stack, awake>>
    <2> DEFINE t == Render(kept, p, w)
    <2>1. /\ app' = t.app /\ pages' = t.pages /\ disk' = t.disk /\ dirty' = t.dirty
          /\ op' = t.op /\ stack' = stack /\ awake' = awake
      BY <1>9 DEF Puts
    <2>2. Stays(S, t, p)
      BY <1>8, RenderStays
    <2>3. ClickIsPressed'
      BY <1>9 DEF ClickIsPressed
    <2> HIDE DEF t
    <2> QED BY <2>1, <2>2, <2>3, AnswerStays
  <1>10. ASSUME NEW v \in Worlds, StillThere(kept, p, press), row.kind # "none",
                Puts(Render(HandleAction(kept, p, row, refused, v), p, v)),
                acted' = {[seen |-> finger, there |-> Present(kept.app).cards[press.slot]]},
                UNCHANGED <<stack, awake>>
         PROVE  StepOK
    <2> DEFINE k == press.slot
               a == Opened(kept.app, row)
               u == HandleAction(kept, p, row, refused, v)
               t == Render(u, p, v)
    <2>1. /\ app' = t.app /\ pages' = t.pages /\ disk' = t.disk /\ dirty' = t.dirty
          /\ op' = t.op /\ stack' = stack /\ awake' = awake
      BY <1>10 DEF Puts
    <2>2. kept.app.route = p /\ k \in DOMAIN Present(kept.app).cards
          /\ row = Present(kept.app).cards[k]
      BY <1>10 DEF StillThere
    <2>3. ClickIsPressed'
      BY <1>2, <1>10, <2>2 DEF ClickIsPressed
    <2>4. StateOK(kept) /\ Shown(kept.pages[p]) /\ kept.pages[p].pressed = {}
          /\ Trail(kept.app) = stack
      BY <1>1, <1>8 DEF Stays, Trail
    <2>5. ASSUME NEW r \in Routes, r # p PROVE kept.pages[r].active <=> pages[r].active
      BY <1>1, <1>8, <2>5 DEF Stays, SameFace
    <2>6. p = "Home" => ~kept.pages["Today"].active
      BY <1>1, <2>5 DEF Routes
    <2>7. \A r \in Routes : Rank[p] < Rank[r] => ~kept.pages[r].active
      <3> SUFFICES ASSUME NEW r \in Routes, Rank[p] < Rank[r]
                   PROVE  ~kept.pages[r].active
        OBVIOUS
      <3>1. r # p
        BY RankOK
      <3>2. ~pages[r].active
        BY <1>1, NoneAbove
      <3> QED BY <2>5, <3>1, <3>2
    <2>8. \/ Stays(kept, u, p)
          \/ /\ Leaves(kept, u, p, a, a.route) /\ a.route \in Routes
             /\ a.history = Trail(kept.app) /\ Rank[p] < Rank[a.route]
      <3> HIDE DEF k, row
      <3> QED BY <1>10, <2>2, <2>4, <2>6, <2>7, HandleActionOK
    <2> HIDE DEF a, u
    <2>9. CASE Stays(kept, u, p)
      <3>1. Stays(S, t, p)
        BY <1>8, <2>9, StaysSteps, RenderStays
      <3> HIDE DEF t
      <3> QED BY <2>1, <2>3, <3>1, AnswerStays
    <2>10. CASE /\ Leaves(kept, u, p, a, a.route) /\ a.route \in Routes
                /\ a.history = Trail(kept.app) /\ Rank[p] < Rank[a.route]
      <3>1. Leaves(S, u, p, a, a.route)
        BY <1>8, <2>10, StaysSteps
      <3>2. Leaves(S, t, p, a, a.route)
        BY <3>1, RenderLeaves
      <3>3. Trail(a) = Append(stack, a.route) /\ IsPath(Append(stack, a.route))
        BY <1>1, <2>4, <2>10, PathExtends DEF Trail
      <3>4. a.route # "none" /\ a.route # "pop"
        BY <2>10 DEF Routes
      <3>5. TrailAgrees(a, a.route, stack)
        BY <1>1, <3>3, <3>4 DEF TrailAgrees, IsPath
      <3> HIDE DEF t
      <3> QED BY <2>1, <2>3, <3>2, <3>4, <3>5, AnswerLeaves
    <2> QED BY <2>8, <2>9, <2>10
  <1>11. \/ /\ Puts(Render(kept, p, w)) /\ acted' = {} /\ UNCHANGED <<stack, awake>>
         \/ \E v \in Second(w) :
                /\ StillThere(kept, p, press) /\ row.kind # "none"
                /\ Puts(Render(HandleAction(kept, p, row, refused, v), p, v))
                /\ acted' = {[seen |-> finger,
                              there |-> Present(kept.app).cards[press.slot]]}
                /\ UNCHANGED <<stack, awake>>
    BY <1>4 DEF Click
  <1> HIDE DEF press
  <1> QED BY <1>9, <1>10, <1>11, WorldsOK

LEMMA TouchOK ==
    ASSUME PagesInv, Touch
    PROVE  StepOK
  <1>1. PICK p \in {q \in Routes : Shown(pages[q])} :
            \/ \E k \in 1..4 : Press(p, k)
            \/ PressEnds(p)
            \/ /\ pages[p].pressed # {}
               /\ \E refused \in Refusals, w \in First : Click(p, refused, w)
            \/ \E refused \in Refusals, v \in First : TitleBack(p, refused, v)
    BY DEF Touch
  <1>2. Refusals \subseteq BOOLEAN
    BY DEF Refusals
  <1>3. CASE \E k \in 1..4 : Press(p, k)
    BY <1>1, <1>3, PressOK
  <1>4. CASE PressEnds(p)
    BY <1>1, <1>4, PressEndsOK
  <1>5. CASE /\ pages[p].pressed # {}
             /\ \E refused \in Refusals, w \in First : Click(p, refused, w)
    BY <1>1, <1>2, <1>5, WorldsOK, ClickOK
  <1>6. CASE \E refused \in Refusals, v \in First : TitleBack(p, refused, v)
    BY <1>1, <1>2, <1>6, WorldsOK, TitleBackOK
  <1> QED BY <1>1, <1>3, <1>4, <1>5, <1>6

-----------------------------------------------------------------------------
(* The theorems                                                            *)

LEMMA InitOK == Init => PagesInv /\ TopHasTimer
  <1> SUFFICES ASSUME Init PROVE PagesInv /\ TopHasTimer
    OBVIOUS
  <1>1. "Home" \in Routes
    BY DEF Routes
  <1>2. AppOK(app)
    BY <1>1, EmptyFile DEF Init, AppOK
  <1>3. StateOK(S)
    <2>1. S = [app |-> app, pages |-> pages, disk |-> disk, dirty |-> dirty, op |-> op]
      BY DEF S
    <2>2. pages = [r \in Routes |-> NoPage] /\ disk \in Files /\ dirty = TRUE /\ op = "none"
      BY DEF Init
    <2>3. \A r \in Routes : PageOK(pages[r]) /\ Drawn(app, r, pages[r])
      BY <2>2, NoPageOK
    <2>4. pages = [r \in Routes |-> pages[r]]
      BY <2>2
    <2>5. /\ S.app = app /\ S.pages = pages
          /\ S \in [app : {S.app}, pages : {S.pages}, disk : Files,
                    dirty : BOOLEAN, op : Ops]
      BY <2>1, <2>2 DEF Ops
    <2> QED BY <1>2, <2>3, <2>4, <2>5 DEF StateOK
  <1>4. TrailAgrees(app, op, stack)
    <2>1. Trail(app) = <<"Home">>
      BY DEF Init, Trail
    <2>2. /\ <<"Home">> \in Seq(Routes) /\ <<"Home">> # <<>> /\ <<"Home">>[1] = "Home"
          /\ DOMAIN <<"Home">> = {1}
      BY <1>1
    <2>3. IsPath(<<"Home">>)
      BY <2>2 DEF IsPath
    <2> QED BY <2>1, <2>3 DEF Init, TrailAgrees, Routes
  <1>5. ActiveOnStack
    BY DEF Init, ActiveOnStack, NoPage, InSeq
  <1>6. OnlyTopRuns /\ FingerSeen
    BY DEF Init, OnlyTopRuns, FingerSeen, NoPage, Shown
  <1>7. PagesInv
    BY <1>3, <1>4, <1>5, <1>6 DEF Init, PagesInv, ClickIsPressed
  <1>8. TopHasTimer
    BY DEF Init, TopHasTimer, Idle
  <1> QED BY <1>7, <1>8

LEMMA NextOK == PagesInv /\ [Next]_vars => StepOK
  <1> SUFFICES ASSUME PagesInv, [Next]_vars PROVE StepOK
    OBVIOUS
  <1>1. CASE UNCHANGED vars
    <2>1. PagesInv'
      BY <1>1 DEF vars, PagesInv, S, StateOK, TrailAgrees, ActiveOnStack, OnlyTopRuns,
                  Idle, FingerSeen, ClickIsPressed
    <2>2. StaysStep /\ TimerStep
      BY <1>1 DEF vars, StaysStep, TimerStep, TopHasTimer, Idle
    <2> QED BY <2>1, <2>2 DEF StepOK
  <1>2. CASE Next
    BY <1>2, LaunchOK, CarryOutPushOK, CarryOutPopOK, SwipeOK, ScreenOffOK, ScreenOnOK,
       LeaveOK, RefreshTimerOK, TouchOK, ImportOK DEF Next
  <1> QED BY <1>1, <1>2

LEMMA PagesAgree == Spec => []PagesInv
  <1>1. PagesInv /\ [Next]_vars => PagesInv'
    BY NextOK DEF StepOK
  <1> QED BY <1>1, InitOK, PTL DEF Spec

LEMMA SingleSmall ==
    ASSUME NEW Z, Single(Z)
    PROVE  Cardinality(Z) <= 1
  <1>1. CASE Z = {}
    BY <1>1, FS_EmptySet
  <1>2. CASE Z # {}
    <2>1. PICK x : x \in Z
      BY <1>2
    <2>2. Z = {x}
      BY <2>1 DEF Single
    <2>3. Cardinality({x}) = 1
      BY FS_Singleton
    <2> QED BY <2>2, <2>3
  <1> QED BY <1>1, <1>2

\* App, pages, file and stack hold what the code's types allow, and only a page
\* the firmware created reacts to anything.
THEOREM PagesTypes == Spec => []PagesTypeOK
  <1>1. ASSUME PagesInv PROVE PagesTypeOK
    <2>1. /\ AppOK(app) /\ op \in Ops /\ stack \in Seq(Routes)
          /\ \A r \in Routes : PageOK(pages[r])
      BY <1>1, InvFacts
    <2>2. disk \in Files /\ dirty \in BOOLEAN /\ awake \in BOOLEAN
      BY <1>1 DEF PagesInv, StateOK, S
    <2>3. /\ app.route \in Routes /\ app.history \in Seq(Routes) /\ app.schedule \in Files
          /\ {app.clock, app.day} \subseteq Days \cup {0}
      BY <2>1 DEF AppOK
    <2>4. InSeq(app.history) \subseteq Routes /\ InSeq(stack) \subseteq Routes
      BY <2>1, <2>3, InSeqFacts
    <2>5. ASSUME NEW r \in Routes
          PROVE  /\ Cardinality(pages[r].view) <= 1 /\ Cardinality(pages[r].pressed) <= 1
                 /\ pages[r].interactive => pages[r].active
      <3>1. Single(pages[r].view) /\ Single(pages[r].pressed)
        BY <2>1 DEF PageOK
      <3>2. pages[r].interactive => pages[r].active
        BY <2>1 DEF PageOK
      <3> QED BY <3>1, <3>2, SingleSmall
    <2> QED BY <2>1, <2>2, <2>3, <2>4, <2>5 DEF PagesTypeOK, Ops
  <1> QED BY <1>1, PagesAgree, PTL

\* LoopApp and the firmware agree on where the user is: whenever no navigation is
\* under way, route and history are the stack of pages (resume_route,
\* restore_navigation, navigate and back).
THEOREM AppFollowsStack == Spec => []StackAgrees
  <1>1. PagesInv => StackAgrees
    BY InvFacts DEF StackAgrees
  <1> QED BY <1>1, PagesAgree, PTL

\* No page below the top one, no page of a dark screen and no page that is being
\* left is touched or has a timer (page_pause, navigate, back).
THEOREM OnlyTopPageRuns == Spec => []OnlyTopRuns
  <1>1. PagesInv => OnlyTopRuns
    BY DEF PagesInv
  <1> QED BY <1>1, PagesAgree, PTL

\* What a page believes up to date is what present returns now, and its title bar
\* names the day of the courses below it (render, LoopApp.generation).
THEOREM DrawnPagesAreCurrent == Spec => []DrawnIsCurrent
  <1>1. ASSUME PagesInv PROVE DrawnIsCurrent
    <2> SUFFICES ASSUME NEW p \in Routes, pages[p].fresh, app.route = p
                 PROVE  /\ pages[p].view = {Present(app)}
                        /\ pages[p].title \in {0, ShownDay(app)}
      BY DEF DrawnIsCurrent
    <2>1. Drawn(app, p, pages[p])
      BY <1>1, InvFacts DEF StateOK
    <2> QED BY <2>1 DEF Drawn, ShownDay, KnownDay
  <1> QED BY <1>1, PagesAgree, PTL

\* What is opened, refreshed or cleared is the row the finger came down on, as
\* the app shows it now (row_event).
THEOREM ClicksAreMeant == Spec => []ClickIsPressed
  <1>1. PagesInv => ClickIsPressed
    BY DEF PagesInv
  <1> QED BY <1>1, PagesAgree, PTL

\* Where the core is free and widgets can be had, the page on a lit screen always
\* has its timer, also after a refused navigation (start_timer in page_create and
\* page_resume).
THEOREM TopPageHasTimer ==
    ASSUME "busy" \notin FaultKinds
    PROVE  Spec => []TopHasTimer
  <1>1. PagesInv /\ TopHasTimer /\ [Next]_vars => TopHasTimer'
    BY NextOK DEF StepOK, TimerStep
  <1> QED BY <1>1, PagesAgree, InitOK, PTL DEF Spec

\* No step changes the day of a day page that stays on the stack, whatever is
\* opened above it, imported or told by the clock (SelectDay, Tick,
\* restore_navigation).
THEOREM DayPagesKeepTheirDay == Spec => StaysOnDay
  <1>1. PagesInv /\ [Next]_vars => StaysStep
    BY NextOK DEF StepOK
  <1>2. PagesInv /\ [Next]_vars =>
            [InSeq(stack) \cap InSeq(stack') \cap {"Today"} # {} /\ app.day # 0 =>
                 app.day' = app.day]_vars
    BY <1>1 DEF StaysStep
  <1> QED BY <1>2, PagesAgree, PTL DEF Spec, StaysOnDay
=============================================================================
