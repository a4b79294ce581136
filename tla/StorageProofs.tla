---------------------------- MODULE StorageProofs ---------------------------
(***************************************************************************)
(* Storage implements WriteBehind for every window whose transactions do   *)
(* not fail, what is pending is always scheduled, and a whenFlushed that   *)
(* had to wait is fulfilled only when all is stored, for every value of    *)
(* the constants.                                                          *)
(*                                                                         *)
(* The proof goes from one window to all: each operation of a window keeps *)
(* the shape of its record and the agreement of its cache with what is     *)
(* stored, being stored and pending (Agree), and what one window stores    *)
(* leaves the own keys of the others alone.                                *)
(***************************************************************************)
EXTENDS Storage, TLAPS

Writable(w) == {k \in Key : w \in Writers[k]}
Present(r) == r.state \in {"initialized", "closed"}

(* The part of the invariant that concerns one window alone.               *)
Shape(w, r) ==
    /\ r \in WindowState
    /\ Coherent(r)
    /\ Touched(r.pending) \subseteq Writable(w)
    /\ Touched(r.running) \subseteq Writable(w)
    /\ ~Present(r) => ~HasPending(r) /\ r.phase = "idle" /\ ~r.waiting
    /\ w \in Healthy => r.phase # "aborted"

Scheduled(r) == HasPending(r) => r.timer \/ r.queued

(* What the database will hold when all that r has to store is stored; it  *)
(* is what r has in memory.                                                *)
Target(r, d) == Apply(r.pending, IF r.phase = "running" THEN Apply(r.running, d) ELSE d)

Agree(w, r, d) == Present(r) => \A k \in OwnKeys(w) : Target(r, d)[k] = r.cache[k]

(* Events on their way to w are not about its own keys.                    *)
Foreign(w, events) == \A i \in DOMAIN events : Touched(events[i]) \cap OwnKeys(w) = {}

IInv ==
    /\ disk \in Map
    /\ inbox \in [Window -> Seq(Update)]
    /\ unheard \subseteq Key
    /\ win \in [Window -> WindowState]
    /\ \A w \in Window : Shape(w, win[w]) /\ Scheduled(win[w])
    /\ \A w \in Healthy : Agree(w, win[w], disk)
    /\ \A w \in Window : Foreign(w, inbox[w])

-----------------------------------------------------------------------------
(* Updates.                                                                *)

LEMMA ApplyMap ==
  ASSUME NEW u \in Update, NEW m \in Map
  PROVE  Apply(u, m) \in Map
  BY DEF Apply, Update, Map

LEMMA ApplyUntouched ==
  ASSUME NEW u \in Update, NEW m, NEW k \in Key, k \notin Touched(u)
  PROVE  Apply(u, m)[k] = m[k]
  BY DEF Apply, Touched

(* What an update leaves behind under a key depends on that key alone.     *)
LEMMA ApplyPointwise ==
  ASSUME NEW u \in Update, NEW m, NEW n, NEW k \in Key, m[k] = n[k]
  PROVE  Apply(u, m)[k] = Apply(u, n)[k]
  BY DEF Apply

LEMMA NothingUpdate ==
  Nothing \in Update /\ Touched(Nothing) = {}
  BY DEF Nothing, Update, Empty, Map, Touched

(* A key that w alone writes is written by no other window.                *)
LEMMA OwnKeysAlone ==
  ASSUME NEW v, NEW w, v # w, NEW k \in OwnKeys(w)
  PROVE  k \in Key /\ k \notin Writable(v)
  BY DEF OwnKeys, Writable

(* Updating what w has to store leaves the own keys of others alone.       *)
LEMMA ApplyForeign ==
  ASSUME NEW v, NEW w, v # w, NEW u \in Update, Touched(u) \subseteq Writable(v),
         NEW m, NEW k \in OwnKeys(w)
  PROVE  Apply(u, m)[k] = m[k]
  BY OwnKeysAlone, ApplyUntouched

LEMMA AgreePointwise ==
  ASSUME NEW w \in Window, NEW r, Shape(w, r), NEW d, NEW e, Agree(w, r, d),
         \A k \in OwnKeys(w) : e[k] = d[k]
  PROVE  Agree(w, r, e)
  <1>1. r.pending \in Update /\ r.running \in Update
    BY DEF Shape, WindowState
  <1> SUFFICES ASSUME Present(r), NEW k \in OwnKeys(w)
               PROVE  Target(r, e)[k] = r.cache[k]
    BY DEF Agree
  <1>2. k \in Key /\ e[k] = d[k]
    BY DEF OwnKeys
  <1>3. Apply(r.running, e)[k] = Apply(r.running, d)[k]
    BY <1>1, <1>2, ApplyPointwise
  <1>4. Target(r, e)[k] = Target(r, d)[k]
    BY <1>1, <1>2, <1>3, ApplyPointwise DEF Target
  <1> QED BY <1>4 DEF Agree

-----------------------------------------------------------------------------
(* Operations of a window.                                                 *)

(* close goes on, or does not: nothing else changes.                       *)
LEMMA AdvanceShape ==
  ASSUME NEW w \in Window, NEW r, Shape(w, r),
         NEW from \in Progress \ {"no"}, NEW to \in Progress \ {"no"}
  PROVE  LET n == Advance(r, from, to)
         IN  /\ Shape(w, n)
             /\ n = [r EXCEPT !.closing = n.closing]
  <1> DEFINE n == Advance(r, from, to)
  <1>1. r \in WindowState /\ Coherent(r)
    BY DEF Shape
  <1>2. /\ n \in WindowState
        /\ n = [r EXCEPT !.closing = n.closing]
        /\ (n.closing # "no") <=> (r.closing # "no")
    BY <1>1 DEF Advance, WindowState
  <1>3. /\ n.pending = r.pending /\ n.running = r.running /\ n.phase = r.phase
        /\ n.queued = r.queued /\ n.state = r.state /\ n.waiting = r.waiting
    BY <1>1, <1>2 DEF WindowState
  <1>4. Coherent(n)
    BY <1>1, <1>2, <1>3 DEF Coherent
  <1> QED BY <1>2, <1>3, <1>4 DEF Shape, HasPending, Present

(* flushPending hands all that is pending over, or there is nothing.       *)
LEMMA FlushPendingShape ==
  ASSUME NEW w \in Window, NEW r, Shape(w, r), r.phase = "idle",
         NEW asked \in Progress \ {"no"}, NEW ran \in Progress \ {"no"}
  PROVE  LET n == FlushPending(r, asked, ran)
         IN  /\ Shape(w, n)
             /\ ~HasPending(n)
             /\ n.state = r.state /\ n.cache = r.cache /\ n.waiting = r.waiting
             /\ \/ HasPending(r) /\ n.phase = "running" /\ n.running = r.pending
                \/ ~HasPending(r) /\ n.phase = "idle" /\ n.pending = r.pending
  <1> DEFINE n == FlushPending(r, asked, ran)
  <1>1. CASE ~HasPending(r)
    <2>1. Shape(w, n) /\ n = [r EXCEPT !.closing = n.closing]
      BY <1>1, AdvanceShape DEF FlushPending, Progress
    <2>2. /\ n.state = r.state /\ n.cache = r.cache /\ n.waiting = r.waiting
          /\ n.phase = r.phase /\ n.pending = r.pending
      BY <2>1 DEF Shape, WindowState
    <2> QED BY <1>1, <2>1, <2>2 DEF HasPending
  <1>2. CASE HasPending(r)
    <2> DEFINE a == Advance(r, asked, ran)
    <2>1. Shape(w, a) /\ a = [r EXCEPT !.closing = a.closing]
      BY AdvanceShape
    <2>2. n = [a EXCEPT !.phase = "running", !.running = r.pending, !.pending = Nothing]
      BY <1>2 DEF FlushPending
    <2>3. a \in WindowState /\ r \in WindowState
      BY <2>1 DEF Shape
    <2>4. /\ a.state = r.state /\ a.cache = r.cache /\ a.waiting = r.waiting
          /\ a.queued = r.queued /\ a.pending = r.pending
      BY <2>1, <2>3 DEF WindowState
    <2> HIDE DEF a, n
    <2>5. n \in WindowState
      BY <2>2, <2>3, NothingUpdate DEF WindowState, Phase
    <2>6. /\ n.state = r.state /\ n.cache = r.cache /\ n.waiting = r.waiting
          /\ n.phase = "running" /\ n.running = r.pending /\ n.pending = Nothing
          /\ n.queued = a.queued /\ n.closing = a.closing
      BY <2>2, <2>3, <2>4 DEF WindowState
    <2>7. ~HasPending(n) /\ Touched(n.running) # {}
      BY <1>2, <2>6, NothingUpdate DEF HasPending
    <2>8. Coherent(n)
      BY <2>1, <2>4, <2>6, <2>7 DEF Coherent, Shape, Nothing
    <2>9. Present(r)
      BY <1>2 DEF Shape
    <2> QED BY <1>2, <2>5, <2>6, <2>7, <2>8, <2>9, NothingUpdate DEF Shape, Present, n
  <1> QED BY <1>1, <1>2

(* After an update the window goes on with what is pending, at once if a   *)
(* flush was kept behind it; whoever is released had nothing pending.      *)
Ended(r, to) ==
    RunQueued(Release(Advance(Advance(r, "first", "settled"), "second", to)))

LEMMA EndedShape ==
  ASSUME NEW w \in Window, NEW r, Shape(w, r), Scheduled(r), r.phase # "idle",
         NEW to \in Progress \ {"no"}
  PROVE  LET n == Ended(r, to)
         IN  /\ Shape(w, n) /\ Scheduled(n)
             /\ n.state = r.state /\ n.cache = r.cache
             /\ r.waiting /\ ~n.waiting => ~HasPending(r)
             /\ \/ n.phase = "running" /\ n.running = r.pending /\ ~HasPending(n)
                \/ n.phase = "idle" /\ n.pending = r.pending
  <1> DEFINE a == Advance(Advance(r, "first", "settled"), "second", to)
             b == Release(a)
             c == [b EXCEPT !.queued = FALSE]
             n == Ended(r, to)
  <1>1. Shape(w, a) /\ a = [r EXCEPT !.closing = a.closing]
    <2> DEFINE x == Advance(r, "first", "settled")
    <2>1. Shape(w, x) /\ x = [r EXCEPT !.closing = x.closing]
      BY AdvanceShape DEF Progress
    <2> HIDE DEF x
    <2>2. Shape(w, Advance(x, "second", to))
          /\ Advance(x, "second", to) = [x EXCEPT !.closing = Advance(x, "second", to).closing]
      BY <2>1, AdvanceShape DEF Progress
    <2> HIDE DEF a
    <2>3. a = Advance(x, "second", to)
      BY DEF a, x
    <2> QED BY <2>1, <2>2, <2>3 DEF Shape, WindowState
  <1>2. r \in WindowState /\ a \in WindowState
    BY <1>1 DEF Shape
  <1>3. /\ a.state = r.state /\ a.cache = r.cache /\ a.pending = r.pending
        /\ a.timer = r.timer /\ a.queued = r.queued /\ a.waiting = r.waiting
    BY <1>1, <1>2 DEF WindowState
  <1> HIDE DEF a
  <1>4. /\ b \in WindowState
        /\ b.state = r.state /\ b.cache = r.cache /\ b.pending = r.pending
        /\ b.timer = r.timer /\ b.queued = r.queued
        /\ b.waiting = (r.waiting /\ HasPending(r))
        /\ b.phase = "idle" /\ b.running = Nothing /\ b.closing = a.closing
    <2>1. (a.waiting /\ HasPending(a)) \in BOOLEAN /\ HasPending(a) = HasPending(r)
      BY <1>3 DEF HasPending
    <2> QED BY <1>2, <1>3, <2>1, NothingUpdate DEF Release, WindowState, Phase
  <1> HIDE DEF b
  <1>5. /\ c \in WindowState
        /\ c.state = r.state /\ c.cache = r.cache /\ c.pending = r.pending
        /\ c.timer = r.timer /\ c.queued = FALSE /\ c.waiting = b.waiting
        /\ c.phase = "idle" /\ c.running = Nothing /\ c.closing = a.closing
    BY <1>4 DEF WindowState
  <1> HIDE DEF c
  <1>6. Shape(w, c)
    <2>1. Coherent(c)
      <3>1. Coherent(a)
        BY <1>1 DEF Shape
      <3>2. Touched(c.running) = {} /\ \A k \in c.running.deletes : c.running.inserts[k] = None
        BY <1>5, NothingUpdate DEF Nothing
      <3> QED BY <1>3, <1>5, <3>1, <3>2 DEF Coherent
    <2>2. Present(c)
      BY <1>5 DEF Shape, Present
    <2>3. Touched(c.pending) \subseteq Writable(w) /\ Touched(c.running) \subseteq Writable(w)
      BY <1>5, NothingUpdate DEF Shape
    <2> QED BY <1>5, <2>1, <2>2, <2>3 DEF Shape
  <1>7. n = IF b.queued THEN FlushPending(c, "queued", "second") ELSE b
    BY DEF Ended, RunQueued, a, b, c
  <1> HIDE DEF n
  <1>8. r.waiting /\ ~b.waiting => ~HasPending(r)
    BY <1>4
  <1>9. CASE b.queued
    <2>1. /\ Shape(w, n) /\ ~HasPending(n)
          /\ n.state = c.state /\ n.cache = c.cache /\ n.waiting = c.waiting
          /\ \/ HasPending(c) /\ n.phase = "running" /\ n.running = c.pending
             \/ ~HasPending(c) /\ n.phase = "idle" /\ n.pending = c.pending
      BY <1>5, <1>6, <1>7, <1>9, FlushPendingShape DEF Progress
    <2> QED BY <1>5, <1>8, <2>1 DEF Scheduled, n
  <1>10. CASE ~b.queued
    <2>1. c = b /\ n = b
      BY <1>4, <1>7, <1>10 DEF WindowState, c
    <2> QED BY <1>4, <1>6, <1>8, <1>10, <2>1 DEF Scheduled, HasPending, n
  <1> QED BY <1>9, <1>10

-----------------------------------------------------------------------------
(* One window of all.                                                      *)

(* A step of w that keeps its part of the invariant and the own keys of    *)
(* the others keeps the invariant.                                         *)
LEMMA WindowStep ==
  ASSUME IInv, NEW w \in Window, NEW n, Shape(w, n), Scheduled(n),
         win' = [win EXCEPT ![w] = n],
         disk' \in Map,
         \A v \in Window \ {w} : \A k \in OwnKeys(v) : disk'[k] = disk[k],
         w \in Healthy => Agree(w, n, disk'),
         inbox' \in [Window -> Seq(Update)],
         \A v \in Window : Foreign(v, inbox'[v]),
         unheard' \subseteq Key
  PROVE  IInv'
  <1>1. n \in WindowState
    BY DEF Shape
  <1>2. win' \in [Window -> WindowState]
    BY <1>1 DEF IInv
  <1>3. win'[w] = n /\ \A v \in Window \ {w} : win'[v] = win[v]
    BY DEF IInv
  <1>4. \A v \in Window : Shape(v, win'[v]) /\ Scheduled(win'[v])
    BY <1>3 DEF IInv
  <1>5. ASSUME NEW v \in Healthy
        PROVE  Agree(v, win'[v], disk')
    <2>1. v \in Window
      BY DEF Healthy
    <2>2. CASE v = w
      BY <1>3, <2>2
    <2>3. CASE v # w
      BY <1>3, <2>1, <2>3, AgreePointwise DEF IInv
    <2> QED BY <2>2, <2>3
  <1>6. /\ (\A v \in Window : Shape(v, win[v]) /\ Scheduled(win[v]))'
        /\ (\A v \in Healthy : Agree(v, win[v], disk))'
    BY <1>4, <1>5
  <1> QED BY <1>2, <1>6 DEF IInv

(* The update that runs, on disk or not, leaves the own keys of the others *)
(* alone.                                                                  *)
LEMMA RunningForeign ==
  ASSUME IInv, NEW w \in Window, NEW v \in Window \ {w}, NEW k \in OwnKeys(v)
  PROVE  Apply(win[w].running, disk)[k] = disk[k]
  <1>1. win[w].running \in Update /\ Touched(win[w].running) \subseteq Writable(w)
    BY DEF IInv, Shape, WindowState
  <1> QED BY <1>1, ApplyForeign

(* Hearing of an update of another window changes no own key.              *)
LEMMA ReceiveKeeps ==
  ASSUME IInv, NEW w \in Window, Receive(w)
  PROVE  IInv'
  <1> DEFINE r == win[w]
             u == Head(inbox[w])
             n == IF r.state = "closed" THEN r ELSE [r EXCEPT !.cache = Apply(u, r.cache)]
  <1>1. /\ inbox[w] \in Seq(Update) /\ inbox[w] # <<>> /\ inbox' = [inbox EXCEPT ![w] = Tail(@)]
        /\ UNCHANGED <<disk, unheard>>
        /\ inbox \in [Window -> Seq(Update)]
    BY DEF Receive, IInv
  <1>2. u \in Update /\ Touched(u) \cap OwnKeys(w) = {}
    BY <1>1 DEF IInv, Foreign
  <1>3. r \in WindowState /\ Shape(w, r) /\ Scheduled(r)
    BY DEF IInv
  <1>4. win' = [win EXCEPT ![w] = n]
    BY DEF Receive, IInv
  <1>5. /\ n \in WindowState
        /\ n.state = r.state /\ n.pending = r.pending /\ n.timer = r.timer
        /\ n.phase = r.phase /\ n.running = r.running /\ n.queued = r.queued
        /\ n.closing = r.closing /\ n.waiting = r.waiting
        /\ n.cache = r.cache \/ n.cache = Apply(u, r.cache)
    BY <1>2, <1>3, ApplyMap DEF WindowState
  <1> HIDE DEF n, u
  <1>6. Shape(w, n) /\ Scheduled(n)
    BY <1>3, <1>5 DEF Shape, Scheduled, Coherent, HasPending, Present
  <1>7. ASSUME w \in Healthy
        PROVE  Agree(w, n, disk)
    <2> SUFFICES ASSUME Present(n), NEW k \in OwnKeys(w)
                 PROVE  Target(n, disk)[k] = n.cache[k]
      BY DEF Agree
    <2>1. Target(r, disk)[k] = r.cache[k]
      BY <1>5, <1>7 DEF IInv, Agree, Present
    <2>2. Target(n, disk) = Target(r, disk)
      BY <1>5 DEF Target
    <2>3. Apply(u, r.cache)[k] = r.cache[k]
      BY <1>2, ApplyUntouched DEF OwnKeys
    <2> QED BY <1>5, <2>1, <2>2, <2>3
  <1>8. inbox' \in [Window -> Seq(Update)]
    BY <1>1
  <1>9. ASSUME NEW v \in Window
        PROVE  Foreign(v, inbox'[v])
    <2>1. CASE v = w
      <3>1. inbox'[v] = Tail(inbox[w])
        BY <1>1, <2>1
      <3>2. ASSUME NEW i \in DOMAIN Tail(inbox[w])
            PROVE  i + 1 \in DOMAIN inbox[w] /\ Tail(inbox[w])[i] = inbox[w][i + 1]
        BY <1>1
      <3> QED BY <2>1, <3>1, <3>2 DEF Foreign, IInv
    <2>2. CASE v # w
      BY <1>1, <2>2 DEF IInv
    <2> QED BY <2>1, <2>2
  <1> QED BY <1>1, <1>4, <1>6, <1>7, <1>8, <1>9, WindowStep DEF IInv

(* Steps that leave all but win[w] alone.                                  *)
LEMMA LocalStep ==
  ASSUME IInv, NEW w \in Window, NEW n, Shape(w, n), Scheduled(n),
         win' = [win EXCEPT ![w] = n], UNCHANGED <<disk, inbox, unheard>>,
         w \in Healthy => Agree(w, n, disk)
  PROVE  IInv'
  BY WindowStep DEF IInv

(* Steps that change nothing that Agree speaks of.                         *)
LEMMA AgreeSame ==
  ASSUME NEW w, NEW r, NEW n, NEW d, Agree(w, r, d),
         n.state = r.state \/ Present(r), n.cache = r.cache, n.pending = r.pending,
         n.phase = r.phase, n.running = r.running
  PROVE  Agree(w, n, d)
  BY DEF Agree, Target, Present

LEMMA ConnectKeeps ==
  ASSUME IInv, NEW w \in Window, Connect(w)
  PROVE  IInv'
  <1> DEFINE r == win[w]
             n == [Absent(r.writes, r.opens + 1) EXCEPT !.state = "connected"]
  <1>1. r \in WindowState /\ r.opens < MaxOpens
    BY DEF IInv, Connect
  <1>2. r.opens + 1 \in 0 .. MaxOpens /\ r.writes \in Nat
    BY <1>1, BoundAssumption DEF WindowState
  <1>3. Empty \in Map
    BY DEF Empty, Map
  <1>4. n \in WindowState /\ n.state = "connected" /\ n.pending = Nothing
        /\ n.running = Nothing /\ n.phase = "idle" /\ n.queued = FALSE /\ n.closing = "no"
        /\ n.waiting = FALSE
    BY <1>2, <1>3, NothingUpdate DEF Absent, WindowState, State, Phase, Progress
  <1>5. win' = [win EXCEPT ![w] = n] /\ UNCHANGED <<disk, inbox, unheard>>
    BY DEF Connect, IInv
  <1> HIDE DEF n
  <1>6. Shape(w, n) /\ Scheduled(n)
    BY <1>4, NothingUpdate DEF Shape, Scheduled, Coherent, Present, HasPending, Nothing
  <1>7. Agree(w, n, disk)
    BY <1>4 DEF Agree, Present
  <1> QED BY <1>5, <1>6, <1>7, LocalStep

LEMMA InitializeKeeps ==
  ASSUME IInv, NEW w \in Window, Initialize(w)
  PROVE  IInv'
  <1> DEFINE r == win[w]
             n == [r EXCEPT !.state = "initialized", !.cache = disk]
  <1>1. r \in WindowState /\ Shape(w, r) /\ Scheduled(r) /\ disk \in Map /\ r.state = "connected"
    BY DEF IInv, Initialize
  <1>2. /\ n \in WindowState /\ n.state = "initialized" /\ n.cache = disk
        /\ n.pending = r.pending /\ n.running = r.running /\ n.phase = r.phase
        /\ n.queued = r.queued /\ n.closing = r.closing /\ n.timer = r.timer
    BY <1>1 DEF WindowState, State
  <1>3. win' = [win EXCEPT ![w] = n] /\ UNCHANGED <<disk, inbox, unheard>>
    BY DEF Initialize, IInv
  <1> HIDE DEF n
  <1>4. ~HasPending(r) /\ r.phase = "idle"
    BY <1>1 DEF Shape, Present
  <1>5. Shape(w, n) /\ Scheduled(n)
    BY <1>1, <1>2, <1>4 DEF Shape, Scheduled, Coherent, Present, HasPending
  <1>6. Agree(w, n, disk)
    BY <1>1, <1>2, <1>4, ApplyUntouched DEF Agree, Target, HasPending, OwnKeys, WindowState
  <1> QED BY <1>3, <1>5, <1>6, LocalStep

(* What set and delete add to what is pending is an update, of writable    *)
(* keys, that leaves under k what was written and nothing else behind.     *)
LEMMA InsertedUpdate ==
  ASSUME NEW u \in Update, NEW k \in Key, NEW v \in Value,
         \A j \in u.deletes : u.inserts[j] = None
  PROVE  LET n == Inserted(u, k, v)
         IN  /\ n \in Update
             /\ \A j \in n.deletes : n.inserts[j] = None
             /\ Touched(n) = Touched(u) \cup {k}
             /\ \A d : \A j \in Key : Apply(n, d)[j] = IF j = k THEN v ELSE Apply(u, d)[j]
  <1> DEFINE n == Inserted(u, k, v)
  <1>1. /\ n \in Update
        /\ n.inserts = [u.inserts EXCEPT ![k] = v] /\ n.deletes = u.deletes \ {k}
    BY DEF Inserted, Update, Map
  <1>2. v # None
    BY NoneAssumption
  <1>3. /\ n.inserts[k] = v
        /\ \A j \in Key \ {k} : n.inserts[j] = u.inserts[j]
    BY <1>1 DEF Update, Map
  <1> HIDE DEF n
  <1>4. \A j \in n.deletes : n.inserts[j] = None
    BY <1>1, <1>3 DEF Update
  <1>5. Touched(n) = Touched(u) \cup {k}
    BY <1>1, <1>2, <1>3 DEF Touched, Update
  <1>6. ASSUME NEW d, NEW j \in Key
        PROVE  Apply(n, d)[j] = IF j = k THEN v ELSE Apply(u, d)[j]
    BY <1>1, <1>2, <1>3 DEF Apply
  <1> QED BY <1>1, <1>4, <1>5, <1>6 DEF n

LEMMA DeletedUpdate ==
  ASSUME NEW u \in Update, NEW k \in Key, \A j \in u.deletes : u.inserts[j] = None
  PROVE  LET n == Deleted(u, k)
         IN  /\ n \in Update
             /\ \A j \in n.deletes : n.inserts[j] = None
             /\ Touched(n) = Touched(u) \cup {k}
             /\ \A d : \A j \in Key : Apply(n, d)[j] = IF j = k THEN None ELSE Apply(u, d)[j]
  <1> DEFINE n == Deleted(u, k)
  <1>1. /\ n \in Update
        /\ n.inserts = [u.inserts EXCEPT ![k] = None] /\ n.deletes = u.deletes \cup {k}
    BY DEF Deleted, Update, Map
  <1>2. /\ n.inserts[k] = None
        /\ \A j \in Key \ {k} : n.inserts[j] = u.inserts[j]
    BY <1>1 DEF Update, Map
  <1> HIDE DEF n
  <1>3. \A j \in n.deletes : n.inserts[j] = None
    BY <1>1, <1>2 DEF Update
  <1>4. Touched(n) = Touched(u) \cup {k}
    BY <1>1, <1>2 DEF Touched, Update
  <1>5. ASSUME NEW d, NEW j \in Key
        PROVE  Apply(n, d)[j] = IF j = k THEN None ELSE Apply(u, d)[j]
    BY <1>1, <1>2 DEF Apply
  <1> QED BY <1>1, <1>3, <1>4, <1>5 DEF n

LEMMA WriteKeeps ==
  ASSUME IInv, NEW w \in Window, NEW k \in Key, NEW v \in Value \cup {None}, Write(w, k, v)
  PROVE  IInv'
  <1> DEFINE r == win[w]
             u == IF v = None THEN Deleted(r.pending, k) ELSE Inserted(r.pending, k, v)
             n == [r EXCEPT !.cache[k] = v, !.pending = u, !.timer = TRUE,
                            !.writes = r.writes + 1]
  <1>1. r \in WindowState /\ Shape(w, r) /\ r.state = "initialized" /\ w \in Writers[k]
        /\ r.pending \in Update /\ \A j \in r.pending.deletes : r.pending.inserts[j] = None
    BY DEF IInv, Write, Shape, Coherent, WindowState
  <1>2. /\ u \in Update
        /\ \A j \in u.deletes : u.inserts[j] = None
        /\ Touched(u) = Touched(r.pending) \cup {k}
        /\ \A d : \A j \in Key : Apply(u, d)[j] = IF j = k THEN v ELSE Apply(r.pending, d)[j]
    <2>1. CASE v = None
      BY <1>1, <2>1, DeletedUpdate
    <2>2. CASE v # None
      BY <1>1, <2>2, InsertedUpdate
    <2> QED BY <2>1, <2>2
  <1>3. win' = [win EXCEPT ![w] = n] /\ UNCHANGED <<disk, inbox, unheard>>
    BY DEF Write, IInv
  <1> HIDE DEF u
  <1>4. r.writes + 1 \in Nat /\ [r.cache EXCEPT ![k] = v] \in Map
    BY <1>1 DEF WindowState, Map
  <1>5. /\ n \in WindowState /\ n.state = r.state /\ n.cache = [r.cache EXCEPT ![k] = v]
        /\ n.pending = u /\ n.running = r.running /\ n.phase = r.phase
        /\ n.queued = r.queued /\ n.closing = r.closing /\ n.timer = TRUE
    BY <1>1, <1>2, <1>4 DEF WindowState
  <1> HIDE DEF n
  <1>6. Shape(w, n)
    <2>1. Coherent(n)
      BY <1>1, <1>2, <1>5 DEF Shape, Coherent
    <2>2. Touched(n.pending) \subseteq Writable(w)
      BY <1>1, <1>2, <1>5 DEF Shape, Writable
    <2> QED BY <1>1, <1>5, <2>1, <2>2 DEF Shape, Present
  <1>7. Scheduled(n)
    BY <1>5 DEF Scheduled
  <1>8. ASSUME w \in Healthy
        PROVE  Agree(w, n, disk)
    <2> SUFFICES ASSUME NEW j \in OwnKeys(w)
                 PROVE  Target(n, disk)[j] = n.cache[j]
      BY DEF Agree
    <2>1. j \in Key
      BY DEF OwnKeys
    <2>2. Target(r, disk)[j] = r.cache[j]
      BY <1>1, <1>8 DEF IInv, Agree, Present
    <2>3. Target(n, disk)[j] = IF j = k THEN v ELSE Target(r, disk)[j]
      BY <1>2, <1>5, <2>1 DEF Target
    <2>4. n.cache[j] = IF j = k THEN v ELSE r.cache[j]
      BY <1>1, <1>5, <2>1 DEF WindowState, Map
    <2> QED BY <2>2, <2>3, <2>4
  <1> QED BY <1>3, <1>6, <1>7, <1>8, LocalStep

(* whenFlushed, flush, close until its first await, its last step, and the *)
(* transaction that aborts: what is stored and pending stays.              *)
LEMMA FlagsKeep ==
  ASSUME IInv, NEW w \in Window,
         WhenFlushed(w) \/ Flush(w) \/ Close(w) \/ CloseDatabase(w) \/ Abort(w)
  PROVE  IInv'
  <1> DEFINE r == win[w]
  <1>1. r \in WindowState /\ Shape(w, r) /\ Scheduled(r) /\ Coherent(r)
    BY DEF IInv, Shape
  <1> SUFFICES ASSUME NEW n, n \in WindowState, Coherent(n),
                      win' = [win EXCEPT ![w] = n], UNCHANGED <<disk, inbox, unheard>>,
                      n.state = r.state \/ (Present(r) /\ Present(n)),
                      n.cache = r.cache, n.pending = r.pending, n.running = r.running,
                      n.queued = r.queued, r.timer => n.timer, n.waiting = r.waiting \/ Present(n),
                      \/ n.phase = r.phase
                      \/ n.phase = "aborted" /\ r.phase = "running" /\ w \notin Healthy
               PROVE  IInv'
    <2>1. CASE WhenFlushed(w)
      <3> DEFINE n == [r EXCEPT !.waiting = TRUE]
      <3>1. n \in WindowState /\ Coherent(n)
        BY <1>1 DEF WindowState, Coherent
      <3>2. Present(n)
        BY <1>1, <2>1 DEF WhenFlushed, WindowState, Present
      <3> QED BY <1>1, <2>1, <3>1, <3>2 DEF WhenFlushed, WindowState, IInv
    <2>2. CASE Flush(w)
      <3> DEFINE n == [r EXCEPT !.timer = TRUE]
      <3>1. n \in WindowState /\ Coherent(n)
        BY <1>1 DEF WindowState, Coherent
      <3> QED BY <1>1, <2>2, <3>1 DEF Flush, WindowState, IInv
    <2>3. CASE Close(w)
      <3> DEFINE n == [r EXCEPT !.state = "closed", !.timer = TRUE, !.closing = "flush"]
      <3>1. n \in WindowState /\ Coherent(n)
        BY <1>1 DEF WindowState, Coherent, State, Progress
      <3>2. Present(r) /\ Present(n)
        BY <1>1, <2>3 DEF Close, Present, WindowState
      <3>3. win' = [win EXCEPT ![w] = n] /\ UNCHANGED <<disk, inbox, unheard>>
        BY <2>3 DEF Close, IInv
      <3> QED BY <1>1, <3>1, <3>2, <3>3 DEF WindowState
    <2>4. CASE CloseDatabase(w)
      <3> DEFINE n == [r EXCEPT !.closing = "done"]
      <3>1. n \in WindowState /\ Coherent(n)
        BY <1>1, <2>4 DEF WindowState, Coherent, Progress, CloseDatabase
      <3> QED BY <1>1, <2>4, <3>1 DEF CloseDatabase, WindowState, IInv
    <2>5. CASE Abort(w)
      <3> DEFINE n == [r EXCEPT !.phase = "aborted"]
      <3>1. n \in WindowState /\ Coherent(n)
        BY <1>1, <2>5 DEF WindowState, Coherent, Phase, Abort
      <3>2. w \notin Healthy /\ r.phase = "running"
        BY <2>5 DEF Abort, Healthy
      <3> QED BY <1>1, <2>5, <3>1, <3>2 DEF Abort, WindowState, IInv
    <2> QED BY <2>1, <2>2, <2>3, <2>4, <2>5
  <1>2. Shape(w, n) /\ Scheduled(n)
    BY <1>1 DEF Shape, Scheduled, Present, HasPending
  <1>3. ASSUME w \in Healthy
        PROVE  Agree(w, n, disk)
    BY <1>1, <1>3, AgreeSame DEF IInv, Shape, Present
  <1> QED BY <1>2, <1>3, LocalStep

LEMMA TimerFiresKeeps ==
  ASSUME IInv, NEW w \in Window, TimerFires(w)
  PROVE  IInv'
  <1> DEFINE r == win[w]
             s == [r EXCEPT !.timer = FALSE]
             n == IF s.phase = "idle" THEN FlushPending(s, "flush", "first")
                  ELSE [Advance(s, "flush", "queued") EXCEPT !.queued = TRUE]
  <1>1. r \in WindowState /\ Shape(w, r) /\ Scheduled(r)
    BY DEF IInv, Shape
  <1>2. /\ s \in WindowState /\ s.state = r.state /\ s.cache = r.cache
        /\ s.pending = r.pending /\ s.running = r.running /\ s.phase = r.phase
        /\ s.queued = r.queued /\ s.closing = r.closing /\ s.waiting = r.waiting
    BY <1>1 DEF WindowState
  <1>3. win' = [win EXCEPT ![w] = n] /\ UNCHANGED <<disk, inbox, unheard>>
    BY DEF TimerFires, IInv
  <1> HIDE DEF s
  <1>4. Shape(w, s)
    BY <1>1, <1>2 DEF Shape, Coherent, Present, HasPending
  <1>5. w \in Healthy => Agree(w, s, disk)
    BY <1>1, <1>2, AgreeSame DEF IInv
  <1>6. CASE s.phase = "idle"
    <2>1. /\ Shape(w, n)
          /\ ~HasPending(n)
          /\ n.state = s.state /\ n.cache = s.cache /\ n.waiting = s.waiting
          /\ \/ HasPending(s) /\ n.phase = "running" /\ n.running = s.pending
             \/ ~HasPending(s) /\ n.phase = "idle" /\ n.pending = s.pending
      BY <1>4, <1>6, FlushPendingShape DEF Progress
    <2> HIDE DEF n
    <2>2. ASSUME Agree(w, s, disk)
          PROVE  Agree(w, n, disk)
      <3> SUFFICES ASSUME Present(n), NEW k \in OwnKeys(w)
                   PROVE  Target(n, disk)[k] = n.cache[k]
        BY DEF Agree
      <3>1. k \in Key /\ Target(s, disk)[k] = s.cache[k] /\ n.pending \in Update
        BY <2>1, <2>2 DEF Agree, Present, OwnKeys, Shape, WindowState
      <3>2. Target(n, disk)[k] = Target(s, disk)[k]
        BY <1>6, <2>1, <3>1, ApplyUntouched DEF Target, HasPending
      <3> QED BY <2>1, <3>1, <3>2
    <2>3. Scheduled(n)
      BY <2>1 DEF Scheduled
    <2> QED BY <1>3, <1>5, <2>1, <2>2, <2>3, LocalStep
  <1>7. CASE s.phase # "idle"
    <2> DEFINE a == Advance(s, "flush", "queued")
    <2>1. Shape(w, a) /\ a = [s EXCEPT !.closing = a.closing]
      BY <1>4, AdvanceShape DEF Progress
    <2>2. /\ a \in WindowState /\ a.state = s.state /\ a.cache = s.cache
          /\ a.pending = s.pending /\ a.running = s.running /\ a.phase = s.phase
          /\ a.waiting = s.waiting
      BY <1>2, <2>1 DEF Shape, WindowState
    <2> HIDE DEF a
    <2>3. n = [a EXCEPT !.queued = TRUE]
      BY <1>7 DEF a
    <2> HIDE DEF n
    <2>4. /\ n \in WindowState /\ n.state = a.state /\ n.cache = a.cache
          /\ n.pending = a.pending /\ n.running = a.running /\ n.phase = a.phase
          /\ n.queued = TRUE /\ n.closing = a.closing /\ n.waiting = a.waiting
      BY <2>2, <2>3 DEF WindowState
    <2>5. Shape(w, n) /\ Scheduled(n)
      BY <1>7, <2>1, <2>2, <2>4 DEF Shape, Scheduled, Coherent, Present, HasPending
    <2>6. w \in Healthy => Agree(w, n, disk)
      BY <1>5, <2>2, <2>4, AgreeSame
    <2> QED BY <1>3, <2>5, <2>6, LocalStep
  <1> QED BY <1>6, <1>7

LEMMA CommitKeeps ==
  ASSUME IInv, NEW w \in Window, Commit(w)
  PROVE  IInv'
  <1> DEFINE r == win[w]
             n == [r EXCEPT !.phase = "committed"]
  <1>1. r \in WindowState /\ Shape(w, r) /\ Scheduled(r) /\ r.phase = "running" /\ disk \in Map
    BY DEF IInv, Commit
  <1>2. /\ n \in WindowState /\ n.state = r.state /\ n.cache = r.cache
        /\ n.pending = r.pending /\ n.running = r.running /\ n.phase = "committed"
        /\ n.queued = r.queued /\ n.closing = r.closing /\ n.timer = r.timer
        /\ n.waiting = r.waiting
    BY <1>1 DEF WindowState, Phase
  <1>3. /\ win' = [win EXCEPT ![w] = n] /\ UNCHANGED <<inbox, unheard>>
        /\ disk' = Apply(r.running, disk)
    BY DEF Commit, IInv
  <1> HIDE DEF n
  <1>4. disk' \in Map
    BY <1>1, <1>3, ApplyMap DEF WindowState
  <1>5. Shape(w, n) /\ Scheduled(n)
    BY <1>1, <1>2 DEF Shape, Scheduled, Coherent, Present, HasPending
  <1>6. ASSUME w \in Healthy
        PROVE  Agree(w, n, disk')
    <2>1. Target(n, disk') = Target(r, disk)
      BY <1>1, <1>2, <1>3 DEF Target
    <2> QED BY <1>2, <1>6, <2>1 DEF IInv, Agree, Present
  <1> QED BY <1>3, <1>4, <1>5, <1>6, RunningForeign, WindowStep DEF IInv

(* What the window has to store is the same when its update is on disk.    *)
LEMMA EndedAgree ==
  ASSUME NEW w \in Window, NEW r, Shape(w, r), Scheduled(r), r.phase = "committed",
         NEW to \in Progress \ {"no"}, NEW d, Agree(w, r, d)
  PROVE  Agree(w, Ended(r, to), d)
  <1> DEFINE n == Ended(r, to)
  <1>1. /\ Shape(w, n)
        /\ n.state = r.state /\ n.cache = r.cache
        /\ \/ n.phase = "running" /\ n.running = r.pending /\ ~HasPending(n)
           \/ n.phase = "idle" /\ n.pending = r.pending
    BY EndedShape
  <1> HIDE DEF n
  <1> SUFFICES ASSUME Present(n), NEW k \in OwnKeys(w)
               PROVE  Target(n, d)[k] = n.cache[k]
    BY DEF Agree, n
  <1>2. k \in Key /\ Target(r, d)[k] = r.cache[k] /\ n.pending \in Update
    BY <1>1 DEF Agree, Present, OwnKeys, Shape, WindowState
  <1>3. Target(n, d)[k] = Target(r, d)[k]
    BY <1>1, <1>2, ApplyUntouched DEF Target, HasPending
  <1> QED BY <1>1, <1>2, <1>3

LEMMA CompleteKeeps ==
  ASSUME IInv, NEW w \in Window, Complete(w)
  PROVE  IInv'
  <1> DEFINE r == win[w]
             n == Ended(r, "settled")
  <1>1. /\ r \in WindowState /\ Shape(w, r) /\ Scheduled(r) /\ r.phase = "committed"
        /\ r.running \in Update /\ Touched(r.running) \subseteq Writable(w)
    BY DEF IInv, Complete, Shape, WindowState
  <1>2. /\ win' = [win EXCEPT ![w] = n] /\ disk' = disk
        /\ unheard' = unheard \ Touched(r.running)
        /\ inbox' = [v \in Window |-> IF v # w /\ win[v].state # "absent"
                                      THEN Append(inbox[v], r.running) ELSE inbox[v]]
    BY DEF Complete, IInv, Ended
  <1>3. Shape(w, n) /\ Scheduled(n)
    BY <1>1, EndedShape DEF Progress
  <1>4. w \in Healthy => Agree(w, n, disk')
    BY <1>1, <1>2, EndedAgree DEF IInv, Progress
  <1>5. inbox' \in [Window -> Seq(Update)]
    BY <1>1, <1>2 DEF IInv
  <1>6. ASSUME NEW v \in Window
        PROVE  Foreign(v, inbox'[v])
    <2>1. inbox[v] \in Seq(Update) /\ Foreign(v, inbox[v])
      BY DEF IInv
    <2>2. CASE v # w /\ win[v].state # "absent"
      <3>1. inbox'[v] = Append(inbox[v], r.running)
        BY <1>2, <2>2
      <3>2. Touched(r.running) \cap OwnKeys(v) = {}
        BY <1>1, <2>2, OwnKeysAlone
      <3> HIDE DEF r
      <3>3. ASSUME NEW i \in DOMAIN Append(inbox[v], r.running)
            PROVE  \/ i \in DOMAIN inbox[v] /\ Append(inbox[v], r.running)[i] = inbox[v][i]
                   \/ Append(inbox[v], r.running)[i] = r.running
        BY <2>1
      <3> QED BY <2>1, <3>1, <3>2, <3>3 DEF Foreign
    <2>3. CASE ~(v # w /\ win[v].state # "absent")
      BY <1>2, <2>1, <2>3
    <2> QED BY <2>2, <2>3
  <1>7. disk' \in Map /\ unheard' \subseteq Key
    BY <1>2 DEF IInv
  <1> HIDE DEF n
  <1> QED BY <1>2, <1>3, <1>4, <1>5, <1>6, <1>7, WindowStep

LEMMA FailKeeps ==
  ASSUME IInv, NEW w \in Window, Fail(w)
  PROVE  IInv'
  <1> DEFINE r == win[w]
             n == Ended(r, "hung")
  <1>1. Shape(w, r) /\ Scheduled(r) /\ r.phase = "running" /\ w \notin Healthy
    BY DEF IInv, Fail, Healthy
  <1>2. win' = [win EXCEPT ![w] = n] /\ UNCHANGED <<disk, inbox, unheard>>
    BY DEF Fail, IInv, Ended
  <1>3. Shape(w, n) /\ Scheduled(n)
    BY <1>1, EndedShape DEF Progress
  <1> HIDE DEF n
  <1> QED BY <1>1, <1>2, <1>3, LocalStep

LEMMA LeaveKeeps ==
  ASSUME IInv, NEW w \in Window, Leave(w)
  PROVE  IInv'
  <1> DEFINE r == win[w]
             n == Absent(r.writes, r.opens)
  <1>1. r \in WindowState /\ disk \in Map /\ r.running \in Update
    BY DEF IInv, WindowState
  <1>2. Empty \in Map
    BY DEF Empty, Map
  <1>3. /\ n \in WindowState /\ n.state = "absent" /\ n.pending = Nothing
        /\ n.running = Nothing /\ n.phase = "idle" /\ n.queued = FALSE /\ n.closing = "no"
        /\ n.waiting = FALSE
    BY <1>1, <1>2, NothingUpdate DEF Absent, WindowState, State, Phase, Progress
  <1>4. /\ win' = [win EXCEPT ![w] = n]
        /\ inbox' = [inbox EXCEPT ![w] = <<>>]
        /\ disk' = disk \/ disk' = Apply(r.running, disk)
        /\ unheard' = unheard \/ unheard' = unheard \cup Touched(r.running)
    BY DEF Leave, IInv
  <1> HIDE DEF n
  <1>5. Shape(w, n) /\ Scheduled(n)
    BY <1>3, NothingUpdate DEF Shape, Scheduled, Coherent, Present, HasPending, Nothing
  <1>6. Agree(w, n, disk')
    BY <1>3 DEF Agree, Present
  <1>7. disk' \in Map /\ unheard' \subseteq Key
    BY <1>1, <1>4, ApplyMap DEF IInv, Touched, Update
  <1>8. inbox' \in [Window -> Seq(Update)] /\ \A v \in Window : Foreign(v, inbox'[v])
    BY <1>4 DEF IInv, Foreign
  <1>9. \A v \in Window \ {w} : \A k \in OwnKeys(v) : disk'[k] = disk[k]
    BY <1>4, RunningForeign
  <1> QED BY <1>4, <1>5, <1>6, <1>7, <1>8, <1>9, WindowStep

LEMMA InitIInv == Init => IInv
  <1> SUFFICES ASSUME Init
               PROVE  IInv
    OBVIOUS
  <1> DEFINE n == Absent(0, 0)
  <1>1. Empty \in Map /\ 0 \in 0 .. MaxOpens
    BY BoundAssumption DEF Empty, Map
  <1>2. /\ n \in WindowState /\ n.state = "absent" /\ n.pending = Nothing
        /\ n.running = Nothing /\ n.phase = "idle" /\ n.queued = FALSE /\ n.closing = "no"
        /\ n.waiting = FALSE
    BY <1>1, NothingUpdate DEF Absent, WindowState, State, Phase, Progress
  <1>3. win = [w \in Window |-> n]
    BY DEF Init
  <1> HIDE DEF n
  <1>4. \A w \in Window : win[w] = n
    BY <1>3
  <1>5. ASSUME NEW w \in Window
        PROVE  Shape(w, n) /\ Scheduled(n) /\ Agree(w, n, disk)
    BY <1>2, NothingUpdate
       DEF Shape, Scheduled, Coherent, Present, HasPending, Nothing, Agree
  <1>6. inbox \in [Window -> Seq(Update)] /\ \A w \in Window : Foreign(w, inbox[w])
    BY DEF Init, Foreign
  <1> QED BY <1>1, <1>2, <1>3, <1>4, <1>5, <1>6 DEF IInv, Init, Healthy

LEMMA NextIInv == IInv /\ [Next]_vars => IInv'
  <1> SUFFICES ASSUME IInv, [Next]_vars
               PROVE  IInv'
    OBVIOUS
  <1>1. ASSUME NEW w \in Window, Step(w)
        PROVE  IInv'
    BY <1>1, ConnectKeeps, InitializeKeeps, ReceiveKeeps, WriteKeeps, FlagsKeep,
       TimerFiresKeeps, CommitKeeps, CompleteKeeps, FailKeeps, LeaveKeeps DEF Step
  <1>2. CASE UNCHANGED vars
    BY <1>2 DEF vars, IInv
  <1> QED BY <1>1, <1>2 DEF Next

(* The inductive invariant: what a window has in memory is what the        *)
(* database will hold once its running and its pending update are stored.  *)
THEOREM Invariance == Spec => []IInv
  BY InitIInv, NextIInv, PTL DEF Spec

(* Types, and that no update inserts and deletes the same key (set and     *)
(* delete), in every state.                                                *)
THEOREM TypeCorrect == Spec => []TypeOK
  <1>1. IInv => TypeOK
    BY DEF IInv, TypeOK, Shape
  <1> QED BY <1>1, Invariance, PTL

(* What waits to be stored always has a timer or a place behind the update *)
(* that runs (doFlush, Throttler.queue).                                   *)
THEOREM SchedulesUpdates == Spec => []PendingScheduled
  <1>1. IInv => PendingScheduled
    BY DEF IInv, PendingScheduled, Scheduled
  <1> QED BY <1>1, Invariance, PTL

-----------------------------------------------------------------------------
(* The refinement.                                                         *)

(* What WriteBehind calls newest, batch and saved, for the record r of w   *)
(* and the database d.                                                     *)
Newest(w, r, d) == Own(w, IF r.state \in {"initialized", "closed"} THEN r.cache ELSE d)
Batch(w, r, d) == Own(w, IF r.phase = "running" THEN Apply(r.running, d) ELSE d)

(* A step of WriteBehind, from one such state to another.                  *)
Behind(w, r, d, n, e) ==
    \/ /\ Newest(w, n, e) \in {Own(w, m) : m \in Map}
       /\ Batch(w, n, e) = Batch(w, r, d) /\ Own(w, e) = Own(w, d)
    \/ /\ Batch(w, r, d) = Own(w, d) /\ Batch(w, n, e) = Newest(w, r, d)
       /\ Newest(w, n, e) = Newest(w, r, d) /\ Own(w, e) = Own(w, d)
    \/ /\ Own(w, e) = Batch(w, r, d)
       /\ Newest(w, n, e) = Newest(w, r, d) /\ Batch(w, n, e) = Batch(w, r, d)
    \/ /\ Own(w, e) \in {Own(w, d), Batch(w, r, d)}
       /\ Batch(w, n, e) = Own(w, e) /\ Newest(w, n, e) = Own(w, e)
    \/ /\ Newest(w, n, e) = Newest(w, r, d)
       /\ Batch(w, n, e) = Batch(w, r, d) /\ Own(w, e) = Own(w, d)

LEMMA BehindStep ==
  ASSUME NEW w \in Window, Behind(w, win[w], disk, win'[w], disk')
  PROVE  [WB(w)!Next]_(WB(w)!memory)
  BY DEF Behind, Newest, Batch, WB!Next, WB!memory, WB!Write, WB!Take, WB!Save, WB!Forget

LEMMA OwnEqual ==
  ASSUME NEW w, NEW m, NEW n, \A k \in OwnKeys(w) : m[k] = n[k]
  PROVE  Own(w, m) = Own(w, n)
  BY DEF Own

(* A step of another window is none for w.                                 *)
LEMMA OtherStep ==
  ASSUME IInv, NEW v \in Window, Step(v), NEW w \in Window \ {v}
  PROVE  /\ win'[w] = win[w]
         /\ Behind(w, win[w], disk, win'[w], disk')
  <1> DEFINE r == win[w]
  <1>1. win'[w] = r
    BY ZenonT(30) DEF IInv, Step, Connect, Initialize, Receive, Write, WhenFlushed, Flush, Close,
           TimerFires, Commit, Complete, Fail, Abort, CloseDatabase, Leave
  <1>2. \A k \in OwnKeys(w) : disk'[k] = disk[k]
    <2>1. disk' = disk \/ disk' = Apply(win[v].running, disk)
      BY DEF Step, Connect, Initialize, Receive, Write, WhenFlushed, Flush, Close,
             TimerFires, Commit, Complete, Fail, Abort, CloseDatabase, Leave
    <2> QED BY <2>1, RunningForeign
  <1>3. Own(w, disk') = Own(w, disk)
    BY <1>2, OwnEqual
  <1>4. r.running \in Update
    BY DEF IInv, WindowState
  <1>5. \A k \in OwnKeys(w) : Apply(r.running, disk')[k] = Apply(r.running, disk)[k]
    BY <1>2, <1>4, ApplyPointwise DEF OwnKeys
  <1>6. Own(w, Apply(r.running, disk')) = Own(w, Apply(r.running, disk))
    BY <1>5, OwnEqual
  <1> QED BY <1>1, <1>3, <1>6 DEF Behind, Newest, Batch

(* What a window is about to store, after what it is storing, is all that  *)
(* it has in memory.                                                       *)
LEMMA AllPending ==
  ASSUME NEW w \in Window, NEW r, Agree(w, r, disk), Present(r), r.phase # "running"
  PROVE  Own(w, Apply(r.pending, disk)) = Newest(w, r, disk)
  <1>1. \A k \in OwnKeys(w) : Apply(r.pending, disk)[k] = r.cache[k]
    BY DEF Agree, Target
  <1> QED BY <1>1, OwnEqual DEF Newest, Present

(* A window begins to store all that is pending, or nothing, while the     *)
(* database stays.                                                         *)
LEMMA TakeOrStay ==
  ASSUME NEW w \in Window, NEW r, Agree(w, r, disk), Shape(w, r), r.phase # "running",
         NEW n, n.state = r.state, n.cache = r.cache,
         \/ Present(r) /\ n.phase = "running" /\ n.running = r.pending
         \/ n.phase # "running"
  PROVE  Behind(w, r, disk, n, disk)
  <1>1. Newest(w, n, disk) = Newest(w, r, disk)
    BY DEF Newest
  <1>2. Batch(w, r, disk) = Own(w, disk)
    BY DEF Batch
  <1>3. CASE n.phase # "running"
    BY <1>1, <1>2, <1>3 DEF Behind, Batch
  <1>4. CASE Present(r) /\ n.phase = "running" /\ n.running = r.pending
    <2>1. Batch(w, n, disk) = Newest(w, r, disk)
      BY <1>4, AllPending DEF Batch
    <2> QED BY <1>1, <1>2, <2>1 DEF Behind
  <1> QED BY <1>3, <1>4

(* Neither the memory nor the database changes.                            *)
LEMMA Stays ==
  ASSUME NEW w, NEW r, NEW n,
         n.state = r.state \/ (Present(r) /\ Present(n)) \/ (~Present(r) /\ ~Present(n)),
         n.cache = r.cache \/ (~Present(r) /\ ~Present(n)),
         n.phase = r.phase, n.running = r.running
  PROVE  Behind(w, r, disk, n, disk)
  BY DEF Behind, Newest, Batch, Present

LEMMA OwnStep ==
  ASSUME IInv, NEW w \in Healthy, Step(w)
  PROVE  Behind(w, win[w], disk, win'[w], disk')
  <1> DEFINE r == win[w]
             n == win'[w]
  <1>1. /\ w \in Window /\ r \in WindowState /\ Shape(w, r) /\ Scheduled(r)
        /\ Agree(w, r, disk) /\ disk \in Map
        /\ win \in [Window -> WindowState] /\ w \notin Failing /\ w \notin Aborting
    BY DEF IInv, Healthy
  <1>2. CASE Connect(w)
    <2>1. disk' = disk /\ r.state = "absent" /\ r.phase = "idle"
      BY <1>1, <1>2 DEF Connect, Shape, Present
    <2>2. n.state = "connected" /\ n.phase = "idle"
      BY <1>1, <1>2 DEF Connect, Absent
    <2> QED BY <2>1, <2>2 DEF Behind, Newest, Batch
  <1>3. CASE Initialize(w)
    <2>1. disk' = disk /\ r.state = "connected"
          /\ n = [r EXCEPT !.state = "initialized", !.cache = disk]
      BY <1>1, <1>3 DEF Initialize
    <2>2. n.state = "initialized" /\ n.cache = disk /\ n.phase = r.phase /\ n.running = r.running
      BY <1>1, <2>1 DEF WindowState
    <2> QED BY <2>1, <2>2 DEF Behind, Newest, Batch
  <1>4. CASE Receive(w)
    <2> DEFINE u == Head(inbox[w])
    <2>1. u \in Update /\ Touched(u) \cap OwnKeys(w) = {}
      BY <1>1, <1>4 DEF IInv, Foreign, Receive
    <2>2. disk' = disk /\ n = (IF r.state = "closed" THEN r
                              ELSE [r EXCEPT !.cache = Apply(u, r.cache)])
      BY <1>1, <1>4 DEF Receive
    <2>3. /\ n.state = r.state /\ n.phase = r.phase /\ n.running = r.running
          /\ n.cache = r.cache \/ n.cache = Apply(u, r.cache)
      BY <1>1, <2>2 DEF WindowState
    <2>4. Own(w, Apply(u, r.cache)) = Own(w, r.cache)
      <3>1. \A k \in OwnKeys(w) : Apply(u, r.cache)[k] = r.cache[k]
        BY <2>1, ApplyUntouched DEF OwnKeys
      <3> QED BY <3>1, OwnEqual
    <2> QED BY <2>2, <2>3, <2>4 DEF Behind, Newest, Batch
  <1>5. ASSUME NEW k \in Key, NEW v \in Value \cup {None}, Write(w, k, v)
        PROVE  Behind(w, r, disk, n, disk')
    <2> DEFINE u == IF v = None THEN Deleted(r.pending, k) ELSE Inserted(r.pending, k, v)
    <2>1. disk' = disk /\ n = [r EXCEPT !.cache[k] = v, !.pending = u, !.timer = TRUE,
                                       !.writes = r.writes + 1]
      BY <1>1, <1>5 DEF Write
    <2> HIDE DEF u
    <2>2. /\ n.state = r.state /\ n.phase = r.phase /\ n.running = r.running
          /\ n.cache = [r.cache EXCEPT ![k] = v]
      BY <1>1, <2>1 DEF WindowState
    <2>3. n.cache \in Map
      BY <1>1, <2>2 DEF WindowState, Map
    <2> QED BY <1>1, <2>1, <2>2, <2>3 DEF Behind, Newest, Batch
  <1>6. CASE WhenFlushed(w) \/ Flush(w) \/ Close(w) \/ CloseDatabase(w)
    <2>1. disk' = disk
      BY <1>6 DEF WhenFlushed, Flush, Close, CloseDatabase
    <2>2. /\ n.state = r.state \/ (Present(r) /\ Present(n))
          /\ n.cache = r.cache /\ n.phase = r.phase /\ n.running = r.running
      BY <1>1, <1>6 DEF WhenFlushed, Flush, Close, CloseDatabase, WindowState, Present
    <2> QED BY <2>1, <2>2, Stays
  <1>7. CASE TimerFires(w)
    <2> DEFINE s == [r EXCEPT !.timer = FALSE]
    <2>1. /\ s \in WindowState /\ s.state = r.state /\ s.cache = r.cache
          /\ s.pending = r.pending /\ s.running = r.running /\ s.phase = r.phase
          /\ s.queued = r.queued /\ s.closing = r.closing /\ s.waiting = r.waiting
      BY <1>1 DEF WindowState
    <2>2. disk' = disk /\ n = (IF s.phase = "idle" THEN FlushPending(s, "flush", "first")
                              ELSE [Advance(s, "flush", "queued") EXCEPT !.queued = TRUE])
      BY <1>1, <1>7 DEF TimerFires
    <2> HIDE DEF s
    <2>3. Shape(w, s)
      BY <1>1, <2>1 DEF Shape, Coherent, Present, HasPending
    <2>4. CASE s.phase = "idle"
      <3>1. /\ n.state = s.state /\ n.cache = s.cache
            /\ \/ HasPending(s) /\ n.phase = "running" /\ n.running = s.pending
               \/ ~HasPending(s) /\ n.phase = "idle" /\ n.pending = s.pending
        BY <1>1, <2>2, <2>3, <2>4, FlushPendingShape DEF Progress
      <3>2. HasPending(s) => Present(r)
        BY <2>1, <2>3 DEF Shape, Present
      <3> QED BY <1>1, <2>1, <2>2, <2>4, <3>1, <3>2, TakeOrStay
    <2>5. CASE s.phase # "idle"
      <3> DEFINE a == Advance(s, "flush", "queued")
      <3>1. Shape(w, a) /\ a = [s EXCEPT !.closing = a.closing]
        BY <1>1, <2>3, AdvanceShape DEF Progress
      <3>2. /\ a \in WindowState /\ a.state = s.state /\ a.cache = s.cache
            /\ a.running = s.running /\ a.phase = s.phase
        BY <2>1, <3>1 DEF Shape, WindowState
      <3> HIDE DEF a
      <3>3. n = [a EXCEPT !.queued = TRUE]
        BY <2>2, <2>5 DEF a
      <3>4. n.state = r.state /\ n.cache = r.cache /\ n.running = r.running /\ n.phase = r.phase
        BY <2>1, <3>2, <3>3 DEF WindowState
      <3> QED BY <2>2, <3>4, Stays
    <2> QED BY <2>4, <2>5
  <1>8. CASE Commit(w)
    <2>1. r.phase = "running" /\ disk' = Apply(r.running, disk) /\ Present(r)
      BY <1>1, <1>8 DEF Commit, Shape
    <2>2. n.state = r.state /\ n.cache = r.cache /\ n.phase = "committed"
      BY <1>1, <1>8 DEF Commit, WindowState
    <2> QED BY <2>1, <2>2 DEF Behind, Newest, Batch, Present
  <1>9. CASE Complete(w)
    <2>1. r.phase = "committed" /\ disk' = disk /\ n = Ended(r, "settled") /\ Present(r)
      BY <1>1, <1>9 DEF Complete, Ended, Shape
    <2>2. /\ n.state = r.state /\ n.cache = r.cache
          /\ \/ n.phase = "running" /\ n.running = r.pending /\ ~HasPending(n)
             \/ n.phase = "idle" /\ n.pending = r.pending
      BY <1>1, <2>1, EndedShape DEF Progress
    <2> QED BY <1>1, <2>1, <2>2, TakeOrStay
  <1>10. CASE Leave(w)
    <2>1. disk' = disk \/ (r.phase = "running" /\ disk' = Apply(r.running, disk))
      BY <1>10 DEF Leave
    <2>2. n.state = "absent" /\ n.phase = "idle"
      BY <1>1, <1>10 DEF Leave, Absent
    <2> QED BY <2>1, <2>2 DEF Behind, Newest, Batch
  <1>11. ~Fail(w) /\ ~Abort(w)
    BY <1>1 DEF Fail, Abort
  <1> QED BY <1>2, <1>3, <1>4, <1>5, <1>6, <1>7, <1>8, <1>9, <1>10, <1>11 DEF Step

(* The database holds at every moment the whole of what a window had in    *)
(* memory at some earlier one, and never goes back (set, delete,           *)
(* flushPending, updateItems, however windows vanish and open again).      *)
THEOREM Implementation == Spec => ImplementsWriteBehind
  <1>1. ASSUME Init
        PROVE  \A w \in Healthy : WB(w)!Init
    <2>1. ASSUME NEW w \in Healthy
          PROVE  WB(w)!Init
      <3>1. win[w].state = "absent" /\ win[w].phase = "idle" /\ disk = Empty
        BY <1>1 DEF Init, Absent, Healthy
      <3>2. Empty \in Map
        BY DEF Empty, Map
      <3> QED BY <3>1, <3>2 DEF WB!Init
    <2> QED BY <2>1
  <1>2. ASSUME IInv, [Next]_vars
        PROVE  [\A w \in Healthy : [WB(w)!Next]_(WB(w)!memory)]_vars
    <2>1. CASE UNCHANGED vars
      BY <2>1
    <2>2. ASSUME NEW v \in Window, Step(v), NEW w \in Healthy
          PROVE  [WB(w)!Next]_(WB(w)!memory)
      <3>1. w \in Window
        BY DEF Healthy
      <3>2. Behind(w, win[w], disk, win'[w], disk')
        BY <1>2, <2>2, <3>1, OwnStep, OtherStep
      <3> QED BY <3>1, <3>2, BehindStep
    <2> QED BY <1>2, <2>1, <2>2 DEF Next
  <1>3. Spec => \A w \in Healthy : WB(w)!Init
    BY <1>1 DEF Spec
  <1> QED BY <1>2, <1>3, Invariance, PTL DEF Spec, ImplementsWriteBehind

(* A promise of whenFlushed that was kept waiting is fulfilled only when   *)
(* all that the window has set under its own keys is in the database.      *)
THEOREM KeepsItsPromise == Spec => FlushedIsStored
  <1>1. ASSUME IInv, NEW v \in Window, Step(v), NEW w \in Healthy,
               win[w].waiting, ~win'[w].waiting, win'[w].state # "absent"
        PROVE  Own(w, disk') = Own(w, win'[w].cache)
    <2> DEFINE r == win[w]
               n == win'[w]
    <2>1. /\ w \in Window /\ r \in WindowState /\ Shape(w, r) /\ Scheduled(r)
          /\ Agree(w, r, disk) /\ win \in [Window -> WindowState]
          /\ w \notin Failing /\ w \notin Aborting
      BY <1>1 DEF IInv, Healthy
    <2>2. v = w
      BY <1>1, <2>1, OtherStep
    <2>3. Complete(w)
      <3>1. ~Connect(w) /\ ~Initialize(w) /\ ~Fail(w) /\ ~Abort(w)
        BY <1>1, <2>1 DEF Connect, Initialize, Fail, Abort, Shape, Present
      <3>2. ~Commit(w) /\ ~Leave(w)
        <4>1. ~Commit(w)
          BY <1>1, <2>1 DEF Commit, WindowState
        <4>2. ~Leave(w)
          BY <1>1, <2>1 DEF Leave, Absent
        <4> QED BY <4>1, <4>2
      <3>6. ~Receive(w)
        <4> SUFFICES ASSUME Receive(w)
                     PROVE  n.waiting = r.waiting
          BY <1>1
        <4>1. CASE win' = win
          BY <4>1
        <4>2. CASE win' = [win EXCEPT ![w].cache = Apply(Head(inbox[w]), @)]
          <5>1. n = [r EXCEPT !.cache = Apply(Head(inbox[w]), @)]
            BY <2>1, <4>2
          <5> QED BY <2>1, <5>1 DEF WindowState
        <4> QED BY <4>1, <4>2 DEF Receive
      <3>3. ~WhenFlushed(w) /\ ~Flush(w) /\ ~Close(w) /\ ~CloseDatabase(w)
        BY <1>1, <2>1 DEF WhenFlushed, Flush, Close, CloseDatabase, WindowState
      <3>4. \A k \in Key, x \in Value \cup {None} : ~Write(w, k, x)
        BY <1>1, <2>1 DEF Write, WindowState
      <3>5. ~TimerFires(w)
        <4> SUFFICES ASSUME TimerFires(w)
                     PROVE  n.waiting = r.waiting
          BY <1>1
        <4> DEFINE s == [r EXCEPT !.timer = FALSE]
        <4>1. /\ s \in WindowState /\ s.state = r.state /\ s.waiting = r.waiting
              /\ s.pending = r.pending /\ s.running = r.running /\ s.phase = r.phase
              /\ s.queued = r.queued /\ s.closing = r.closing
          BY <2>1 DEF WindowState
        <4>2. n = IF s.phase = "idle" THEN FlushPending(s, "flush", "first")
                  ELSE [Advance(s, "flush", "queued") EXCEPT !.queued = TRUE]
          BY <2>1 DEF TimerFires
        <4> HIDE DEF s
        <4>3. Shape(w, s)
          BY <2>1, <4>1 DEF Shape, Coherent, Present, HasPending
        <4>4. CASE s.phase = "idle"
          BY <2>1, <4>1, <4>2, <4>3, <4>4, FlushPendingShape DEF Progress
        <4>5. CASE s.phase # "idle"
          BY <4>1, <4>2, <4>5 DEF Advance, WindowState
        <4> QED BY <4>4, <4>5
      <3> QED BY <1>1, <2>2, <3>1, <3>2, <3>3, <3>4, <3>5, <3>6 DEF Step
    <2>4. r.phase = "committed" /\ disk' = disk /\ n = Ended(r, "settled") /\ Present(r)
      BY <2>1, <2>3 DEF Complete, Ended, Shape
    <2>5. n.cache = r.cache /\ ~HasPending(r)
      BY <1>1, <2>1, <2>4, EndedShape DEF Progress
    <2>6. r.pending \in Update
      BY <2>1 DEF WindowState
    <2>7. \A k \in OwnKeys(w) : disk[k] = r.cache[k]
      BY <2>1, <2>4, <2>5, <2>6, ApplyUntouched DEF Agree, Target, HasPending, OwnKeys
    <2> QED BY <2>4, <2>5, <2>7, OwnEqual
  <1>2. IInv /\ [Next]_vars =>
            [\A w \in Healthy :
                 win[w].waiting /\ ~win'[w].waiting /\ win'[w].state # "absent"
                     => Own(w, disk') = Own(w, win'[w].cache)]_vars
    BY <1>1 DEF Next
  <1> QED BY <1>2, Invariance, PTL DEF Spec, FlushedIsStored

-----------------------------------------------------------------------------
(* What the other windows know.                                            *)

(* The last of the events about k says val.                                *)
LastIs(events, k, val) ==
    \E i \in About(events, k) :
        /\ \A j \in About(events, k) : j <= i
        /\ Apply(events[i], Empty)[k] = val

(* When all its events have arrived, the window of record q has val.       *)
Told(events, q, k, val) ==
    IF About(events, k) = {} THEN q.state = "initialized" => q.cache[k] = val
    ELSE LastIs(events, k, val)

(* The window of record p has stored k and will tell.                      *)
Due(p, k) == p.phase = "committed" /\ k \in Touched(p.running)

(* A window that is not there has no events, what a window will tell is    *)
(* what the database holds, and everybody else was told or will be.        *)
HearInv ==
    /\ \A w \in Window : win[w].state = "absent" => inbox[w] = <<>>
    /\ \A w \in Window : \A k \in OwnKeys(w) :
           Due(win[w], k) => Apply(win[w].running, Empty)[k] = disk[k]
    /\ \A w \in Window : \A k \in OwnKeys(w) \ unheard : \A r \in Window \ {w} :
           Due(win[w], k) \/ Told(inbox[r], win[r], k, disk[k])

LEMMA ApplyTouched ==
  ASSUME NEW u \in Update, NEW m, NEW n, NEW k \in Key, k \in Touched(u)
  PROVE  Apply(u, m)[k] = Apply(u, n)[k]
  BY DEF Apply, Touched

(* Events that arrive behind others.                                       *)
LEMMA ToldAppendOther ==
  ASSUME NEW events \in Seq(Update), NEW u \in Update, NEW k, k \notin Touched(u),
         NEW q, NEW val, Told(events, q, k, val)
  PROVE  Told(Append(events, u), q, k, val)
  <1> DEFINE more == Append(events, u)
  <1>1. /\ DOMAIN more = DOMAIN events \cup {Len(events) + 1}
        /\ more[Len(events) + 1] = u
        /\ \A i \in DOMAIN events : more[i] = events[i]
    OBVIOUS
  <1> HIDE DEF more
  <1>2. About(more, k) = About(events, k)
    BY <1>1 DEF About
  <1>3. \A i \in About(events, k) : more[i] = events[i]
    BY <1>1 DEF About
  <1> QED BY <1>2, <1>3 DEF Told, LastIs, more

LEMMA ToldAppendAbout ==
  ASSUME NEW events \in Seq(Update), NEW u \in Update, NEW k, k \in Touched(u),
         NEW q, NEW val, Apply(u, Empty)[k] = val
  PROVE  Told(Append(events, u), q, k, val)
  <1> DEFINE more == Append(events, u)
             n == Len(events) + 1
  <1>1. DOMAIN more = 1 .. n /\ more[n] = u /\ n \in Nat \ {0}
    OBVIOUS
  <1> HIDE DEF more, n
  <1>2. n \in About(more, k) /\ \A j \in About(more, k) : j <= n
    BY <1>1 DEF About
  <1> QED BY <1>1, <1>2 DEF Told, LastIs, more

(* An event that is heard.                                                 *)
LEMMA ToldTail ==
  ASSUME NEW events \in Seq(Update), events # <<>>, NEW k \in Key, NEW q, NEW val,
         Told(events, q, k, val), NEW p,
         p.state = "initialized" =>
             q.state = "initialized" /\ p.cache[k] = Apply(Head(events), q.cache)[k]
  PROVE  Told(Tail(events), p, k, val)
  <1> DEFINE u == Head(events)
             rest == Tail(events)
  <1>1. /\ u \in Update /\ u = events[1] /\ 1 \in DOMAIN events
        /\ \A i \in DOMAIN rest : i \in Nat /\ i + 1 \in DOMAIN events /\ rest[i] = events[i + 1]
        /\ \A i \in DOMAIN events : i \in Nat /\ (i = 1 \/ i - 1 \in DOMAIN rest)
    OBVIOUS
  <1> HIDE DEF u, rest
  <1>2. \A i \in About(rest, k) : i \in Nat /\ i + 1 \in About(events, k)
    BY <1>1 DEF About
  <1>3. \A i \in About(events, k) : i \in Nat /\ (i = 1 \/ i - 1 \in About(rest, k))
    <2> SUFFICES ASSUME NEW i \in About(events, k), i # 1
                 PROVE  i \in Nat /\ i - 1 \in About(rest, k)
      BY <1>1 DEF About
    <2>1. i \in Nat /\ i - 1 \in DOMAIN rest /\ k \in Touched(events[i])
      BY <1>1 DEF About
    <2>2. rest[i - 1] = events[(i - 1) + 1] /\ (i - 1) + 1 = i
      BY <1>1, <2>1
    <2> QED BY <2>1, <2>2 DEF About
  <1>4. CASE About(rest, k) # {}
    <2>1. About(events, k) # {}
      BY <1>2, <1>4
    <2>2. PICK i \in About(events, k) :
              /\ \A j \in About(events, k) : j <= i
              /\ Apply(events[i], Empty)[k] = val
      BY <2>1 DEF Told, LastIs
    <2>3. PICK j \in About(rest, k) : TRUE
      BY <1>4
    <2>4. j \in Nat /\ i \in Nat /\ j + 1 <= i /\ j # 0
      <3>1. j \in Nat /\ j + 1 \in About(events, k) /\ i \in Nat
        BY <1>2, <1>3
      <3>2. j # 0
        BY DEF About, rest
      <3> QED BY <2>2, <3>1, <3>2
    <2>5. i - 1 \in About(rest, k) /\ rest[i - 1] = events[i]
      <3>1. i - 1 \in About(rest, k)
        BY <1>3, <2>4
      <3>2. rest[i - 1] = events[(i - 1) + 1] /\ (i - 1) + 1 = i
        BY <1>1, <2>4, <3>1 DEF About
      <3> QED BY <3>1, <3>2
    <2>6. ASSUME NEW m \in About(rest, k)
          PROVE  m <= i - 1
      <3>1. m \in Nat /\ m + 1 <= i
        BY <1>2, <2>2
      <3> QED BY <2>4, <3>1
    <2> QED BY <1>4, <2>2, <2>5, <2>6 DEF Told, LastIs, rest
  <1>5. CASE About(rest, k) = {}
    <2> SUFFICES ASSUME p.state = "initialized"
                 PROVE  p.cache[k] = val
      BY <1>5 DEF Told, rest
    <2>1. CASE 1 \in About(events, k)
      <3>1. About(events, k) = {1}
        BY <1>3, <1>5, <2>1
      <3>2. Apply(u, Empty)[k] = val /\ k \in Touched(u)
        BY <1>1, <3>1 DEF Told, LastIs, About
      <3>3. Apply(u, q.cache)[k] = Apply(u, Empty)[k]
        BY <3>2 DEF Apply, Touched
      <3>4. p.cache[k] = Apply(u, q.cache)[k]
        BY DEF u
      <3> QED BY <3>2, <3>3, <3>4
    <2>2. CASE 1 \notin About(events, k)
      <3>1. About(events, k) = {} /\ k \notin Touched(u)
        BY <1>1, <1>3, <1>5, <2>2 DEF About
      <3>2. q.cache[k] = val
        BY <3>1 DEF Told, u
      <3> QED BY <1>1, <3>1, <3>2, ApplyUntouched DEF u
    <2> QED BY <2>1, <2>2
  <1> QED BY <1>4, <1>5

(* Whoever writes, waits, connects or fails changes nothing that others    *)
(* are told or that is due to them.                                        *)
Quiet(v) ==
    /\ UNCHANGED <<disk, inbox, unheard>>
    /\ \A w \in Window \ {v} : win'[w] = win[w]
    /\ win'[v].phase = "committed" <=> win[v].phase = "committed"
    /\ win[v].phase = "committed" => win'[v].running = win[v].running
    /\ win'[v].state = "absent" => win[v].state = "absent"
    /\ win'[v].state = "initialized" =>
           \/ win'[v].cache = disk
           \/ /\ win[v].state = "initialized"
              /\ \A k \in Key \ Writable(v) : win'[v].cache[k] = win[v].cache[k]

LEMMA QuietStep ==
  ASSUME IInv, NEW v \in Window, Step(v),
         ~Receive(v), ~Commit(v), ~Complete(v), ~Leave(v)
  PROVE  Quiet(v)
  <1> DEFINE r == win[v]
             n == win'[v]
  <1>1. /\ r \in WindowState /\ Shape(v, r) /\ Scheduled(r)
        /\ win \in [Window -> WindowState]
    BY DEF IInv
  <1>2. /\ UNCHANGED <<disk, inbox, unheard>>
        /\ \A w \in Window \ {v} : win'[w] = win[w]
    BY ZenonT(30), <1>1 DEF Step, Connect, Initialize, Write, WhenFlushed, Flush, Close, TimerFires,
                Fail, Abort, CloseDatabase
  <1> SUFFICES /\ n.phase = "committed" <=> r.phase = "committed"
               /\ r.phase = "committed" => n.running = r.running
               /\ n.state = "absent" => r.state = "absent"
               /\ n.state = "initialized" =>
                      \/ n.cache = disk
                      \/ /\ r.state = "initialized"
                         /\ \A k \in Key \ Writable(v) : n.cache[k] = r.cache[k]
    BY <1>2 DEF Quiet
  <1>3. CASE Connect(v)
    <2>1. r.phase = "idle" /\ n.phase = "idle" /\ n.state = "connected"
      BY <1>1, <1>3 DEF Connect, Absent, Shape, Present
    <2> QED BY <2>1
  <1>4. CASE Initialize(v)
    <2>1. n = [r EXCEPT !.state = "initialized", !.cache = disk]
      BY <1>1, <1>4 DEF Initialize
    <2> QED BY <1>1, <2>1 DEF WindowState
  <1>5. ASSUME NEW k \in Key, NEW x \in Value \cup {None}, Write(v, k, x)
        PROVE  /\ n.phase = r.phase /\ n.running = r.running
               /\ n.state = r.state /\ r.state = "initialized"
               /\ \A j \in Key \ Writable(v) : n.cache[j] = r.cache[j]
    <2> DEFINE u == IF x = None THEN Deleted(r.pending, k) ELSE Inserted(r.pending, k, x)
    <2>1. n = [r EXCEPT !.cache[k] = x, !.pending = u, !.timer = TRUE, !.writes = r.writes + 1]
      BY <1>1, <1>5 DEF Write
    <2> HIDE DEF u
    <2>2. /\ n.phase = r.phase /\ n.running = r.running /\ n.state = r.state
          /\ n.cache = [r.cache EXCEPT ![k] = x]
      BY <1>1, <2>1 DEF WindowState
    <2>3. k \in Writable(v) /\ r.state = "initialized"
      BY <1>5 DEF Write, Writable
    <2> QED BY <1>1, <2>2, <2>3 DEF WindowState, Map
  <1>6. CASE WhenFlushed(v) \/ Flush(v) \/ Close(v) \/ CloseDatabase(v) \/ Abort(v)
    <2>1. /\ (r.phase = "running" /\ n.phase = "aborted") \/ n.phase = r.phase
          /\ n.running = r.running /\ n.cache = r.cache
          /\ n.state = r.state \/ n.state = "closed"
      BY <1>1, <1>6 DEF WhenFlushed, Flush, Close, CloseDatabase, Abort, WindowState
    <2> QED BY <2>1
  <1>7. CASE TimerFires(v)
    <2> DEFINE s == [r EXCEPT !.timer = FALSE]
    <2>1. /\ s \in WindowState /\ s.state = r.state /\ s.cache = r.cache
          /\ s.pending = r.pending /\ s.running = r.running /\ s.phase = r.phase
          /\ s.queued = r.queued /\ s.closing = r.closing /\ s.waiting = r.waiting
      BY <1>1 DEF WindowState
    <2>2. n = (IF s.phase = "idle" THEN FlushPending(s, "flush", "first")
               ELSE [Advance(s, "flush", "queued") EXCEPT !.queued = TRUE])
      BY <1>1, <1>7 DEF TimerFires
    <2> HIDE DEF s
    <2>3. Shape(v, s)
      BY <1>1, <2>1 DEF Shape, Coherent, Present, HasPending
    <2>4. CASE s.phase = "idle"
      <3>1. /\ n.state = s.state /\ n.cache = s.cache
            /\ n.phase = "running" \/ n.phase = "idle"
        BY <1>1, <2>2, <2>3, <2>4, FlushPendingShape DEF Progress
      <3> QED BY <2>1, <2>2, <2>4, <3>1
    <2>5. CASE s.phase # "idle"
      <3>1. n.state = s.state /\ n.cache = s.cache /\ n.phase = s.phase /\ n.running = s.running
        BY <2>1, <2>2, <2>5 DEF Advance, WindowState
      <3> QED BY <2>1, <2>2, <3>1
    <2> QED BY <2>4, <2>5
  <1>8. CASE Fail(v)
    <2>1. r.phase = "running" /\ n = Ended(r, "hung") /\ Present(r)
      BY <1>1, <1>8 DEF Fail, Ended, Shape
    <2>2. n.state = r.state /\ n.cache = r.cache /\ n.phase \in {"running", "idle"}
      BY <1>1, <2>1, EndedShape DEF Progress
    <2> QED BY <2>1, <2>2 DEF Present
  <1> QED BY <1>3, <1>4, <1>5, <1>6, <1>7, <1>8 DEF Step

LEMMA HearQuiet ==
  ASSUME IInv, HearInv, NEW v \in Window, Quiet(v)
  PROVE  HearInv'
  <1>1. \A w \in Window : win'[w].state = "absent" => inbox'[w] = <<>>
    BY DEF Quiet, HearInv
  <1>2. \A w \in Window : \A k : Due(win'[w], k) <=> Due(win[w], k)
    BY DEF Quiet, Due
  <1>3. ASSUME NEW w \in Window, NEW k \in OwnKeys(w), Due(win'[w], k)
        PROVE  Apply(win'[w].running, Empty)[k] = disk'[k]
    <2>1. win'[w].running = win[w].running
      BY <1>2, <1>3 DEF Quiet, Due
    <2> QED BY <1>2, <1>3, <2>1 DEF Quiet, HearInv
  <1>4. ASSUME NEW w \in Window, NEW k \in OwnKeys(w) \ unheard', NEW r \in Window \ {w}
        PROVE  Due(win'[w], k) \/ Told(inbox'[r], win'[r], k, disk'[k])
    <2>1. Due(win[w], k) \/ Told(inbox[r], win[r], k, disk[k])
      BY DEF Quiet, HearInv
    <2>2. k \in Key \ Writable(r)
      BY OwnKeysAlone
    <2>3. Told(inbox[r], win[r], k, disk[k]) => Told(inbox[r], win'[r], k, disk[k])
      <3>1. win'[r].state = "initialized" =>
               \/ win'[r].cache[k] = disk[k]
               \/ win[r].state = "initialized" /\ win'[r].cache[k] = win[r].cache[k]
        BY <2>2 DEF Quiet
      <3> QED BY <3>1 DEF Told
    <2> QED BY <1>2, <2>1, <2>3 DEF Quiet
  <1>5. /\ (\A w \in Window : \A k \in OwnKeys(w) :
               Due(win[w], k) => Apply(win[w].running, Empty)[k] = disk[k])'
        /\ (\A w \in Window : \A k \in OwnKeys(w) \ unheard : \A r \in Window \ {w} :
               Due(win[w], k) \/ Told(inbox[r], win[r], k, disk[k]))'
    BY <1>3, <1>4
  <1> QED BY <1>1, <1>5 DEF HearInv

LEMMA HearReceive ==
  ASSUME IInv, HearInv, NEW v \in Window, Receive(v)
  PROVE  HearInv'
  <1> DEFINE q == win[v]
             p == win'[v]
             u == Head(inbox[v])
  <1>1. /\ inbox[v] \in Seq(Update) /\ inbox[v] # <<>> /\ inbox'[v] = Tail(inbox[v])
        /\ \A w \in Window \ {v} : inbox'[w] = inbox[w] /\ win'[w] = win[w]
        /\ UNCHANGED <<disk, unheard>>
        /\ q \in WindowState
    BY DEF Receive, IInv
  <1>2. p = IF q.state = "closed" THEN q ELSE [q EXCEPT !.cache = Apply(u, q.cache)]
    BY DEF Receive, IInv
  <1>3. /\ p.state = q.state /\ p.phase = q.phase /\ p.running = q.running
        /\ q.state = "closed" \/ p.cache = Apply(u, q.cache)
    BY <1>1, <1>2 DEF WindowState
  <1> HIDE DEF u, p
  <1>4. q.state # "absent"
    BY <1>1 DEF HearInv
  <1>5. \A w \in Window : win'[w].state = "absent" => inbox'[w] = <<>>
    BY <1>1, <1>3, <1>4 DEF HearInv, p
  <1>6. \A w \in Window : /\ \A k : Due(win'[w], k) <=> Due(win[w], k)
                          /\ win'[w].running = win[w].running
    BY <1>1, <1>3 DEF Due, p
  <1>7. ASSUME NEW w \in Window, NEW k \in OwnKeys(w) \ unheard', NEW r \in Window \ {w}
        PROVE  Due(win'[w], k) \/ Told(inbox'[r], win'[r], k, disk'[k])
    <2>1. Due(win[w], k) \/ Told(inbox[r], win[r], k, disk[k])
      BY <1>1 DEF HearInv
    <2>2. CASE r # v
      BY <1>1, <1>6, <2>1, <2>2
    <2>3. CASE r = v /\ Told(inbox[r], win[r], k, disk[k])
      <3>1. k \in Key
        BY DEF OwnKeys
      <3>2. p.state = "initialized" => q.state = "initialized" /\ p.cache[k] = Apply(u, q.cache)[k]
        BY <1>3
      <3>3. Told(Tail(inbox[v]), p, k, disk[k])
        BY <1>1, <2>3, <3>1, <3>2, ToldTail DEF u
      <3> QED BY <1>1, <2>3, <3>3 DEF p
    <2> QED BY <1>6, <2>1, <2>2, <2>3
  <1>8. /\ (\A w \in Window : \A k \in OwnKeys(w) :
               Due(win[w], k) => Apply(win[w].running, Empty)[k] = disk[k])'
        /\ (\A w \in Window : \A k \in OwnKeys(w) \ unheard : \A r \in Window \ {w} :
               Due(win[w], k) \/ Told(inbox[r], win[r], k, disk[k]))'
    BY <1>1, <1>6, <1>7 DEF HearInv
  <1> QED BY <1>5, <1>8 DEF HearInv

LEMMA HearCommit ==
  ASSUME IInv, HearInv, NEW v \in Window, Commit(v)
  PROVE  HearInv'
  <1> DEFINE r == win[v]
             n == win'[v]
  <1>1. /\ r \in WindowState /\ r.phase = "running" /\ r.running \in Update
        /\ disk' = Apply(r.running, disk) /\ UNCHANGED <<inbox, unheard>>
        /\ n = [r EXCEPT !.phase = "committed"]
        /\ \A w \in Window \ {v} : win'[w] = win[w]
    BY DEF Commit, IInv, WindowState
  <1>2. /\ n.state = r.state /\ n.cache = r.cache /\ n.phase = "committed"
        /\ n.running = r.running
    BY <1>1 DEF WindowState
  <1> HIDE DEF n
  <1>3. \A w \in Window : win'[w].state = "absent" => inbox'[w] = <<>>
    BY <1>1, <1>2 DEF HearInv, n
  <1>4. \A w \in Window \ {v} : \A k \in OwnKeys(w) : disk'[k] = disk[k]
    BY <1>1, RunningForeign
  <1>5. ASSUME NEW w \in Window, NEW k \in OwnKeys(w), Due(win'[w], k)
        PROVE  Apply(win'[w].running, Empty)[k] = disk'[k]
    <2>1. CASE w = v
      <3>1. k \in Touched(r.running)
        BY <1>2, <1>5, <2>1 DEF Due, n
      <3>2. Apply(r.running, disk)[k] = Apply(r.running, Empty)[k]
        BY <3>1 DEF Apply, Touched, OwnKeys
      <3>3. win'[w].running = r.running
        BY <1>2, <2>1 DEF n
      <3> QED BY <1>1, <3>2, <3>3
    <2>2. CASE w # v
      BY <1>1, <1>4, <1>5, <2>2 DEF HearInv
    <2> QED BY <2>1, <2>2
  <1>6. ASSUME NEW w \in Window, NEW k \in OwnKeys(w) \ unheard', NEW q \in Window \ {w}
        PROVE  Due(win'[w], k) \/ Told(inbox'[q], win'[q], k, disk'[k])
    <2>1. Due(win[w], k) \/ Told(inbox[q], win[q], k, disk[k])
      BY <1>1 DEF HearInv
    <2>2. Told(inbox[q], win[q], k, disk[k]) => Told(inbox'[q], win'[q], k, disk[k])
      BY <1>1, <1>2 DEF Told, n
    <2>3. CASE w = v
      <3>1. ~Due(win[w], k)
        BY <1>1, <2>3 DEF Due
      <3>2. k \in Touched(r.running) \/ disk'[k] = disk[k]
        BY <1>1, ApplyUntouched DEF OwnKeys
      <3> QED BY <1>2, <2>1, <2>2, <2>3, <3>1, <3>2 DEF Due, n
    <2>4. CASE w # v
      BY <1>1, <1>4, <2>1, <2>2, <2>4
    <2> QED BY <2>3, <2>4
  <1>7. /\ (\A w \in Window : \A k \in OwnKeys(w) :
               Due(win[w], k) => Apply(win[w].running, Empty)[k] = disk[k])'
        /\ (\A w \in Window : \A k \in OwnKeys(w) \ unheard : \A q \in Window \ {w} :
               Due(win[w], k) \/ Told(inbox[q], win[q], k, disk[k]))'
    BY <1>5, <1>6
  <1> QED BY <1>3, <1>7 DEF HearInv

LEMMA HearComplete ==
  ASSUME IInv, HearInv, NEW v \in Window, Complete(v)
  PROVE  HearInv'
  <1> DEFINE r == win[v]
             n == win'[v]
             u == r.running
  <1>1. /\ r \in WindowState /\ Shape(v, r) /\ Scheduled(r) /\ r.phase = "committed"
        /\ u \in Update /\ Touched(u) \subseteq Writable(v)
        /\ disk' = disk /\ unheard' = unheard \ Touched(u) /\ n = Ended(r, "settled")
        /\ \A w \in Window \ {v} : win'[w] = win[w]
        /\ \A w \in Window : inbox[w] \in Seq(Update)
        /\ \A w \in Window : inbox'[w] = IF w # v /\ win[w].state # "absent"
                                        THEN Append(inbox[w], u) ELSE inbox[w]
    BY DEF Complete, IInv, WindowState, Shape, Ended
  <1>2. n.state = r.state /\ n.cache = r.cache /\ n.phase # "committed"
    BY <1>1, EndedShape DEF Progress
  <1> HIDE DEF n, u
  <1>3. \A w \in Window : win'[w].state = "absent" => inbox'[w] = <<>>
    BY <1>1, <1>2 DEF HearInv, n
  <1>4. ASSUME NEW w \in Window, NEW k \in OwnKeys(w), Due(win'[w], k)
        PROVE  Apply(win'[w].running, Empty)[k] = disk'[k]
    <2>1. w # v
      BY <1>2, <1>4 DEF Due, n
    <2> QED BY <1>1, <1>4, <2>1 DEF HearInv
  <1>5. ASSUME NEW w \in Window, NEW k \in OwnKeys(w) \ unheard', NEW q \in Window \ {w}
        PROVE  Due(win'[w], k) \/ Told(inbox'[q], win'[q], k, disk'[k])
    <2> DEFINE val == disk[k]
    <2>1. k \in Key /\ (win'[q].state = "initialized" =>
              win[q].state = "initialized" /\ win'[q].cache = win[q].cache)
      BY <1>1, <1>2 DEF OwnKeys, n
    <2>2. CASE k \in Touched(u)
      <3>1. w = v
        BY <1>1, <2>2, OwnKeysAlone
      <3>2. Apply(u, Empty)[k] = val
        BY <1>1, <2>2, <3>1 DEF HearInv, Due, u
      <3>3. CASE win[q].state # "absent"
        <4>1. inbox'[q] = Append(inbox[q], u) /\ win'[q] = win[q] /\ inbox[q] \in Seq(Update)
          BY <1>1, <3>1, <3>3
        <4>2. Told(Append(inbox[q], u), win[q], k, val)
          BY <1>1, <2>2, <3>2, <4>1, ToldAppendAbout
        <4> QED BY <1>1, <4>1, <4>2
      <3>4. CASE win[q].state = "absent"
        <4>1. inbox'[q] = <<>> /\ win'[q].state = "absent"
          BY <1>1, <3>1, <3>4 DEF HearInv
        <4> QED BY <4>1 DEF Told, About
      <3> QED BY <3>3, <3>4
    <2>3. CASE k \notin Touched(u)
      <3>1. Due(win[w], k) \/ Told(inbox[q], win[q], k, val)
        BY <1>1, <2>3 DEF HearInv
      <3>2. CASE Due(win[w], k)
        <4>1. w # v
          BY <2>3, <3>2 DEF Due, u
        <4> QED BY <1>1, <3>2, <4>1
      <3>3. CASE Told(inbox[q], win[q], k, val)
        <4>1. Told(inbox'[q], win[q], k, val)
          BY <1>1, <2>3, <3>3, ToldAppendOther
        <4> QED BY <1>1, <2>1, <4>1 DEF Told
      <3> QED BY <3>1, <3>2, <3>3
    <2> QED BY <2>2, <2>3
  <1>6. /\ (\A w \in Window : \A k \in OwnKeys(w) :
               Due(win[w], k) => Apply(win[w].running, Empty)[k] = disk[k])'
        /\ (\A w \in Window : \A k \in OwnKeys(w) \ unheard : \A q \in Window \ {w} :
               Due(win[w], k) \/ Told(inbox[q], win[q], k, disk[k]))'
    BY <1>4, <1>5
  <1> QED BY <1>3, <1>6 DEF HearInv

LEMMA HearLeave ==
  ASSUME IInv, HearInv, NEW v \in Window, Leave(v)
  PROVE  HearInv'
  <1> DEFINE r == win[v]
             n == win'[v]
  <1>1. /\ r.running \in Update /\ n = Absent(r.writes, r.opens)
        /\ disk' = disk \/ (r.phase = "running" /\ disk' = Apply(r.running, disk))
        /\ unheard' = IF r.phase = "committed" \/ disk' # disk
                      THEN unheard \cup Touched(r.running) ELSE unheard
        /\ \A w \in Window \ {v} : win'[w] = win[w] /\ inbox'[w] = inbox[w]
        /\ inbox'[v] = <<>>
    BY DEF Leave, IInv, WindowState
  <1>2. n.state = "absent" /\ n.phase = "idle"
    BY <1>1 DEF Absent
  <1> HIDE DEF n
  <1>3. \A w \in Window : win'[w].state = "absent" => inbox'[w] = <<>>
    BY <1>1 DEF HearInv
  <1>4. \A w \in Window \ {v} : \A k \in OwnKeys(w) : disk'[k] = disk[k]
    BY <1>1, RunningForeign
  <1>5. ASSUME NEW w \in Window, NEW k \in OwnKeys(w), Due(win'[w], k)
        PROVE  Apply(win'[w].running, Empty)[k] = disk'[k]
    <2>1. w # v
      BY <1>2, <1>5 DEF Due, n
    <2> QED BY <1>1, <1>4, <1>5, <2>1 DEF HearInv
  <1>6. ASSUME NEW w \in Window, NEW k \in OwnKeys(w) \ unheard', NEW q \in Window \ {w}
        PROVE  Due(win'[w], k) \/ Told(inbox'[q], win'[q], k, disk'[k])
    <2>1. Due(win[w], k) \/ Told(inbox[q], win[q], k, disk[k])
      BY <1>1 DEF HearInv
    <2>2. CASE q = v
      BY <1>1, <1>2, <2>2 DEF Told, About, n
    <2>3. CASE q # v /\ w # v
      BY <1>1, <1>4, <2>1, <2>3
    <2>4. CASE q # v /\ w = v
      <3>1. disk'[k] = disk[k]
        <4>1. CASE disk' # disk
          <5>1. k \notin Touched(r.running) /\ k \in Key
            BY <1>1, <4>1 DEF OwnKeys
          <5> QED BY <1>1, <4>1, <5>1, ApplyUntouched
        <4> QED BY <4>1
      <3>2. ~Due(win[w], k)
        BY <1>1, <2>4 DEF Due
      <3> QED BY <1>1, <2>1, <2>4, <3>1, <3>2
    <2> QED BY <2>2, <2>3, <2>4
  <1>7. /\ (\A w \in Window : \A k \in OwnKeys(w) :
               Due(win[w], k) => Apply(win[w].running, Empty)[k] = disk[k])'
        /\ (\A w \in Window : \A k \in OwnKeys(w) \ unheard : \A q \in Window \ {w} :
               Due(win[w], k) \/ Told(inbox[q], win[q], k, disk[k]))'
    BY <1>5, <1>6
  <1> QED BY <1>3, <1>7 DEF HearInv

(* Once a window has heard all events on their way to it, it knows what is *)
(* stored under the keys of the others, unless the writer has stored it    *)
(* and not told yet, or vanished before it could (updateItems,             *)
(* onDidChangeItemsExternal, accept).                                      *)
THEOREM OthersAreTold == Spec => []OthersHear
  <1>1. Init => HearInv
    <2> SUFFICES ASSUME Init
                 PROVE  HearInv
      OBVIOUS
    <2>1. ASSUME NEW w \in Window
          PROVE  inbox[w] = <<>> /\ win[w].state = "absent" /\ win[w].phase = "idle"
      BY DEF Init, Absent
    <2> QED BY <2>1 DEF HearInv, Due, Told, About
  <1>2. IInv /\ HearInv /\ [Next]_vars => HearInv'
    <2> SUFFICES ASSUME IInv, HearInv, [Next]_vars
                 PROVE  HearInv'
      OBVIOUS
    <2>1. ASSUME NEW v \in Window, Step(v)
          PROVE  HearInv'
      BY <2>1, QuietStep, HearQuiet, HearReceive, HearCommit, HearComplete, HearLeave
    <2>2. CASE UNCHANGED vars
      BY <2>2 DEF vars, HearInv
    <2> QED BY <2>1, <2>2 DEF Next
  <1>3. IInv /\ HearInv => OthersHear
    <2> SUFFICES ASSUME IInv, HearInv, NEW w \in Window, NEW k \in OwnKeys(w) \ unheard,
                        NEW r \in Window \ {w}
                 PROVE  \/ win[r].state # "initialized"
                        \/ Knows(r, k)
                        \/ win[w].phase = "committed" /\ k \in Touched(win[w].running)
      BY DEF OthersHear
    <2>1. Due(win[w], k) \/ Told(inbox[r], win[r], k, disk[k])
      BY DEF HearInv
    <2> QED BY <2>1 DEF Due, Told, LastIs, Knows
  <1> QED BY <1>1, <1>2, <1>3, Invariance, PTL DEF Spec

=============================================================================
