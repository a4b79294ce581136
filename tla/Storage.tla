------------------------------- MODULE Storage ------------------------------
(***************************************************************************)
(* The key-value storage of the browser's windows: class Storage           *)
(* (vscode/src/vs/base/parts/storage/common/storage.ts) with the           *)
(* ThrottledDelayer that paces its updates (base/common/async.ts), over    *)
(* the IndexedDBStorageDatabase of each window (platform/storage/browser/  *)
(* storageService.ts), the BroadcastChannel that tells the other windows   *)
(* what was stored, and the one database they share.                       *)
(*                                                                         *)
(* An action is what runs until a window's event loop turns.  A window     *)
(* may vanish at any moment, by a crash or because it is left, and open    *)
(* again.  IndexedDB runs read-write transactions one at a time and whole, *)
(* so a transaction is the one action Commit, and a read is atomic too.    *)
(***************************************************************************)
EXTENDS Integers, Sequences, FiniteSets

CONSTANTS
    Window,     \* windows of one browser profile
    Key, Value,
    None,       \* stands for a key that is not in a map
    Writers,    \* Writers[k]: the windows that set or delete k
    Closing,    \* windows whose Storage is closed by Storage.close
    Leaving,    \* windows that vanish
    Failing,    \* windows some of whose transactions fail with an error event
    Aborting,   \* windows some of whose transactions abort without one
    MaxWrites,  \* bound: MaxWrites[w] writes of window w
    MaxOpens    \* bound: how often a window is opened

ASSUME NoneAssumption == None \notin Value
ASSUME WriterAssumption == Writers \in [Key -> SUBSET Window]
ASSUME FaultAssumption ==
    /\ Closing \subseteq Window /\ Leaving \subseteq Window
    /\ Failing \subseteq Window /\ Aborting \subseteq Window
ASSUME BoundAssumption == MaxWrites \in [Window -> Nat] /\ MaxOpens \in Nat

Map == [Key -> Value \cup {None}]
Empty == [k \in Key |-> None]

(* An IUpdateRequest: doUpdateItems makes the inserts, then the deletes. *)
Update == [inserts : Map, deletes : SUBSET Key]
Apply(update, map) ==
    [k \in Key |-> IF k \in update.deletes THEN None
                   ELSE IF update.inserts[k] # None THEN update.inserts[k]
                   ELSE map[k]]
Touched(update) == update.deletes \cup {k \in Key : update.inserts[k] # None}

(* absent: no such document.  connected: the database and the channel are  *)
(* open, Storage.init has not read yet.                                    *)
State == {"absent", "connected", "initialized", "closed"}

(* The transaction of the update that runs: requested, on disk but not     *)
(* reported to the window, or aborted without a report.                    *)
Phase == {"idle", "running", "committed", "aborted"}

(* What Storage.close awaits.  flush: the timer of its doFlush(0).  first: *)
(* the update that the timer started.  queued: the update that runs        *)
(* before the one the timer asked for.  second: that one.  settled: no     *)
(* more, the database is to be closed.  hung: a promise nobody settles.    *)
Progress == {"no", "flush", "first", "queued", "second", "settled", "done", "hung"}

(* timer: the Delayer will fire.  queued: the Throttler holds a task       *)
(* behind the running one.  waiting: a whenFlushed promise is pending.     *)
WindowState == [state : State, cache : Map, pending : Update, timer : BOOLEAN,
                phase : Phase, running : Update, queued : BOOLEAN,
                waiting : BOOLEAN, closing : Progress,
                writes : Nat, opens : 0 .. MaxOpens]

VARIABLES
    disk,    \* the object store ItemTable
    win,     \* win[w]: the Storage of w and what it runs on
    inbox,   \* inbox[w]: change events on their way to w
    unheard  \* history: keys stored by a window that vanished before its event

vars == <<disk, win, inbox, unheard>>

Nothing == [inserts |-> Empty, deletes |-> {}]

Absent(writes, opens) ==
    [state |-> "absent", cache |-> Empty, pending |-> Nothing, timer |-> FALSE,
     phase |-> "idle", running |-> Nothing, queued |-> FALSE, waiting |-> FALSE,
     closing |-> "no", writes |-> writes, opens |-> opens]

Init ==
    /\ disk = Empty
    /\ win = [w \in Window |-> Absent(0, 0)]
    /\ inbox = [w \in Window |-> <<>>]
    /\ unheard = {}

HasPending(r) == Touched(r.pending) # {}

-----------------------------------------------------------------------------
(* IndexedDBStorageDatabase is created: it listens before it reads. *)
Connect(w) ==
    /\ win[w].state = "absent" /\ win[w].opens < MaxOpens
    /\ win' = [win EXCEPT ![w] = [Absent(@.writes, @.opens + 1) EXCEPT !.state = "connected"]]
    /\ UNCHANGED <<disk, inbox, unheard>>

(* Storage.init *)
Initialize(w) ==
    /\ win[w].state = "connected"
    /\ win' = [win EXCEPT ![w].state = "initialized", ![w].cache = disk]
    /\ UNCHANGED <<disk, inbox, unheard>>

(* Storage.accept, for each change of an event of another window, the      *)
(* deletes last.                                                           *)
Receive(w) ==
    /\ inbox[w] # <<>>
    /\ inbox' = [inbox EXCEPT ![w] = Tail(@)]
    /\ win' = IF win[w].state = "closed" THEN win
              ELSE [win EXCEPT ![w].cache = Apply(Head(inbox[w]), @)]
    /\ UNCHANGED <<disk, unheard>>

-----------------------------------------------------------------------------
(* What Storage.set adds to what is pending, and Storage.delete below. *)
Inserted(pending, k, v) ==
    [inserts |-> [pending.inserts EXCEPT ![k] = v], deletes |-> pending.deletes \ {k}]

(* Storage.delete *)
Deleted(pending, k) ==
    [inserts |-> [pending.inserts EXCEPT ![k] = None], deletes |-> pending.deletes \cup {k}]

(* Storage.set, with None Storage.delete; both return early when the cache *)
(* has it so already.  doFlush puts the timer off, for ever at most when   *)
(* writes never cease.                                                     *)
Write(w, k, v) ==
    /\ win[w].state = "initialized" /\ w \in Writers[k]
    /\ win[w].writes < MaxWrites[w]
    /\ win[w].cache[k] # v
    /\ win' = [win EXCEPT ![w].cache[k] = v,
                          ![w].pending = IF v = None THEN Deleted(@, k) ELSE Inserted(@, k, v),
                          ![w].timer = TRUE,
                          ![w].writes = @ + 1]
    /\ UNCHANGED <<disk, inbox, unheard>>

(* Storage.whenFlushed; without anything pending it returns at once. *)
WhenFlushed(w) ==
    /\ win[w].state \in {"initialized", "closed"} /\ HasPending(win[w])
    /\ ~win[w].waiting
    /\ win' = [win EXCEPT ![w].waiting = TRUE]
    /\ UNCHANGED <<disk, inbox, unheard>>

(* Storage.flush *)
Flush(w) ==
    /\ win[w].state \in {"initialized", "closed"} /\ HasPending(win[w])
    /\ ~win[w].timer
    /\ win' = [win EXCEPT ![w].timer = TRUE]
    /\ UNCHANGED <<disk, inbox, unheard>>

(* Storage.close, until its first await. *)
Close(w) ==
    /\ w \in Closing
    /\ win[w].state = "initialized"
    /\ win' = [win EXCEPT ![w].state = "closed", ![w].timer = TRUE, ![w].closing = "flush"]
    /\ UNCHANGED <<disk, inbox, unheard>>

-----------------------------------------------------------------------------
(* close goes on from one thing it awaits to the next. *)
Advance(r, from, to) ==
    [r EXCEPT !.closing = IF @ = from THEN to ELSE @]

(* Mutated: close is told nothing when there is nothing to update. *)
FlushPendingSilent(r, asked, ran) ==
    IF HasPending(r)
    THEN [Advance(r, asked, ran) EXCEPT
             !.phase = "running", !.running = r.pending, !.pending = Nothing]
    ELSE r

(* flushPending, as far as the database takes over; ran is what close      *)
(* awaits if it awaited asked and there is something to update.            *)
FlushPending(r, asked, ran) ==
    IF HasPending(r)
    THEN [Advance(r, asked, ran) EXCEPT
             !.phase = "running", !.running = r.pending, !.pending = Nothing]
    ELSE Advance(r, asked, "settled")

(* Mutated: tasks are not throttled. *)
TimerFiresAtOnce(w) ==
    /\ win[w].timer
    /\ win' = [win EXCEPT ![w] = FlushPending([@ EXCEPT !.timer = FALSE], "flush", "first")]
    /\ UNCHANGED <<disk, inbox, unheard>>

(* Mutated: a task that comes while another runs is dropped. *)
TimerFiresOnce(w) ==
    LET r == [win[w] EXCEPT !.timer = FALSE]
    IN  /\ win[w].timer
        /\ win' = [win EXCEPT ![w] =
                      IF r.phase = "idle" THEN FlushPending(r, "flush", "first")
                      ELSE Advance(r, "flush", "queued")]
        /\ UNCHANGED <<disk, inbox, unheard>>

(* The Delayer's timer: the Throttler runs the task, or keeps it until the *)
(* running one has ended.                                                  *)
TimerFires(w) ==
    LET r == [win[w] EXCEPT !.timer = FALSE]
    IN  /\ win[w].timer
        /\ win' = [win EXCEPT ![w] =
                      IF r.phase = "idle" THEN FlushPending(r, "flush", "first")
                      ELSE [Advance(r, "flush", "queued") EXCEPT !.queued = TRUE]]
        /\ UNCHANGED <<disk, inbox, unheard>>

Commit(w) ==
    /\ win[w].phase = "running"
    /\ disk' = Apply(win[w].running, disk)
    /\ win' = [win EXCEPT ![w].phase = "committed"]
    /\ UNCHANGED <<inbox, unheard>>

(* Mutated: whoever waits is released by any update. *)
ReleaseAll(r) == [r EXCEPT !.phase = "idle", !.running = Nothing, !.waiting = FALSE]

(* After an update, whether it failed or not: whoever waits is released if *)
(* nothing is pending, and the task that was kept runs.                    *)
Release(r) ==
    [r EXCEPT !.phase = "idle", !.running = Nothing,
              !.waiting = @ /\ HasPending(r)]

(* Mutated: the task that was kept is forgotten. *)
RunQueuedNot(r) == [r EXCEPT !.queued = FALSE]

(* What onComplete of the Throttler runs. *)
RunQueued(r) ==
    IF r.queued
    THEN FlushPending([r EXCEPT !.queued = FALSE], "queued", "second")
    ELSE r

(* Mutated: the event is made of what is pending by now. *)
CompletePending(w) ==
    /\ win[w].phase = "committed"
    /\ win' = [win EXCEPT ![w] =
                  RunQueued(Release(Advance(Advance(@, "first", "settled"), "second", "settled")))]
    /\ inbox' = [v \in Window |-> IF v # w /\ win[v].state # "absent"
                                  THEN Append(inbox[v], win[w].pending)
                                  ELSE inbox[v]]
    /\ unheard' = unheard \ Touched(win[w].running)
    /\ UNCHANGED disk

(* oncomplete: the other windows are told. *)
Complete(w) ==
    /\ win[w].phase = "committed"
    /\ win' = [win EXCEPT ![w] =
                  RunQueued(Release(Advance(Advance(@, "first", "settled"), "second", "settled")))]
    /\ inbox' = [v \in Window |-> IF v # w /\ win[v].state # "absent"
                                  THEN Append(inbox[v], win[w].running)
                                  ELSE inbox[v]]
    /\ unheard' = unheard \ Touched(win[w].running)
    /\ UNCHANGED disk

(* onerror: the update is dropped.  When the Throttler had kept the task,  *)
(* the promise of its callers is never settled: `.then(resolve)` does not  *)
(* hand on the rejection.                                                  *)
Fail(w) ==
    /\ w \in Failing /\ win[w].phase = "running"
    /\ win' = [win EXCEPT ![w] =
                  RunQueued(Release(Advance(Advance(@, "first", "settled"), "second", "hung")))]
    /\ UNCHANGED <<disk, inbox, unheard>>

(* The transaction aborts, as for want of space: runInTransaction has no   *)
(* onabort and its promise stays pending.                                  *)
Abort(w) ==
    /\ w \in Aborting /\ win[w].phase = "running"
    /\ win' = [win EXCEPT ![w].phase = "aborted"]
    /\ UNCHANGED <<disk, inbox, unheard>>

(* The last step of Storage.close. *)
CloseDatabase(w) ==
    /\ win[w].closing = "settled"
    /\ win' = [win EXCEPT ![w].closing = "done"]
    /\ UNCHANGED <<disk, inbox, unheard>>

(* The document goes: a crash, or BrowserStorageService.close disposes all *)
(* timers.  The browser finishes the running transaction or aborts it.     *)
Leave(w) ==
    /\ w \in Leaving /\ win[w].state # "absent"
    /\ \/ /\ win[w].phase = "running"
          /\ disk' = Apply(win[w].running, disk)
       \/ disk' = disk
    /\ unheard' = IF win[w].phase = "committed" \/ disk' # disk
                  THEN unheard \cup Touched(win[w].running) ELSE unheard
    /\ win' = [win EXCEPT ![w] = Absent(@.writes, @.opens)]
    /\ inbox' = [inbox EXCEPT ![w] = <<>>]

-----------------------------------------------------------------------------
Step(w) ==
    \/ Connect(w) \/ Initialize(w) \/ Receive(w)
    \/ \E k \in Key, v \in Value \cup {None} : Write(w, k, v)
    \/ WhenFlushed(w) \/ Flush(w) \/ Close(w)
    \/ TimerFires(w) \/ Commit(w) \/ Complete(w) \/ Fail(w) \/ Abort(w)
    \/ CloseDatabase(w) \/ Leave(w)

Next == \E w \in Window : Step(w)

Spec == Init /\ [][Next]_vars

(* Timers fire, a transaction ends one way or another and says so, and     *)
(* what needs nothing else goes on.  Nobody has to leave, close or write.  *)
Fairness ==
    \A w \in Window :
        /\ WF_vars(TimerFires(w)) /\ WF_vars(Commit(w) \/ Fail(w) \/ Abort(w))
        /\ WF_vars(Complete(w)) /\ WF_vars(CloseDatabase(w))

FairSpec == Spec /\ Fairness

-----------------------------------------------------------------------------
(* Types, and which fields of a window go together; a key is never both    *)
(* inserted and deleted by one update.                                     *)
Coherent(r) ==
    /\ \A u \in {r.pending, r.running} : \A k \in u.deletes : u.inserts[k] = None
    /\ (r.phase = "idle") <=> (Touched(r.running) = {})
    /\ r.queued => r.phase # "idle"
    /\ (r.closing # "no") <=> (r.state = "closed")

TypeOK ==
    /\ disk \in Map
    /\ win \in [Window -> WindowState]
    /\ inbox \in [Window -> Seq(Update)]
    /\ unheard \subseteq Key
    /\ \A w \in Window : Coherent(win[w])

Healthy == Window \ (Failing \cup Aborting)

(* The keys that only w writes. *)
OwnKeys(w) == {k \in Key : Writers[k] = {w}}
Own(w, map) == [k \in OwnKeys(w) |-> map[k]]

(* What waits to be stored has a timer, or a place behind the update that  *)
(* runs: flushPending is the only one to start an update, and it is called *)
(* once per timer (doFlush, Throttler.queue).                              *)
PendingScheduled ==
    \A w \in Window : HasPending(win[w]) => win[w].timer \/ win[w].queued

(* A window that has heard all events on their way to it knows what is     *)
(* stored under every key that one window writes, unless the writer has    *)
(* stored it and not told yet, or vanished before it could                 *)
(* (onDidChangeItemsExternal, updateItems).                                *)
About(events, k) == {i \in DOMAIN events : k \in Touched(events[i])}
Knows(r, k) ==
    LET events == inbox[r]
    IN  IF About(events, k) = {} THEN win[r].cache[k] = disk[k]
        ELSE \E i \in About(events, k) :
                 /\ \A j \in About(events, k) : j <= i
                 /\ Apply(events[i], Empty)[k] = disk[k]

OthersHear ==
    \A w \in Window : \A k \in OwnKeys(w) \ unheard : \A r \in Window \ {w} :
        \/ win[r].state # "initialized"
        \/ Knows(r, k)
        \/ win[w].phase = "committed" /\ k \in Touched(win[w].running)

(* A promise of whenFlushed is fulfilled only when all that its window has *)
(* set under its own keys is in the database.                              *)
FlushedIsStored ==
    [][\A w \in Healthy :
           win[w].waiting /\ ~win'[w].waiting /\ win'[w].state # "absent"
               => Own(w, disk') = Own(w, win'[w].cache)]_vars

(* The database never holds a part of what a window had in memory, nor     *)
(* goes back: it implements WriteBehind for the own keys of every window.  *)
WB(w) ==
    INSTANCE WriteBehind
    WITH Image <- {Own(w, m) : m \in Map},
         newest <- Own(w, IF win[w].state \in {"initialized", "closed"}
                          THEN win[w].cache ELSE disk),
         batch <- Own(w, IF win[w].phase = "running"
                         THEN Apply(win[w].running, disk) ELSE disk),
         saved <- Own(w, disk)

ImplementsWriteBehind ==
    /\ \A w \in Healthy : WB(w)!Init
    /\ [][\A w \in Healthy : [WB(w)!Next]_(WB(w)!memory)]_vars

(* What a window sets is stored in the end, unless it sets something else  *)
(* or vanishes.                                                            *)
EventuallyStored ==
    \A w \in Healthy : \A k \in OwnKeys(w), v \in Value \cup {None} :
        (win[w].state \in {"initialized", "closed"} /\ win[w].cache[k] = v)
            ~> (disk[k] = v \/ win[w].cache[k] # v \/ win[w].state = "absent")

(* "We must always ensure the DB is closed to avoid corruption" (doClose). *)
EventuallyClosed ==
    \A w \in Window :
        (win[w].closing # "no") ~> (win[w].closing \in {"no", "done"})

=============================================================================
