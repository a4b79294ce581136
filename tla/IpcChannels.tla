---------------------------- MODULE IpcChannels -----------------------------
(***************************************************************************)
(* Calls and events over a connection: ChannelClient and ChannelServer     *)
(* (vscode/src/vs/base/parts/ipc/common/ipc.ts).  A call is requested,     *)
(* perhaps cancelled, and answered; an event is requested while it has a   *)
(* listener.  Requests wait for the server's Initialize on one side, and   *)
(* on the other for the registration of their channel, at most a second.   *)
(*                                                                         *)
(* The connection keeps order and loses nothing (PersistentProtocol).  An  *)
(* action is one task or one microtask of an end, or what the code using a *)
(* client does in one: the microtasks between a promise and its reaction   *)
(* are actions of their own, and that code may run between them.           *)
(***************************************************************************)
EXTENDS Integers, Sequences, FiniteSets

CONSTANTS
    Call,        \* calls, each with its id
    Event,       \* events of IChannel.listen, each with its id
    Channel,
    ChannelOf,   \* ChannelOf[i]: the channel of a call or an event
    MaxListens,  \* bound: how often an event gets a first listener
    MaxFires     \* bound: how often a service fires each of its events

Id == Call \cup Event

ASSUME IdAssumption == Call \cap Event = {}
ASSUME ChannelAssumption == ChannelOf \in [Id -> Channel]
ASSUME BoundAssumption == MaxListens \in Nat /\ MaxFires \in Nat

RequestType == {"Promise", "PromiseCancel", "EventListen", "EventDispose"}
AnswerType == {"PromiseSuccess", "PromiseError"}
Request == [type : RequestType, id : Id]
Initialize == [type |-> "Initialize"]
Answer == [type : AnswerType, id : Call]
Firing == [type : {"EventFire"}, id : Event, n : 1 .. MaxFires]
Response == {Initialize} \cup Answer \cup Firing

Outcome == {"success", "error", "canceled"}

(* promises: one per whenInitialized that is awaited, in their order;      *)
(* resolved: its reaction will run.  current: ids whose                    *)
(* uninitializedPromise is set.  handlers: calls with a handler.  active:  *)
(* activeRequests.  cancelled: calls whose token can do nothing any more.  *)
Client == [idle : BOOLEAN, disposed : BOOLEAN,
           promises : Seq([id : Id, resolved : BOOLEAN]), current : SUBSET Id,
           handlers : SUBSET Call, active : SUBSET Id, cancelled : SUBSET Call,
           listening : SUBSET Event, listens : [Event -> 0 .. MaxListens],
           result : [Call -> {"none", "pending"} \cup Outcome]]

(* flushing: the setTimeout of registerChannel has not run.  timers: calls *)
(* whose "Unknown channel" timer runs.  active: activeRequests.  running:  *)
(* calls a service has not answered.  subscriptions: of the listener that  *)
(* sends an event to the client.                                           *)
Server == [registered : SUBSET Channel, flushing : SUBSET Channel,
           pending : [Channel -> Seq(Id)], timers : SUBSET Call,
           active : SUBSET Id, running : SUBSET Call,
           subscriptions : [Event -> Nat], disposed : BOOLEAN]

VARIABLES
    client, server,
    up,         \* requests on their way to the server
    down,       \* responses on their way to the client
    fired,      \* fired[e]: how often the service has fired e
    heard,      \* history: heard[e]: the last firing of e that came to a listener
    abandoned   \* history: ids given up before the server, or the client, began

vars == <<client, server, up, down, fired, heard, abandoned>>

Init ==
    /\ client = [idle |-> FALSE, disposed |-> FALSE, promises |-> <<>>, current |-> {},
                 handlers |-> {}, active |-> {}, cancelled |-> {}, listening |-> {},
                 listens |-> [e \in Event |-> 0], result |-> [c \in Call |-> "none"]]
    /\ server = [registered |-> {}, flushing |-> {},
                 pending |-> [ch \in Channel |-> <<>>], timers |-> {},
                 active |-> {}, running |-> {},
                 subscriptions |-> [e \in Event |-> 0], disposed |-> FALSE]
    /\ up = <<>>
    /\ down = <<Initialize>>
    /\ fired = [e \in Event |-> 0]
    /\ heard = [e \in Event |-> 0]
    /\ abandoned = {}

Items(seq) == {seq[k] : k \in DOMAIN seq}
Pending == UNION {Items(server.pending[ch]) : ch \in Channel}

-----------------------------------------------------------------------------
(* The client. *)

Waiting(i) == [id |-> i, resolved |-> FALSE]

(* The request of a call or an event, and what takes it back. *)
RequestOf(i) == [type |-> IF i \in Call THEN "Promise" ELSE "EventListen", id |-> i]
EndOf(i) == [type |-> IF i \in Call THEN "PromiseCancel" ELSE "EventDispose", id |-> i]

(* requestPromise *)
RequestPromise(c) ==
    /\ client.result[c] = "none"
    /\ \/ /\ client.disposed
          /\ client' = [client EXCEPT !.result[c] = "canceled",
                                      !.cancelled = @ \cup {c}]
          /\ UNCHANGED up
       \/ /\ ~client.disposed /\ client.idle
          /\ client' = [client EXCEPT !.result[c] = "pending", !.active = @ \cup {c},
                                      !.handlers = @ \cup {c}]
          /\ up' = Append(up, RequestOf(c))
       \/ /\ ~client.disposed /\ ~client.idle
          /\ client' = [client EXCEPT !.result[c] = "pending", !.active = @ \cup {c},
                                      !.promises = Append(@, Waiting(c)),
                                      !.current = @ \cup {c}]
          /\ UNCHANGED up
    /\ UNCHANGED <<server, down, fired, heard, abandoned>>

(* An event gets its first listener: onFirstListenerAdd.  Nobody adds one  *)
(* with a client that was disposed of.                                     *)
Listen(e) ==
    /\ ~client.disposed /\ e \notin client.listening /\ client.listens[e] < MaxListens
    /\ client' = [client EXCEPT !.listening = @ \cup {e}, !.listens[e] = @ + 1,
                                !.promises = Append(@, Waiting(e)),
                                !.current = @ \cup {e}]
    /\ UNCHANGED <<server, up, down, fired, heard, abandoned>>

(* Promises are resolved in their order once the client is initialized;    *)
(* createCancelablePromise takes no notice of a cancel from then on.       *)
Resolve ==
    /\ client.idle
    /\ \E k \in DOMAIN client.promises :
          /\ ~client.promises[k].resolved
          /\ \A j \in 1 .. k - 1 : client.promises[j].resolved
          /\ client' = [client EXCEPT !.promises[k].resolved = TRUE]
    /\ UNCHANGED <<server, up, down, fired, heard, abandoned>>

(* uninitializedPromise.then(...): doRequest, or the request of an event. *)
Reaction ==
    /\ client.promises # <<>> /\ Head(client.promises).resolved
    /\ LET i == Head(client.promises).id
       IN  /\ client' = [client EXCEPT !.promises = Tail(@), !.current = @ \ {i},
                                       !.handlers = @ \cup ({i} \cap Call),
                                       !.active = @ \cup ({i} \cap Event)]
           /\ up' = Append(up, RequestOf(i))
    /\ UNCHANGED <<server, down, fired, heard, abandoned>>

(* uninitializedPromise.cancel(), for the promises of the given ids: each  *)
(* id's last one is rejected unless it is resolved already.                *)
LastOf(i) == CHOOSE k \in DOMAIN client.promises :
    /\ client.promises[k].id = i
    /\ \A j \in DOMAIN client.promises : client.promises[j].id = i => j <= k
Rejected(ids) == {LastOf(i) : i \in {j \in ids : ~client.promises[LastOf(j)].resolved}}
Remaining(ids) ==
    LET kept == DOMAIN client.promises \ Rejected(ids)
        Nth(n) == CHOOSE k \in kept : Cardinality({j \in kept : j <= k}) = n
    IN  [n \in 1 .. Cardinality(kept) |-> client.promises[Nth(n)]]
TooLate(ids) == {i \in ids : client.promises[LastOf(i)].resolved}

Orders(ids) ==
    {s \in [1 .. Cardinality(ids) -> ids] : \A m, n \in DOMAIN s : s[m] = s[n] => m = n}

(* What ends requests of the client: a promise is cancelled, a request     *)
(* that was sent is taken back.                                            *)
TakeBack(ids, rest) ==
    LET waiting == ids \cap client.current
    IN  /\ client' = [rest EXCEPT !.promises = Remaining(waiting), !.current = @ \ ids]
        /\ \E order \in Orders(ids \ waiting) :
              up' = up \o [n \in DOMAIN order |-> EndOf(order[n])]
        /\ abandoned' = abandoned \cup TooLate(waiting)

Settle(result, ids) ==
    [c \in Call |-> IF c \in ids /\ result[c] = "pending" THEN "canceled" ELSE result[c]]

(* The token of a call is cancelled, perhaps after its answer. *)
Cancel(c) ==
    /\ client.result[c] # "none" /\ c \notin client.cancelled
    /\ TakeBack({c}, [client EXCEPT !.cancelled = @ \cup {c}, !.active = @ \ {c},
                                    !.result = Settle(@, {c})])
    /\ UNCHANGED <<server, down, fired, heard>>

(* The last listener of an event is removed: onLastListenerRemove. *)
Unlisten(e) ==
    /\ e \in client.listening
    /\ TakeBack({e}, [client EXCEPT !.listening = @ \ {e},
                                    !.active = @ \ ({e} \ client.current)])
    /\ UNCHANGED <<server, down, fired, heard>>

(* Mutated: what waits for the server to be initialized is forgotten. *)
DisposeClientSent ==
    /\ ~client.disposed
    /\ TakeBack(client.active \ client.current,
                [client EXCEPT !.disposed = TRUE, !.active = {},
                               !.listening = @ \ client.active,
                               !.result = Settle(@, client.active \ client.current)])
    /\ UNCHANGED <<server, down, fired, heard>>

(* ChannelClient.dispose: calls are cancelled, emitters disposed of. *)
DisposeClient ==
    /\ ~client.disposed
    /\ TakeBack(client.active, [client EXCEPT !.disposed = TRUE, !.active = {},
                                    !.listening = @ \ client.active,
                                    !.result = Settle(@, client.active)])
    /\ UNCHANGED <<server, down, fired, heard>>

(* A message is a task: the microtasks of the one before have run. *)
Settled == client.idle => client.promises = <<>>

(* onResponse; the promise of an answered call leaves activeRequests when  *)
(* it is settled.                                                          *)
OnResponse(m) ==
    \/ /\ m = Initialize
       /\ client' = [client EXCEPT !.idle = TRUE]
       /\ UNCHANGED heard
    \/ /\ m \in Answer
       /\ client' = IF m.id \notin client.handlers THEN client
                    ELSE [client EXCEPT !.handlers = @ \ {m.id}, !.active = @ \ {m.id},
                             !.result[m.id] =
                                 IF @ # "pending" THEN @
                                 ELSE IF m.type = "PromiseSuccess" THEN "success" ELSE "error"]
       /\ UNCHANGED heard
    \/ /\ m \in Firing
       /\ heard' = IF m.id \in client.listening THEN [heard EXCEPT ![m.id] = m.n] ELSE heard
       /\ UNCHANGED client

ClientReceive ==
    /\ ~client.disposed /\ Settled /\ down # <<>>
    /\ OnResponse(Head(down))
    /\ down' = Tail(down)
    /\ UNCHANGED <<server, up, fired, abandoned>>

-----------------------------------------------------------------------------
(* The server. *)

(* onPromise and onEventListen with a registered channel. *)
Start(v, i) ==
    IF i \in Call THEN [v EXCEPT !.running = @ \cup {i}, !.active = @ \cup {i}]
    ELSE [v EXCEPT !.subscriptions[i] = @ + 1, !.active = @ \cup {i}]

(* collectPendingRequest *)
Collect(v, i) == [v EXCEPT !.pending[ChannelOf[i]] = Append(@, i),
                           !.timers = @ \cup ({i} \cap Call)]

(* Mutated: whatever the request. *)
DisposeUnchecked(v, ids) ==
    [v EXCEPT !.active = @ \ ids,
              !.subscriptions = [e \in Event |-> IF e \in ids THEN @[e] - 1 ELSE @[e]]]

(* Mutated: an event that is taken back stays subscribed to. *)
DisposeCalls(v, ids) == [v EXCEPT !.active = @ \ ids]

(* disposeActiveRequest: the token of a call is cancelled, or the listener *)
(* that activeRequests holds for an event is removed.                      *)
DisposeActive(v, ids) ==
    [v EXCEPT !.active = @ \ ids,
              !.subscriptions =
                  [e \in Event |-> IF e \in ids \cap v.active THEN @[e] - 1 ELSE @[e]]]

(* onRawMessage *)
ServerReceive ==
    /\ ~server.disposed /\ up # <<>>
    /\ LET m == Head(up)
       IN  \/ /\ m.type \in {"Promise", "EventListen"}
              /\ server' = IF ChannelOf[m.id] \in server.registered THEN Start(server, m.id)
                           ELSE Collect(server, m.id)
              /\ UNCHANGED abandoned
           \/ /\ m.type \in {"PromiseCancel", "EventDispose"}
              /\ server' = DisposeActive(server, {m.id})
              /\ abandoned' = abandoned \cup ({m.id} \cap Pending)
    /\ up' = Tail(up)
    /\ UNCHANGED <<client, down, fired, heard>>

(* The promise of a service is settled. *)
ServiceAnswers(c) ==
    /\ c \in server.running
    /\ server' = [server EXCEPT !.running = @ \ {c}, !.active = @ \ {c}]
    /\ \E type \in AnswerType : down' = Append(down, [type |-> type, id |-> c])
    /\ UNCHANGED <<client, up, fired, heard, abandoned>>

(* A service fires an event: each listener sends it. *)
Fire(e) ==
    /\ fired[e] < MaxFires
    /\ fired' = [fired EXCEPT ![e] = @ + 1]
    /\ down' = down \o [k \in 1 .. server.subscriptions[e] |->
                            [type |-> "EventFire", id |-> e, n |-> fired[e] + 1]]
    /\ UNCHANGED <<client, server, up, heard, abandoned>>

(* registerChannel *)
RegisterChannel(ch) ==
    /\ ~server.disposed /\ ch \notin server.registered
    /\ server' = [server EXCEPT !.registered = @ \cup {ch}, !.flushing = @ \cup {ch}]
    /\ UNCHANGED <<client, up, down, fired, heard, abandoned>>

Times(i, requests) == Cardinality({k \in DOMAIN requests : requests[k] = i})

(* Mutated: the timer of a call is cleared, the call forgotten. *)
StartEvents(v, requests) ==
    [v EXCEPT !.timers = @ \ Items(requests),
              !.active = @ \cup (Items(requests) \cap Event),
              !.subscriptions = [e \in Event |-> @[e] + Times(e, requests)]]

(* The timers are cleared and the requests started one by one. *)
StartAll(v, requests) ==
    [v EXCEPT !.timers = @ \ Items(requests),
              !.active = @ \cup Items(requests),
              !.running = @ \cup (Items(requests) \cap Call),
              !.subscriptions = [e \in Event |-> @[e] + Times(e, requests)]]

(* flushPendingRequests, also of a server that was disposed of. *)
FlushPendingRequests(ch) ==
    /\ ch \in server.flushing
    /\ server' = [StartAll(server, server.pending[ch]) EXCEPT !.flushing = @ \ {ch},
                                                             !.pending[ch] = <<>>]
    /\ UNCHANGED <<client, up, down, fired, heard, abandoned>>

(* The timer of collectPendingRequest: "Unknown channel".  The request     *)
(* stays in pendingRequests.                                               *)
UnknownChannel(c) ==
    /\ c \in server.timers
    /\ server' = [server EXCEPT !.timers = @ \ {c}]
    /\ down' = Append(down, [type |-> "PromiseError", id |-> c])
    /\ abandoned' = abandoned \cup {c}
    /\ UNCHANGED <<client, up, fired, heard>>

(* Mutated: activeRequests is cleared, its disposables forgotten. *)
DisposeServerForgetful ==
    /\ ~server.disposed
    /\ server' = [server EXCEPT !.active = {}, !.disposed = TRUE]
    /\ abandoned' = abandoned \cup Pending
    /\ UNCHANGED <<client, up, down, fired, heard>>

(* ChannelServer.dispose *)
DisposeServer ==
    /\ ~server.disposed
    /\ server' = [DisposeActive(server, server.active) EXCEPT !.disposed = TRUE]
    /\ abandoned' = abandoned \cup Pending
    /\ UNCHANGED <<client, up, down, fired, heard>>

-----------------------------------------------------------------------------
Next ==
    \/ \E c \in Call : RequestPromise(c) \/ Cancel(c) \/ ServiceAnswers(c) \/ UnknownChannel(c)
    \/ \E e \in Event : Listen(e) \/ Unlisten(e) \/ Fire(e)
    \/ \E ch \in Channel : RegisterChannel(ch) \/ FlushPendingRequests(ch)
    \/ Resolve \/ Reaction \/ DisposeClient \/ ClientReceive
    \/ ServerReceive \/ DisposeServer

Spec == Init /\ [][Next]_vars

(* Event loops turn, the connection delivers, timers fire and services     *)
(* answer.  Nothing is ever cancelled, registered or disposed of for sure. *)
Fairness ==
    /\ WF_vars(Resolve) /\ WF_vars(Reaction)
    /\ WF_vars(ClientReceive) /\ WF_vars(ServerReceive)
    /\ \A c \in Call : WF_vars(ServiceAnswers(c)) /\ WF_vars(UnknownChannel(c))
    /\ \A ch \in Channel : WF_vars(FlushPendingRequests(ch))

FairSpec == Spec /\ Fairness

-----------------------------------------------------------------------------
TypeOK ==
    /\ client \in Client
    /\ server \in Server
    /\ up \in Seq(Request) /\ down \in Seq(Response)
    /\ fired \in [Event -> 0 .. MaxFires] /\ heard \in [Event -> 0 .. MaxFires]
    /\ abandoned \subseteq Id

(* Nothing about an id is on its way to the service. *)
Quiet(i) ==
    /\ \A k \in DOMAIN client.promises : client.promises[k].id # i
    /\ \A k \in DOMAIN up : up[k].id # i
    /\ i \notin Pending

(* What the server does for a client is what the client still wants: once  *)
(* nothing about it is on its way, an event has one subscription if it has *)
(* a listener and none otherwise, and a call that runs uncancelled is      *)
(* waited for.  A server that was disposed of does nothing.  The exception *)
(* is what was given up before it began: cancelled between the resolution  *)
(* of whenInitialized and its reaction, or taken back, timed out or        *)
(* disposed of while it was pending.                                       *)
RunsIffWanted ==
    \A i \in Id \ abandoned :
        /\ server.disposed =>
              i \notin server.active /\ (i \in Event => server.subscriptions[i] = 0)
        /\ ~server.disposed /\ Quiet(i) =>
              IF i \in Event
              THEN server.subscriptions[i] = (IF i \in client.listening THEN 1 ELSE 0)
              ELSE i \in server.active => client.result[i] = "pending"

(* A call that has a handler is on its way to its answer: requested,       *)
(* pending with a timer or a flush, running, or answered.                  *)
AnswerIsDue ==
    \A c \in client.handlers :
        \/ server.disposed
        \/ RequestOf(c) \in Items(up)
        \/ c \in server.timers \/ c \in server.running
        \/ \E m \in Items(down) : m \in Answer /\ m.id = c

(* The firings of an event come to its listener in order and each once,    *)
(* also when it is listened to again while the first request of it is on   *)
(* its way.                                                                *)
HeardInOrderOnce ==
    \A e \in Event \ abandoned : \A k \in DOMAIN down :
        down[k].type = "EventFire" /\ down[k].id = e =>
            /\ down[k].n > heard[e]
            /\ \A j \in 1 .. k - 1 :
                   down[j].type = "EventFire" /\ down[j].id = e => down[j].n < down[k].n

(* Every call is settled: answered, cancelled, or refused for want of its  *)
(* channel; unless the server is disposed of, which the client need not    *)
(* hear of.                                                                *)
EventuallySettled ==
    \A c \in Call :
        client.result[c] = "pending" ~> client.result[c] # "pending" \/ server.disposed

=============================================================================
