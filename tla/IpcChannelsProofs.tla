------------------------- MODULE IpcChannelsProofs --------------------------
(***************************************************************************)
(* The safety properties of IpcChannels, for any calls, events, channels   *)
(* and bounds.                                                             *)
(*                                                                         *)
(* The invariant follows what is known of a call or an event from the      *)
(* client through the requests on their way to the server.  It speaks of   *)
(* those that were not given up before they began.                         *)
(***************************************************************************)
EXTENDS IpcChannels, SequenceTheorems, FunctionTheorems, FiniteSetTheorems, TLAPS

Promise == [id : Id, resolved : BOOLEAN]

Begins(m) == m.type \in {"Promise", "EventListen"}

(* Which of these requests, or promises, are about i.                      *)
Has(q, i) == \E k \in DOMAIN q : q[k].id = i
Once(q, i) == \A k, l \in DOMAIN q : q[k].id = i /\ q[l].id = i => k = l

Sent(q, i) == \E k \in DOMAIN q : q[k].id = i /\ Begins(q[k])
SentOnce(q, i) ==
    \A k, l \in DOMAIN q :
        q[k].id = i /\ Begins(q[k]) /\ q[l].id = i /\ Begins(q[l]) => k = l
Ended(q, i) == \E k \in DOMAIN q : q[k].id = i /\ ~Begins(q[k])
EndedLater(q, i) ==
    \A k \in DOMAIN q : q[k].id = i /\ Begins(q[k]) =>
        \E l \in DOMAIN q : k < l /\ q[l].id = i /\ ~Begins(q[l])

(* Taken in turn, those about i ask for nothing that a holder of i already *)
(* has or has not: he has it before them as b says, after them as a says.  *)
Leads(q, i, b, a) ==
    /\ ~Has(q, i) => (b <=> a)
    /\ \A k \in DOMAIN q :
          q[k].id = i /\ (\A j \in DOMAIN q : j < k => q[j].id # i) => (Begins(q[k]) <=> ~b)
    /\ \A k \in DOMAIN q :
          q[k].id = i /\ (\A j \in DOMAIN q : k < j => q[j].id # i) => (Begins(q[k]) <=> a)
    /\ \A k, l \in DOMAIN q :
          /\ k < l /\ q[k].id = i /\ q[l].id = i
          /\ \A j \in DOMAIN q : k < j /\ j < l => q[j].id # i
          => (Begins(q[k]) <=> ~Begins(q[l]))

(* What the server has of a request.                                       *)
Held(i) == i \in Pending \/ i \in server.active

-----------------------------------------------------------------------------
(* The parts of the invariant. *)

Lists ==
    /\ \A i \in client.current : Has(client.promises, i)
    /\ IsFiniteSet(client.active)
    /\ \A ch \in Channel : \A i \in Items(server.pending[ch]) : ChannelOf[i] = ch
    /\ \A e \in Event : e \in server.active => server.subscriptions[e] >= 1
    /\ \A i \in Id \ abandoned : server.disposed => ~Held(i)

(* An event: the client has one request for it or none, and the requests   *)
(* on their way lead from what the server has of it to what the client     *)
(* asked for last.                                                         *)
EventInv(e) ==
    /\ Once(client.promises, e)
    /\ Has(client.promises, e) => e \in client.current
    /\ e \in client.listening <=> e \in client.current \/ e \in client.active
    /\ e \notin client.current \/ e \notin client.active
    /\ server.subscriptions[e] = IF e \in server.active THEN 1 ELSE 0
    /\ e \notin Pending \/ e \notin server.active
    /\ \A k, l \in DOMAIN server.pending[ChannelOf[e]] :
          server.pending[ChannelOf[e]][k] = e /\ server.pending[ChannelOf[e]][l] = e => k = l
    /\ server.disposed \/ Leads(up, e, Held(e), e \in client.active)

(* A call is in one place at a time.                                       *)
Answered(c) ==
    \/ \E k \in DOMAIN down : down[k] \in Answer /\ down[k].id = c
    \/ client.result[c] \in {"success", "error"}

CallInv(c) ==
    /\ Once(client.promises, c) /\ SentOnce(up, c)
    /\ Has(client.promises, c) => c \in client.current /\ client.result[c] = "pending"
    /\ Has(client.promises, c) => ~Sent(up, c)
    /\ Has(client.promises, c) \/ Sent(up, c) => c \notin Pending
    /\ Has(client.promises, c) \/ Sent(up, c) \/ c \in Pending => c \notin server.running
    /\ Has(client.promises, c) \/ Sent(up, c) \/ c \in Pending \/ c \in server.running => ~Answered(c)
    /\ c \in server.active => c \in server.running
    /\ client.result[c] = "none" =>
          ~Sent(up, c) /\ c \notin Pending /\ c \notin server.running /\ ~Answered(c)
    /\ client.result[c] # "pending" => EndedLater(up, c) /\ (Held(c) => Ended(up, c))

(* The firings on their way. *)
Fired ==
    /\ HeardInOrderOnce
    /\ \A e \in Event : heard[e] <= fired[e]
    /\ \A k \in DOMAIN down : down[k] \in Firing => down[k].n <= fired[down[k].id]

IInv ==
    /\ TypeOK /\ Lists
    /\ \A e \in Event \ abandoned : EventInv(e)
    /\ \A c \in Call \ abandoned : CallInv(c)
    /\ AnswerIsDue /\ Fired

-----------------------------------------------------------------------------
(* Sequences that are joined, and sequences without their head. *)

LEMMA JoinedParts ==
    ASSUME NEW S, NEW q \in Seq(S), NEW r \in Seq(S)
    PROVE  /\ q \o r \in Seq(S)
           /\ Len(q) \in Nat /\ Len(r) \in Nat
           /\ DOMAIN q = 1 .. Len(q) /\ DOMAIN r = 1 .. Len(r)
           /\ DOMAIN (q \o r) = 1 .. Len(q) + Len(r)
           /\ \A k \in DOMAIN q : (q \o r)[k] = q[k]
           /\ \A k \in DOMAIN r : (q \o r)[Len(q) + k] = r[k]
           /\ \A k \in DOMAIN (q \o r) :
                 k \notin DOMAIN q => k - Len(q) \in DOMAIN r /\ (q \o r)[k] = r[k - Len(q)]
<1>1. /\ q \o r \in Seq(S)
      /\ Len(q \o r) = Len(q) + Len(r)
      /\ \A i \in 1 .. Len(q) + Len(r) :
            (q \o r)[i] = IF i <= Len(q) THEN q[i] ELSE r[i - Len(q)]
  BY ConcatProperties
<1>2. /\ Len(q) \in Nat /\ Len(r) \in Nat /\ DOMAIN q = 1 .. Len(q) /\ DOMAIN r = 1 .. Len(r)
      /\ DOMAIN (q \o r) = 1 .. Len(q \o r)
  BY <1>1, LenProperties
<1>3. \A k \in DOMAIN r : Len(q) + k \in 1 .. Len(q) + Len(r) /\ ~(Len(q) + k <= Len(q))
                          /\ (Len(q) + k) - Len(q) = k
  BY <1>2
<1> QED  BY <1>1, <1>2, <1>3

LEMMA HasJoined ==
    ASSUME NEW S, NEW q \in Seq(S), NEW r \in Seq(S), NEW i
    PROVE  Has(q \o r, i) <=> Has(q, i) \/ Has(r, i)
<1> DEFINE j == q \o r
<1>1. /\ Len(q) \in Nat /\ DOMAIN q = 1 .. Len(q) /\ DOMAIN r = 1 .. Len(r) /\ Len(r) \in Nat
      /\ DOMAIN j = 1 .. Len(q) + Len(r)
      /\ \A k \in DOMAIN q : j[k] = q[k]
      /\ \A k \in DOMAIN r : j[Len(q) + k] = r[k]
      /\ \A k \in DOMAIN j : k \notin DOMAIN q => k - Len(q) \in DOMAIN r /\ j[k] = r[k - Len(q)]
  BY JoinedParts
<1>2. \A k \in DOMAIN q : k \in DOMAIN j
  BY <1>1
<1>3. \A k \in DOMAIN r : Len(q) + k \in DOMAIN j
  BY <1>1
<1> HIDE DEF j
<1>4. Has(j, i) <=> Has(q, i) \/ Has(r, i)
  BY <1>1, <1>2, <1>3 DEF Has
<1> QED  BY <1>4 DEF j

LEMMA OnceJoined ==
    ASSUME NEW S, NEW q \in Seq(S), NEW r \in Seq(S), NEW i,
           Once(q, i), Once(r, i), ~Has(q, i) \/ ~Has(r, i)
    PROVE  Once(q \o r, i)
<1> DEFINE j == q \o r
<1>1. /\ Len(q) \in Nat /\ DOMAIN q = 1 .. Len(q) /\ DOMAIN r = 1 .. Len(r) /\ Len(r) \in Nat
      /\ DOMAIN j = 1 .. Len(q) + Len(r)
      /\ \A k \in DOMAIN q : j[k] = q[k]
      /\ \A k \in DOMAIN j : k \notin DOMAIN q => k - Len(q) \in DOMAIN r /\ j[k] = r[k - Len(q)]
  BY JoinedParts
<1> HIDE DEF j
<1> SUFFICES ASSUME NEW k \in DOMAIN j, NEW l \in DOMAIN j, j[k].id = i, j[l].id = i
             PROVE  k = l
  BY DEF Once, j
<1>2. CASE k \in DOMAIN q
  BY <1>1, <1>2 DEF Once, Has
<1>3. CASE k \notin DOMAIN q
  <2>1. k - Len(q) \in DOMAIN r /\ r[k - Len(q)].id = i
    BY <1>1, <1>3
  <2>2. l \notin DOMAIN q
    BY <1>1, <2>1 DEF Has
  <2>3. l - Len(q) \in DOMAIN r /\ r[l - Len(q)].id = i
    BY <1>1, <2>2
  <2>4. k - Len(q) = l - Len(q)
    BY <2>1, <2>3 DEF Once
  <2> QED  BY <1>1, <2>4
<1> QED  BY <1>2, <1>3

LEMMA SentJoined ==
    ASSUME NEW S, NEW q \in Seq(S), NEW r \in Seq(S), NEW i
    PROVE  /\ Sent(q \o r, i) <=> Sent(q, i) \/ Sent(r, i)
           /\ Ended(q \o r, i) <=> Ended(q, i) \/ Ended(r, i)
<1> DEFINE j == q \o r
<1>1. /\ Len(q) \in Nat /\ DOMAIN q = 1 .. Len(q) /\ DOMAIN r = 1 .. Len(r) /\ Len(r) \in Nat
      /\ DOMAIN j = 1 .. Len(q) + Len(r)
      /\ \A k \in DOMAIN q : j[k] = q[k]
      /\ \A k \in DOMAIN r : j[Len(q) + k] = r[k]
      /\ \A k \in DOMAIN j : k \notin DOMAIN q => k - Len(q) \in DOMAIN r /\ j[k] = r[k - Len(q)]
  BY JoinedParts
<1>2. \A k \in DOMAIN q : k \in DOMAIN j
  BY <1>1
<1>3. \A k \in DOMAIN r : Len(q) + k \in DOMAIN j
  BY <1>1
<1> HIDE DEF j
<1>4. Sent(j, i) <=> Sent(q, i) \/ Sent(r, i)
  BY <1>1, <1>2, <1>3 DEF Sent
<1>5. Ended(j, i) <=> Ended(q, i) \/ Ended(r, i)
  BY <1>1, <1>2, <1>3 DEF Ended
<1> QED  BY <1>4, <1>5 DEF j

LEMMA SentOnceJoined ==
    ASSUME NEW S, NEW q \in Seq(S), NEW r \in Seq(S), NEW i,
           SentOnce(q, i), SentOnce(r, i), ~Sent(q, i) \/ ~Sent(r, i)
    PROVE  SentOnce(q \o r, i)
<1> DEFINE j == q \o r
<1>1. /\ Len(q) \in Nat /\ DOMAIN q = 1 .. Len(q) /\ DOMAIN r = 1 .. Len(r) /\ Len(r) \in Nat
      /\ DOMAIN j = 1 .. Len(q) + Len(r)
      /\ \A k \in DOMAIN q : j[k] = q[k]
      /\ \A k \in DOMAIN j : k \notin DOMAIN q => k - Len(q) \in DOMAIN r /\ j[k] = r[k - Len(q)]
  BY JoinedParts
<1> HIDE DEF j
<1> SUFFICES ASSUME NEW k \in DOMAIN j, NEW l \in DOMAIN j,
                    j[k].id = i, Begins(j[k]), j[l].id = i, Begins(j[l])
             PROVE  k = l
  BY DEF SentOnce, j
<1>2. CASE k \in DOMAIN q
  BY <1>1, <1>2 DEF SentOnce, Sent
<1>3. CASE k \notin DOMAIN q
  <2>1. k - Len(q) \in DOMAIN r /\ r[k - Len(q)].id = i /\ Begins(r[k - Len(q)])
    BY <1>1, <1>3
  <2>2. l \notin DOMAIN q
    BY <1>1, <2>1 DEF Sent
  <2>3. l - Len(q) \in DOMAIN r /\ r[l - Len(q)].id = i /\ Begins(r[l - Len(q)])
    BY <1>1, <2>2
  <2>4. k - Len(q) = l - Len(q)
    BY <2>1, <2>3 DEF SentOnce
  <2> QED  BY <1>1, <2>4
<1> QED  BY <1>2, <1>3

LEMMA EndedLaterJoined ==
    ASSUME NEW S, NEW q \in Seq(S), NEW r \in Seq(S), NEW i,
           EndedLater(q, i) \/ Ended(r, i), ~Sent(r, i)
    PROVE  EndedLater(q \o r, i)
<1> DEFINE j == q \o r
<1>1. /\ Len(q) \in Nat /\ DOMAIN q = 1 .. Len(q) /\ DOMAIN r = 1 .. Len(r) /\ Len(r) \in Nat
      /\ DOMAIN j = 1 .. Len(q) + Len(r)
      /\ \A k \in DOMAIN q : j[k] = q[k]
      /\ \A k \in DOMAIN r : j[Len(q) + k] = r[k]
      /\ \A k \in DOMAIN j : k \notin DOMAIN q => k - Len(q) \in DOMAIN r /\ j[k] = r[k - Len(q)]
  BY JoinedParts
<1> HIDE DEF j
<1> SUFFICES ASSUME NEW k \in DOMAIN j, j[k].id = i, Begins(j[k])
             PROVE  \E l \in DOMAIN j : k < l /\ j[l].id = i /\ ~Begins(j[l])
  BY DEF EndedLater, j
<1>2. k \in DOMAIN q /\ q[k].id = i /\ Begins(q[k])
  BY <1>1 DEF Sent
<1>3. CASE EndedLater(q, i)
  <2>1. PICK l \in DOMAIN q : k < l /\ q[l].id = i /\ ~Begins(q[l])
    BY <1>2, <1>3 DEF EndedLater
  <2>2. l \in DOMAIN j /\ j[l] = q[l]
    BY <1>1
  <2> QED  BY <2>1, <2>2
<1>4. CASE Ended(r, i)
  <2>1. PICK n \in DOMAIN r : r[n].id = i /\ ~Begins(r[n])
    BY <1>4 DEF Ended
  <2>2. Len(q) + n \in DOMAIN j /\ j[Len(q) + n] = r[n] /\ k < Len(q) + n
    BY <1>1, <1>2
  <2> QED  BY <2>1, <2>2
<1> QED  BY <1>3, <1>4

LEMMA LeadsJoinedOther ==
    ASSUME NEW S, NEW q \in Seq(S), NEW r \in Seq(S), NEW i,
           NEW b \in BOOLEAN, NEW a \in BOOLEAN, Leads(q, i, b, a), ~Has(r, i)
    PROVE  Leads(q \o r, i, b, a)
<1> DEFINE j == q \o r
<1>1. /\ Len(q) \in Nat /\ DOMAIN q = 1 .. Len(q) /\ DOMAIN r = 1 .. Len(r) /\ Len(r) \in Nat
      /\ DOMAIN j = 1 .. Len(q) + Len(r)
      /\ \A k \in DOMAIN q : j[k] = q[k]
      /\ \A k \in DOMAIN j : k \notin DOMAIN q => k - Len(q) \in DOMAIN r /\ j[k] = r[k - Len(q)]
  BY JoinedParts
<1>2. ~Has(j, i) => (b <=> a)
  <2>1. Has(j, i) <=> Has(q, i)
    BY HasJoined
  <2> QED  BY <2>1 DEF Leads
<1>3. \A k \in DOMAIN q : k \in DOMAIN j
  BY <1>1
<1> HIDE DEF j
<1>4. \A k \in DOMAIN j : j[k].id = i => k \in DOMAIN q /\ q[k].id = i /\ j[k] = q[k]
  BY <1>1 DEF Has
<1>5. \A k \in DOMAIN j :
         j[k].id = i /\ (\A l \in DOMAIN j : l < k => j[l].id # i) => (Begins(j[k]) <=> ~b)
  <2> SUFFICES ASSUME NEW k \in DOMAIN j, j[k].id = i, \A l \in DOMAIN j : l < k => j[l].id # i
               PROVE  Begins(j[k]) <=> ~b
    OBVIOUS
  <2>1. k \in DOMAIN q /\ q[k].id = i /\ j[k] = q[k]
    BY <1>4
  <2>2. \A l \in DOMAIN q : l < k => q[l].id # i
    BY <1>1, <1>3
  <2> QED  BY <2>1, <2>2 DEF Leads
<1>6. \A k \in DOMAIN j :
         j[k].id = i /\ (\A l \in DOMAIN j : k < l => j[l].id # i) => (Begins(j[k]) <=> a)
  <2> SUFFICES ASSUME NEW k \in DOMAIN j, j[k].id = i, \A l \in DOMAIN j : k < l => j[l].id # i
               PROVE  Begins(j[k]) <=> a
    OBVIOUS
  <2>1. k \in DOMAIN q /\ q[k].id = i /\ j[k] = q[k]
    BY <1>4
  <2>2. \A l \in DOMAIN q : k < l => q[l].id # i
    BY <1>1, <1>3
  <2> QED  BY <2>1, <2>2 DEF Leads
<1>7. \A k, l \in DOMAIN j :
         /\ k < l /\ j[k].id = i /\ j[l].id = i
         /\ \A m \in DOMAIN j : k < m /\ m < l => j[m].id # i
         => (Begins(j[k]) <=> ~Begins(j[l]))
  <2> SUFFICES ASSUME NEW k \in DOMAIN j, NEW l \in DOMAIN j, k < l, j[k].id = i, j[l].id = i,
                      \A m \in DOMAIN j : k < m /\ m < l => j[m].id # i
               PROVE  Begins(j[k]) <=> ~Begins(j[l])
    OBVIOUS
  <2>1. k \in DOMAIN q /\ q[k].id = i /\ j[k] = q[k] /\ l \in DOMAIN q /\ q[l].id = i /\ j[l] = q[l]
    BY <1>4
  <2>2. \A m \in DOMAIN q : k < m /\ m < l => q[m].id # i
    BY <1>1, <1>3
  <2> QED  BY <2>1, <2>2 DEF Leads
<1>8. Leads(j, i, b, a)
  BY <1>2, <1>5, <1>6, <1>7 DEF Leads
<1> QED  BY <1>8 DEF j

LEMMA LeadsJoinedAbout ==
    ASSUME NEW S, NEW q \in Seq(S), NEW r \in Seq(S), NEW i,
           NEW b \in BOOLEAN, NEW a \in BOOLEAN, Leads(q, i, b, a), Once(r, i),
           NEW n \in DOMAIN r, r[n].id = i, Begins(r[n]) <=> ~a
    PROVE  Leads(q \o r, i, b, ~a)
<1> DEFINE j == q \o r
           last == Len(q) + n
<1>1. /\ Len(q) \in Nat /\ DOMAIN q = 1 .. Len(q) /\ DOMAIN r = 1 .. Len(r) /\ Len(r) \in Nat
      /\ DOMAIN j = 1 .. Len(q) + Len(r)
      /\ \A k \in DOMAIN q : j[k] = q[k]
      /\ \A k \in DOMAIN r : j[Len(q) + k] = r[k]
      /\ \A k \in DOMAIN j : k \notin DOMAIN q => k - Len(q) \in DOMAIN r /\ j[k] = r[k - Len(q)]
  BY JoinedParts
<1>2. \A k \in DOMAIN q : k \in DOMAIN j /\ k < last
  BY <1>1
<1>3. last \in DOMAIN j /\ j[last].id = i /\ (Begins(j[last]) <=> ~a)
  BY <1>1
<1>4. \A k \in DOMAIN j : j[k].id = i => k \in DOMAIN q \/ k = last
  <2> SUFFICES ASSUME NEW k \in DOMAIN j, j[k].id = i, k \notin DOMAIN q
               PROVE  k = last
    OBVIOUS
  <2>1. k - Len(q) \in DOMAIN r /\ r[k - Len(q)].id = i
    BY <1>1
  <2>2. k - Len(q) = n
    BY <2>1 DEF Once
  <2> QED  BY <2>2, <1>1
<1>5. \A k \in DOMAIN j : k \in Int
  BY <1>1
<1>6. last \in Int
  BY <1>1
<1> HIDE DEF j, last
<1>7. Has(j, i)
  BY <1>3 DEF Has
<1>8. \A k \in DOMAIN j :
         j[k].id = i /\ (\A l \in DOMAIN j : l < k => j[l].id # i) => (Begins(j[k]) <=> ~b)
  <2> SUFFICES ASSUME NEW k \in DOMAIN j, j[k].id = i, \A l \in DOMAIN j : l < k => j[l].id # i
               PROVE  Begins(j[k]) <=> ~b
    OBVIOUS
  <2>1. CASE k \in DOMAIN q
    <3>1. q[k].id = i /\ j[k] = q[k] /\ \A l \in DOMAIN q : l < k => q[l].id # i
      BY <1>1, <1>2, <2>1
    <3> QED  BY <2>1, <3>1 DEF Leads
  <2>2. CASE k = last
    <3>1. ~Has(q, i)
      BY <1>1, <1>2, <2>2 DEF Has
    <3> QED  BY <3>1, <2>2, <1>3 DEF Leads
  <2> QED  BY <2>1, <2>2, <1>4
<1>9. \A k \in DOMAIN j :
         j[k].id = i /\ (\A l \in DOMAIN j : k < l => j[l].id # i) => (Begins(j[k]) <=> ~a)
  BY <1>2, <1>3, <1>4
<1>10. \A k, l \in DOMAIN j :
         /\ k < l /\ j[k].id = i /\ j[l].id = i
         /\ \A m \in DOMAIN j : k < m /\ m < l => j[m].id # i
         => (Begins(j[k]) <=> ~Begins(j[l]))
  <2> SUFFICES ASSUME NEW k \in DOMAIN j, NEW l \in DOMAIN j, k < l, j[k].id = i, j[l].id = i,
                      \A m \in DOMAIN j : k < m /\ m < l => j[m].id # i
               PROVE  Begins(j[k]) <=> ~Begins(j[l])
    OBVIOUS
  <2>1. k \in DOMAIN q
    BY <1>2, <1>4, <1>5, <1>6
  <2>2. q[k].id = i /\ j[k] = q[k]
    BY <1>1, <2>1
  <2>3. CASE l \in DOMAIN q
    <3>1. q[l].id = i /\ j[l] = q[l] /\ \A m \in DOMAIN q : k < m /\ m < l => q[m].id # i
      BY <1>1, <1>2, <2>3
    <3> QED  BY <2>1, <2>2, <2>3, <3>1 DEF Leads
  <2>4. CASE l = last
    <3>1. \A m \in DOMAIN q : k < m => q[m].id # i
      BY <1>1, <1>2, <2>4
    <3>2. Begins(q[k]) <=> a
      BY <2>1, <2>2, <3>1 DEF Leads
    <3> QED  BY <3>2, <2>2, <2>4, <1>3
  <2> QED  BY <2>3, <2>4, <1>4
<1>11. Leads(j, i, b, ~a)
  BY <1>7, <1>8, <1>9, <1>10 DEF Leads
<1> QED  BY <1>11 DEF j

LEMMA TailParts ==
    ASSUME NEW S, NEW q \in Seq(S), q # <<>>
    PROVE  /\ Head(q) \in S /\ Tail(q) \in Seq(S)
           /\ Len(q) \in Nat \ {0} /\ DOMAIN q = 1 .. Len(q)
           /\ DOMAIN Tail(q) = 1 .. Len(q) - 1
           /\ Head(q) = q[1]
           /\ \A k \in DOMAIN Tail(q) : k + 1 \in DOMAIN q /\ Tail(q)[k] = q[k + 1]
           /\ \A k \in DOMAIN q : k # 1 => k - 1 \in DOMAIN Tail(q) /\ Tail(q)[k - 1] = q[k]
<1>1. /\ Head(q) \in S /\ Tail(q) \in Seq(S)
      /\ Len(Tail(q)) = Len(q) - 1
      /\ \A k \in 1 .. Len(Tail(q)) : Tail(q)[k] = q[k + 1]
  BY HeadTailProperties
<1>2. Len(q) \in Nat \ {0} /\ DOMAIN q = 1 .. Len(q) /\ DOMAIN Tail(q) = 1 .. Len(Tail(q))
  BY <1>1, LenProperties, EmptySeq
<1>3. Head(q) = q[1]
  OBVIOUS
<1>4. \A k \in DOMAIN q : k # 1 => k - 1 \in DOMAIN Tail(q) /\ k = (k - 1) + 1
  BY <1>1, <1>2
<1> QED  BY <1>1, <1>2, <1>3, <1>4

LEMMA HasTail ==
    ASSUME NEW S, NEW q \in Seq(S), q # <<>>, NEW i
    PROVE  /\ Has(q, i) <=> Head(q).id = i \/ Has(Tail(q), i)
           /\ Once(q, i) => Once(Tail(q), i) /\ (Head(q).id = i => ~Has(Tail(q), i))
<1> DEFINE t == Tail(q)
           h == Head(q)
<1>1. /\ Len(q) \in Nat \ {0} /\ DOMAIN q = 1 .. Len(q) /\ DOMAIN t = 1 .. Len(q) - 1 /\ h = q[1]
      /\ \A k \in DOMAIN t : k + 1 \in DOMAIN q /\ t[k] = q[k + 1]
      /\ \A k \in DOMAIN q : k # 1 => k - 1 \in DOMAIN t /\ t[k - 1] = q[k]
  BY TailParts
<1>2. 1 \in DOMAIN q /\ \A k \in DOMAIN t : k + 1 # 1
  BY <1>1
<1>3. \A k, l \in DOMAIN t : k + 1 = l + 1 => k = l
  BY <1>1
<1> HIDE DEF t, h
<1>4. Has(q, i) <=> h.id = i \/ Has(t, i)
  BY <1>1, <1>2 DEF Has
<1>5. Once(q, i) => Once(t, i)
  BY <1>1, <1>3 DEF Once
<1>6. Once(q, i) => (h.id = i => ~Has(t, i))
  BY <1>1, <1>2 DEF Once, Has
<1> QED  BY <1>4, <1>5, <1>6 DEF t, h

LEMMA SentTail ==
    ASSUME NEW S, NEW q \in Seq(S), q # <<>>, NEW i
    PROVE  /\ Sent(q, i) <=> (Head(q).id = i /\ Begins(Head(q))) \/ Sent(Tail(q), i)
           /\ Ended(q, i) <=> (Head(q).id = i /\ ~Begins(Head(q))) \/ Ended(Tail(q), i)
           /\ SentOnce(q, i) =>
                 SentOnce(Tail(q), i) /\ (Head(q).id = i /\ Begins(Head(q)) => ~Sent(Tail(q), i))
           /\ EndedLater(q, i) =>
                 EndedLater(Tail(q), i) /\ (Head(q).id = i /\ Begins(Head(q)) => Ended(Tail(q), i))
<1> DEFINE t == Tail(q)
           h == Head(q)
<1>1. /\ Len(q) \in Nat \ {0} /\ DOMAIN q = 1 .. Len(q) /\ DOMAIN t = 1 .. Len(q) - 1 /\ h = q[1]
      /\ \A k \in DOMAIN t : k + 1 \in DOMAIN q /\ t[k] = q[k + 1]
      /\ \A k \in DOMAIN q : k # 1 => k - 1 \in DOMAIN t /\ t[k - 1] = q[k]
  BY TailParts
<1>2. 1 \in DOMAIN q /\ \A k \in DOMAIN t : k + 1 # 1
  BY <1>1
<1>3. \A k, l \in DOMAIN t : k + 1 = l + 1 => k = l
  BY <1>1
<1>4. \A k \in DOMAIN t : \A l \in DOMAIN q : k + 1 < l => l # 1 /\ k < l - 1
  BY <1>1
<1>5. \A l \in DOMAIN q : 1 < l => l # 1
  BY <1>1
<1> HIDE DEF t, h
<1>6. Sent(q, i) <=> (h.id = i /\ Begins(h)) \/ Sent(t, i)
  BY <1>1, <1>2 DEF Sent
<1>7. Ended(q, i) <=> (h.id = i /\ ~Begins(h)) \/ Ended(t, i)
  BY <1>1, <1>2 DEF Ended
<1>8. SentOnce(q, i) => SentOnce(t, i)
  BY <1>1, <1>3 DEF SentOnce
<1>9. SentOnce(q, i) => (h.id = i /\ Begins(h) => ~Sent(t, i))
  BY <1>1, <1>2 DEF SentOnce, Sent
<1>10. EndedLater(q, i) => EndedLater(t, i)
  <2> SUFFICES ASSUME EndedLater(q, i), NEW k \in DOMAIN t, t[k].id = i, Begins(t[k])
               PROVE  \E l \in DOMAIN t : k < l /\ t[l].id = i /\ ~Begins(t[l])
    BY DEF EndedLater
  <2>1. PICK l \in DOMAIN q : k + 1 < l /\ q[l].id = i /\ ~Begins(q[l])
    BY <1>1 DEF EndedLater
  <2>2. l # 1 /\ k < l - 1
    BY <2>1, <1>4
  <2>3. l - 1 \in DOMAIN t /\ t[l - 1] = q[l]
    BY <2>2, <1>1
  <2> QED  BY <2>1, <2>2, <2>3
<1>11. EndedLater(q, i) => (h.id = i /\ Begins(h) => Ended(t, i))
  <2> SUFFICES ASSUME EndedLater(q, i), h.id = i, Begins(h)
               PROVE  Ended(t, i)
    OBVIOUS
  <2>1. PICK l \in DOMAIN q : 1 < l /\ q[l].id = i /\ ~Begins(q[l])
    BY <1>1, <1>2 DEF EndedLater
  <2>2. l - 1 \in DOMAIN t /\ t[l - 1] = q[l]
    BY <2>1, <1>1, <1>5
  <2> QED  BY <2>1, <2>2 DEF Ended
<1> QED  BY <1>6, <1>7, <1>8, <1>9, <1>10, <1>11 DEF t, h

LEMMA LeadsTail ==
    ASSUME NEW S, NEW q \in Seq(S), q # <<>>, NEW i,
           NEW b \in BOOLEAN, NEW a \in BOOLEAN, Leads(q, i, b, a)
    PROVE  /\ Head(q).id # i => Leads(Tail(q), i, b, a)
           /\ Head(q).id = i =>
                 (Begins(Head(q)) <=> ~b) /\ Leads(Tail(q), i, ~b, a)
<1> DEFINE t == Tail(q)
           h == Head(q)
<1>1. /\ Len(q) \in Nat \ {0} /\ DOMAIN q = 1 .. Len(q) /\ DOMAIN t = 1 .. Len(q) - 1 /\ h = q[1]
      /\ \A k \in DOMAIN t : k + 1 \in DOMAIN q /\ t[k] = q[k + 1]
      /\ \A k \in DOMAIN q : k # 1 => k - 1 \in DOMAIN t /\ t[k - 1] = q[k]
  BY TailParts
<1>2. 1 \in DOMAIN q /\ \A k \in DOMAIN t : k + 1 # 1 /\ 1 < k + 1
  BY <1>1
<1>3. \A k \in DOMAIN t : \A l \in DOMAIN q :
         (k + 1 < l => l # 1 /\ k < l - 1) /\ (l # 1 /\ l < k + 1 => l - 1 < k)
  BY <1>1
<1>4. \A k, l \in DOMAIN t : k < l => k + 1 < l + 1
  BY <1>1
<1>5. Has(q, i) <=> h.id = i \/ Has(t, i)
  BY HasTail
<1>6. DOMAIN q \subseteq Int /\ DOMAIN t \subseteq Int
  BY <1>1
<1> HIDE DEF t, h
<1>7. \A k \in DOMAIN t :
         t[k].id = i /\ (\A l \in DOMAIN t : k < l => t[l].id # i) => (Begins(t[k]) <=> a)
  <2> SUFFICES ASSUME NEW k \in DOMAIN t, t[k].id = i, \A l \in DOMAIN t : k < l => t[l].id # i
               PROVE  Begins(t[k]) <=> a
    OBVIOUS
  <2>1. \A l \in DOMAIN q : k + 1 < l => q[l].id # i
    BY <1>1, <1>3
  <2> QED  BY <1>1, <2>1 DEF Leads
<1>8. \A k, l \in DOMAIN t :
         /\ k < l /\ t[k].id = i /\ t[l].id = i
         /\ \A m \in DOMAIN t : k < m /\ m < l => t[m].id # i
         => (Begins(t[k]) <=> ~Begins(t[l]))
  <2> SUFFICES ASSUME NEW k \in DOMAIN t, NEW l \in DOMAIN t, k < l, t[k].id = i, t[l].id = i,
                      \A m \in DOMAIN t : k < m /\ m < l => t[m].id # i
               PROVE  Begins(t[k]) <=> ~Begins(t[l])
    OBVIOUS
  <2>1. ASSUME NEW m \in DOMAIN q, k + 1 < m, m < l + 1
        PROVE  q[m].id # i
    <3>1. m # 1 /\ k < m - 1 /\ m - 1 < l /\ m - 1 \in DOMAIN t /\ t[m - 1] = q[m]
      BY <2>1, <1>1, <1>3
    <3> QED  BY <3>1
  <2>2. k + 1 < l + 1
    BY <1>4
  <2> QED  BY <1>1, <2>1, <2>2 DEF Leads
<1>9. ASSUME h.id # i
      PROVE  Leads(t, i, b, a)
  <2>1. ~Has(t, i) => (b <=> a)
    BY <1>5, <1>9 DEF Leads
  <2>2. ASSUME NEW k \in DOMAIN t, t[k].id = i, \A l \in DOMAIN t : l < k => t[l].id # i
        PROVE  Begins(t[k]) <=> ~b
    <3>1. ASSUME NEW m \in DOMAIN q, m < k + 1
          PROVE  q[m].id # i
      <4>1. CASE m = 1
        BY <4>1, <1>1, <1>9
      <4>2. CASE m # 1
        <5>1. m - 1 \in DOMAIN t /\ t[m - 1] = q[m] /\ m - 1 < k
          BY <3>1, <4>2, <1>1, <1>3
        <5> QED  BY <2>2, <5>1
      <4> QED  BY <4>1, <4>2
    <3>2. k + 1 \in DOMAIN q /\ q[k + 1].id = i /\ t[k] = q[k + 1]
      BY <1>1, <2>2
    <3> QED  BY <3>1, <3>2 DEF Leads
  <2> QED  BY <2>1, <2>2, <1>7, <1>8 DEF Leads
<1>10. ASSUME h.id = i
       PROVE  (Begins(h) <=> ~b) /\ Leads(t, i, ~b, a)
  <2>1. Begins(h) <=> ~b
    <3>1. \A m \in DOMAIN q : ~(m < 1)
      BY <1>1
    <3> QED  BY <3>1, <1>1, <1>2, <1>10 DEF Leads
  <2>2. ~Has(t, i) => (~b <=> a)
    <3> SUFFICES ASSUME ~Has(t, i)
                 PROVE  Begins(h) <=> a
      BY <2>1
    <3>1. ASSUME NEW m \in DOMAIN q, 1 < m
          PROVE  q[m].id # i
      <4>1. m # 1
        BY <3>1, <1>6
      <4> QED  BY <4>1, <1>1 DEF Has
    <3> QED  BY <3>1, <1>1, <1>2, <1>10 DEF Leads
  <2>3. ASSUME NEW k \in DOMAIN t, t[k].id = i, \A l \in DOMAIN t : l < k => t[l].id # i
        PROVE  Begins(t[k]) <=> b
    <3>1. ASSUME NEW m \in DOMAIN q, 1 < m, m < k + 1
          PROVE  q[m].id # i
      <4>1. m # 1
        BY <3>1, <1>6
      <4>2. m - 1 \in DOMAIN t /\ t[m - 1] = q[m] /\ m - 1 < k
        BY <3>1, <4>1, <1>1, <1>3
      <4> QED  BY <2>3, <4>2
    <3>2. k + 1 \in DOMAIN q /\ q[k + 1].id = i /\ t[k] = q[k + 1] /\ 1 < k + 1
      BY <1>1, <1>2, <2>3
    <3>3. Begins(h) <=> ~Begins(t[k])
      BY <3>1, <3>2, <1>1, <1>2, <1>10 DEF Leads
    <3> QED  BY <2>1, <3>3
  <2>4. \A k \in DOMAIN t :
           t[k].id = i /\ (\A l \in DOMAIN t : l < k => t[l].id # i) => (Begins(t[k]) <=> ~~b)
    BY <2>3
  <2>5. Leads(t, i, ~b, a)
    BY <2>2, <2>4, <1>7, <1>8 DEF Leads
  <2> QED  BY <2>1, <2>5
<1> QED  BY <1>9, <1>10 DEF t, h

-----------------------------------------------------------------------------
(* The indices that remain, counted from the first.                        *)

Rank(kept, k) == Cardinality({j \in kept : j <= k})

LEMMA Ranks ==
    ASSUME NEW n \in Nat, NEW kept \in SUBSET (1 .. n)
    PROVE  /\ IsFiniteSet(kept) /\ Cardinality(kept) \in Nat
           /\ \A k \in kept : Rank(kept, k) \in 1 .. Cardinality(kept)
           /\ \A k, l \in kept : Rank(kept, k) = Rank(kept, l) => k = l
           /\ \A m \in 1 .. Cardinality(kept) : \E k \in kept : Rank(kept, k) = m
<1> DEFINE upto(k) == {j \in kept : j <= k}
<1>1. IsFiniteSet(kept) /\ Cardinality(kept) \in Nat
  <2>1. IsFiniteSet(1 .. n)
    <3>1. 1 \in Int /\ n \in Int
      OBVIOUS
    <3> QED  BY <3>1, FS_Interval
  <2>2. IsFiniteSet(kept)
    BY <2>1, FS_Subset
  <2> QED  BY <2>2, FS_CardinalityType
<1>2. \A k \in kept : IsFiniteSet(upto(k)) /\ Cardinality(upto(k)) \in Nat
                      /\ Cardinality(upto(k)) <= Cardinality(kept)
  BY <1>1, FS_Subset, FS_CardinalityType
<1>3. \A k \in kept : Cardinality(upto(k)) # 0
  BY <1>2, FS_EmptySet
<1>4. \A k \in kept : Rank(kept, k) \in 1 .. Cardinality(kept)
  <2> HIDE DEF upto
  <2>1. ASSUME NEW k \in kept, NEW c, c = Cardinality(upto(k))
        PROVE  c \in 1 .. Cardinality(kept)
    BY <1>1, <1>2, <1>3, <2>1
  <2> QED  BY <2>1 DEF Rank, upto
<1>5. \A k, l \in kept : Rank(kept, k) = Rank(kept, l) => k = l
  <2>1. ASSUME NEW k \in kept, NEW l \in kept, k < l
        PROVE  Rank(kept, k) # Rank(kept, l)
    <3>1. upto(k) \in SUBSET upto(l)
      <4>1. \A j \in kept : j <= k => j <= l
        BY <2>1
      <4> QED  BY <4>1
    <3>2. l \in upto(l) /\ l \notin upto(k)
      BY <2>1
    <3>3. upto(k) # upto(l)
      BY <3>2
    <3>4. Cardinality(upto(k)) # Cardinality(upto(l))
      BY <3>1, <3>3, <1>2, FS_Subset
    <3> QED  BY <3>4 DEF Rank
  <2> QED  BY <2>1
<1>6. \A m \in 1 .. Cardinality(kept) : \E k \in kept : Rank(kept, k) = m
  <2> DEFINE f == [k \in kept |-> Rank(kept, k)]
             T == 1 .. Cardinality(kept)
  <2>1. f \in Injection(kept, T)
    BY <1>4, <1>5, Fun_IsInj
  <2>2. IsFiniteSet(T) /\ Cardinality(T) = Cardinality(kept)
    <3>1. IsFiniteSet(T) /\ Cardinality(T) = IF 1 > Cardinality(kept) THEN 0 ELSE Cardinality(kept) - 1 + 1
      BY <1>1, FS_Interval
    <3> HIDE DEF T
    <3> QED  BY <3>1, <1>1
  <2>3. f \in Surjection(kept, T)
    <3> HIDE DEF f, T
    <3> QED  BY <2>1, <2>2, FS_Injection
  <2>4. \A m \in T : \E k \in kept : f[k] = m
    <3> HIDE DEF f
    <3> QED  BY <2>3, Fun_SurjectionProperties
  <2> QED  BY <2>4
<1> QED  BY <1>1, <1>4, <1>5, <1>6

LEMMA HasLast ==
    ASSUME NEW n \in Nat, NEW kept \in SUBSET (1 .. n), kept # {}
    PROVE  \E k \in kept : \A j \in kept : j <= k
<1>1. /\ IsFiniteSet(kept) /\ Cardinality(kept) \in Nat
      /\ \A m \in 1 .. Cardinality(kept) : \E k \in kept : Rank(kept, k) = m
  BY Ranks
<1>2. Cardinality(kept) # 0
  BY <1>1, FS_EmptySet
<1>3. PICK k \in kept : Rank(kept, k) = Cardinality(kept)
  BY <1>1, <1>2
<1>4. {j \in kept : j <= k} = kept
  BY <1>1, <1>3, FS_Subset DEF Rank
<1> QED  BY <1>4

-----------------------------------------------------------------------------
(* What a cancelled promise leaves of the others. *)

LEMMA LastFound ==
    ASSUME client.promises \in Seq(Promise), NEW i, Has(client.promises, i)
    PROVE  /\ LastOf(i) \in DOMAIN client.promises
           /\ client.promises[LastOf(i)].id = i
<1> DEFINE p == client.promises
           about == {k \in DOMAIN p : p[k].id = i}
<1>1. Len(p) \in Nat /\ DOMAIN p = 1 .. Len(p)
  BY LenProperties
<1>2. about \in SUBSET (1 .. Len(p)) /\ about # {}
  BY <1>1 DEF Has
<1>3. PICK k \in about : \A j \in about : j <= k
  <2> HIDE DEF about
  <2> QED  BY <1>1, <1>2, HasLast
<1>4. /\ k \in DOMAIN client.promises
      /\ client.promises[k].id = i
      /\ \A j \in DOMAIN client.promises : client.promises[j].id = i => j <= k
  BY <1>3
<1> QED  BY <1>4 DEF LastOf

(* Every promise that is not rejected stays, and no other comes. *)
LEMMA RemainingParts ==
    ASSUME client.promises \in Seq(Promise), NEW ids
    PROVE  LET kept == DOMAIN client.promises \ Rejected(ids)
           IN  /\ Remaining(ids) \in Seq(Promise)
               /\ \A n \in DOMAIN Remaining(ids) :
                     \E k \in kept : Rank(kept, k) = n /\ Remaining(ids)[n] = client.promises[k]
               /\ \A k \in kept : Rank(kept, k) \in DOMAIN Remaining(ids)
                                  /\ Remaining(ids)[Rank(kept, k)] = client.promises[k]
<1> DEFINE p == client.promises
           kept == DOMAIN p \ Rejected(ids)
           Nth(n) == CHOOSE k \in kept : Cardinality({j \in kept : j <= k}) = n
           rest == [n \in 1 .. Cardinality(kept) |-> p[Nth(n)]]
<1>1. Len(p) \in Nat /\ DOMAIN p = 1 .. Len(p) /\ \A k \in DOMAIN p : p[k] \in Promise
  BY LenProperties, ElementOfSeq
<1>2. Remaining(ids) = rest
  BY DEF Remaining
<1>3. kept \in SUBSET (1 .. Len(p))
  BY <1>1
<1> HIDE DEF kept
<1>4. /\ Cardinality(kept) \in Nat
      /\ \A k \in kept : Rank(kept, k) \in 1 .. Cardinality(kept)
      /\ \A k, l \in kept : Rank(kept, k) = Rank(kept, l) => k = l
      /\ \A m \in 1 .. Cardinality(kept) : \E k \in kept : Rank(kept, k) = m
  BY <1>1, <1>3, Ranks
<1>5. \A n \in 1 .. Cardinality(kept) : Nth(n) \in kept /\ Rank(kept, Nth(n)) = n
  BY <1>4 DEF Rank
<1> HIDE DEF Nth
<1>6. \A k \in kept : Nth(Rank(kept, k)) = k
  BY <1>4, <1>5
<1>7. rest \in Seq(Promise)
  <2>1. \A n \in 1 .. Cardinality(kept) : p[Nth(n)] \in Promise
    BY <1>1, <1>3, <1>5
  <2>2. rest \in [1 .. Cardinality(kept) -> Promise]
    BY <2>1
  <2> HIDE DEF rest
  <2> QED  BY <2>2, <1>4, SeqDef
<1>8. DOMAIN rest = 1 .. Cardinality(kept)
  OBVIOUS
<1>9. \A n \in DOMAIN rest : \E k \in kept : Rank(kept, k) = n /\ rest[n] = p[k]
  BY <1>5
<1>10. \A k \in kept : Rank(kept, k) \in DOMAIN rest /\ rest[Rank(kept, k)] = p[k]
  BY <1>4, <1>6
<1> HIDE DEF rest
<1> QED  BY <1>2, <1>7, <1>9, <1>10 DEF kept

(* A cancel takes the last promise of an id, and nothing of another id.    *)
LEMMA RemainingHas ==
    ASSUME client.promises \in Seq(Promise), NEW ids,
           \A j \in ids : Has(client.promises, j), NEW i
    PROVE  /\ Has(Remaining(ids), i) => Has(client.promises, i)
           /\ Once(client.promises, i) => Once(Remaining(ids), i)
           /\ Has(client.promises, i) /\ i \notin ids => Has(Remaining(ids), i)
           /\ Once(client.promises, i) /\ i \in ids /\ i \notin TooLate(ids) =>
                 ~Has(Remaining(ids), i)
<1> DEFINE p == client.promises
           kept == DOMAIN p \ Rejected(ids)
           rest == Remaining(ids)
<1>1. /\ \A n \in DOMAIN rest : \E k \in kept : Rank(kept, k) = n /\ rest[n] = p[k]
      /\ \A k \in kept : Rank(kept, k) \in DOMAIN rest /\ rest[Rank(kept, k)] = p[k]
  BY RemainingParts
<1>2. \A j \in ids : LastOf(j) \in DOMAIN p /\ p[LastOf(j)].id = j
  BY LastFound
<1>3. kept \subseteq DOMAIN p
  OBVIOUS
<1>4. \A k \in DOMAIN p : p[k].id \notin ids => k \in kept
  BY <1>2 DEF Rejected
<1>5. i \in ids /\ i \notin TooLate(ids) => LastOf(i) \notin kept
  BY DEF Rejected, TooLate
<1> HIDE DEF kept, rest
<1>6. Has(rest, i) => Has(p, i)
  BY <1>1, <1>3 DEF Has
<1>7. ASSUME Once(p, i)
      PROVE  Once(rest, i)
  <2> SUFFICES ASSUME NEW m \in DOMAIN rest, NEW n \in DOMAIN rest, rest[m].id = i, rest[n].id = i
               PROVE  m = n
    BY DEF Once
  <2>1. PICK k \in kept : Rank(kept, k) = m /\ rest[m] = p[k]
    BY <1>1
  <2>2. PICK l \in kept : Rank(kept, l) = n /\ rest[n] = p[l]
    BY <1>1
  <2>3. k = l
    BY <2>1, <2>2, <1>3, <1>7 DEF Once
  <2> QED  BY <2>1, <2>2, <2>3
<1>8. Has(p, i) /\ i \notin ids => Has(rest, i)
  BY <1>1, <1>4 DEF Has
<1>9. ASSUME Once(p, i), i \in ids, i \notin TooLate(ids)
      PROVE  ~Has(rest, i)
  <2> SUFFICES ASSUME NEW m \in DOMAIN rest, rest[m].id = i
               PROVE  FALSE
    BY DEF Has
  <2>1. PICK k \in kept : Rank(kept, k) = m /\ rest[m] = p[k]
    BY <1>1
  <2>2. k = LastOf(i)
    BY <2>1, <1>2, <1>3, <1>9 DEF Once
  <2> QED  BY <2>1, <2>2, <1>5, <1>9
<1> QED  BY <1>6, <1>7, <1>8, <1>9 DEF kept, rest

(* The requests of an order: one for each id. *)
LEMMA OrderOnce ==
    ASSUME NEW ids, IsFiniteSet(ids), NEW order \in Orders(ids)
    PROVE  LET r == [n \in DOMAIN order |-> EndOf(order[n])]
           IN  \A i : /\ Once(r, i)
                      /\ i \notin ids => ~Has(r, i)
                      /\ i \in ids => \E n \in DOMAIN r : r[n] = EndOf(i)
<1> DEFINE T == 1 .. Cardinality(ids)
           r == [n \in DOMAIN order |-> EndOf(order[n])]
<1>1. Cardinality(ids) \in Nat
  BY FS_CardinalityType
<1>2. order \in [T -> ids] /\ \A m, n \in DOMAIN order : order[m] = order[n] => m = n
  BY DEF Orders
<1>3. IsFiniteSet(T) /\ Cardinality(T) = Cardinality(ids)
  <2>1. IsFiniteSet(T) /\ Cardinality(T) = IF 1 > Cardinality(ids) THEN 0 ELSE Cardinality(ids) - 1 + 1
    BY <1>1, FS_Interval
  <2> HIDE DEF T
  <2> QED  BY <2>1, <1>1
<1>4. order \in Surjection(T, ids)
  <2> HIDE DEF T
  <2>1. order \in Injection(T, ids)
    BY <1>2, Fun_IsInj
  <2> QED  BY <2>1, <1>3, FS_Injection
<1>5. \A i \in ids : \E n \in DOMAIN order : order[n] = i
  <2> HIDE DEF T
  <2>1. \A i \in ids : \E n \in T : order[n] = i
    BY <1>4, Fun_SurjectionProperties
  <2> QED  BY <2>1, <1>2
<1>6. DOMAIN r = DOMAIN order /\ \A n \in DOMAIN r : r[n] = EndOf(order[n]) /\ r[n].id = order[n]
  BY DEF EndOf
<1>7. \A n \in DOMAIN order : order[n] \in ids
  BY <1>2
<1> HIDE DEF r, T
<1>8. \A i : Once(r, i)
  BY <1>2, <1>6 DEF Once
<1>9. \A i : i \notin ids => ~Has(r, i)
  BY <1>6, <1>7 DEF Has
<1>10. \A i \in ids : \E n \in DOMAIN r : r[n] = EndOf(i)
  BY <1>5, <1>6
<1> QED  BY <1>8, <1>9, <1>10 DEF r

-----------------------------------------------------------------------------
(* Types. *)

LEMMA InitType == Init => TypeOK
<1> SUFFICES ASSUME Init
             PROVE  TypeOK
  OBVIOUS
<1>1. client \in Client
  BY BoundAssumption DEF Init, Client
<1>2. server \in Server
  BY DEF Init, Server
<1>3. down \in Seq(Response)
  BY DEF Init, Response
<1>4. up \in Seq(Request)
  BY DEF Init
<1>5. fired \in [Event -> 0 .. MaxFires] /\ heard \in [Event -> 0 .. MaxFires]
  BY BoundAssumption DEF Init
<1>6. abandoned \subseteq Id
  BY DEF Init
<1> QED  BY <1>1, <1>2, <1>3, <1>4, <1>5, <1>6 DEF TypeOK

LEMMA RequestTypes ==
    \A i \in Id : /\ RequestOf(i) \in Request /\ Begins(RequestOf(i)) /\ RequestOf(i).id = i
                  /\ EndOf(i) \in Request /\ ~Begins(EndOf(i)) /\ EndOf(i).id = i
                  /\ Waiting(i) \in Promise /\ Waiting(i).id = i
  BY DEF RequestOf, EndOf, Waiting, Request, RequestType, Begins, Promise

(* What taking requests back sends. *)
LEMMA EndsType ==
    ASSUME NEW ids \in SUBSET Id, IsFiniteSet(ids), NEW order \in Orders(ids)
    PROVE  [n \in DOMAIN order |-> EndOf(order[n])] \in Seq(Request)
<1>1. Cardinality(ids) \in Nat
  BY FS_CardinalityType
<1>2. order \in [1 .. Cardinality(ids) -> ids]
  BY DEF Orders
<1>3. \A n \in DOMAIN order : EndOf(order[n]) \in Request
  BY <1>2, RequestTypes
<1>4. [n \in DOMAIN order |-> EndOf(order[n])] \in [1 .. Cardinality(ids) -> Request]
  BY <1>2, <1>3
<1> QED  BY <1>1, <1>4, SeqDef

LEMMA TakeBackType ==
    ASSUME TypeOK, NEW ids \in SUBSET Id, IsFiniteSet(ids), NEW rest \in Client, TakeBack(ids, rest)
    PROVE  client' \in Client /\ up' \in Seq(Request) /\ abandoned' \subseteq Id
<1> DEFINE waiting == ids \cap client.current
<1>1. client.promises \in Seq(Promise)
  BY DEF TypeOK, Client, Promise
<1>2. Remaining(waiting) \in Seq(Promise)
  BY <1>1, RemainingParts
<1>3. client' = [rest EXCEPT !.promises = Remaining(waiting), !.current = @ \ ids]
  BY DEF TakeBack
<1>4. client' \in Client
  <2> HIDE DEF waiting
  <2> QED  BY <1>2, <1>3 DEF Client, Promise
<1>5. up' \in Seq(Request)
  <2>1. PICK order \in Orders(ids \ waiting) : up' = up \o [n \in DOMAIN order |-> EndOf(order[n])]
    BY DEF TakeBack
  <2>2. IsFiniteSet(ids \ waiting)
    BY FS_Difference
  <2>3. [n \in DOMAIN order |-> EndOf(order[n])] \in Seq(Request)
    BY <2>2, EndsType
  <2>4. up \in Seq(Request)
    BY DEF TypeOK
  <2> QED  BY <2>1, <2>3, <2>4, ConcatProperties
<1>6. abandoned' \subseteq Id
  <2>1. abandoned' = abandoned \cup TooLate(waiting) /\ abandoned \subseteq Id
    BY DEF TakeBack, TypeOK
  <2> QED  BY <2>1 DEF TooLate
<1> QED  BY <1>4, <1>5, <1>6

LEMMA TimesType ==
    ASSUME NEW q \in Seq(Id), NEW i
    PROVE  /\ Times(i, q) \in Nat
           /\ i \in Items(q) => Times(i, q) >= 1
           /\ i \notin Items(q) => Times(i, q) = 0
           /\ i \in Items(q) /\ (\A k, l \in DOMAIN q : q[k] = i /\ q[l] = i => k = l) =>
                 Times(i, q) = 1
<1> DEFINE S == {k \in DOMAIN q : q[k] = i}
<1>1. IsFiniteSet(S) /\ Cardinality(S) \in Nat
  <2>1. Len(q) \in Int /\ DOMAIN q = 1 .. Len(q)
    BY LenProperties
  <2>2. IsFiniteSet(1 .. Len(q))
    BY <2>1, FS_Interval
  <2>3. IsFiniteSet(S)
    BY <2>1, <2>2, FS_Subset
  <2> QED  BY <2>3, FS_CardinalityType
<1>2. i \in Items(q) <=> S # {}
  BY DEF Items
<1>3. S # {} => Cardinality(S) # 0
  BY <1>1, FS_EmptySet
<1>4. S = {} => Cardinality(S) = 0
  BY FS_EmptySet
<1>5. S # {} /\ (\A k, l \in DOMAIN q : q[k] = i /\ q[l] = i => k = l) => Cardinality(S) = 1
  <2> SUFFICES ASSUME NEW k \in S, \A l, m \in DOMAIN q : q[l] = i /\ q[m] = i => l = m
               PROVE  Cardinality(S) = 1
    OBVIOUS
  <2>1. S = {k}
    OBVIOUS
  <2> QED  BY <2>1, FS_Singleton
<1>6. Times(i, q) = Cardinality(S)
  BY DEF Times
<1> HIDE DEF S
<1>7. S # {} => Cardinality(S) >= 1
  BY <1>1, <1>3
<1> QED  BY <1>1, <1>2, <1>4, <1>5, <1>6, <1>7

(* What starts, collects and ends requests gives states of the server. *)
LEMMA ServerTypes ==
    ASSUME server \in Server,
           \A e \in Event : e \in server.active => server.subscriptions[e] >= 1
    PROVE  /\ \A i \in Id : Start(server, i) \in Server /\ Collect(server, i) \in Server
           /\ \A ids : DisposeActive(server, ids) \in Server
           /\ \A ch \in Channel : StartAll(server, server.pending[ch]) \in Server
<1>1. /\ server.pending \in [Channel -> Seq(Id)] /\ server.subscriptions \in [Event -> Nat]
      /\ server.timers \subseteq Call /\ server.active \subseteq Id /\ server.running \subseteq Call
  BY DEF Server
<1>2. ASSUME NEW i \in Id
      PROVE  Start(server, i) \in Server
  <2>1. CASE i \in Call
    <3>1. Start(server, i) = [server EXCEPT !.running = server.running \cup {i},
                                            !.active = server.active \cup {i}]
      BY <2>1 DEF Start, Server
    <3>2. server.running \cup {i} \in SUBSET Call /\ server.active \cup {i} \in SUBSET Id
      BY <1>1, <2>1
    <3> QED  BY <3>1, <3>2 DEF Server
  <2>2. CASE i \in Event
    <3>1. i \notin Call
      BY <2>2, IdAssumption
    <3>2. Start(server, i) =
              [server EXCEPT !.subscriptions =
                   [server.subscriptions EXCEPT ![i] = server.subscriptions[i] + 1],
                             !.active = server.active \cup {i}]
      BY <3>1 DEF Start, Server
    <3>3. [server.subscriptions EXCEPT ![i] = server.subscriptions[i] + 1] \in [Event -> Nat]
      BY <1>1, <2>2
    <3>4. server.active \cup {i} \in SUBSET Id
      BY <1>1
    <3> QED  BY <3>2, <3>3, <3>4 DEF Server
  <2> QED  BY <2>1, <2>2 DEF Id
<1>3. ASSUME NEW i \in Id
      PROVE  Collect(server, i) \in Server
  <2>1. ChannelOf[i] \in Channel
    BY ChannelAssumption
  <2>2. Append(server.pending[ChannelOf[i]], i) \in Seq(Id)
    BY <1>1, <2>1, AppendProperties
  <2>3. [server.pending EXCEPT ![ChannelOf[i]] = Append(server.pending[ChannelOf[i]], i)]
            \in [Channel -> Seq(Id)]
    BY <1>1, <2>2
  <2>4. Collect(server, i) =
            [server EXCEPT !.pending =
                 [server.pending EXCEPT ![ChannelOf[i]] = Append(server.pending[ChannelOf[i]], i)],
                           !.timers = server.timers \cup ({i} \cap Call)]
    BY DEF Collect, Server
  <2> QED  BY <2>3, <2>4 DEF Server
<1>4. ASSUME NEW ids
      PROVE  DisposeActive(server, ids) \in Server
  <2> DEFINE subs == [e \in Event |-> IF e \in ids \cap server.active THEN server.subscriptions[e] - 1
                                      ELSE server.subscriptions[e]]
  <2>1. subs \in [Event -> Nat]
    BY <1>1
  <2>2. DisposeActive(server, ids) =
            [server EXCEPT !.active = server.active \ ids, !.subscriptions = subs]
    BY DEF DisposeActive, Server
  <2> HIDE DEF subs
  <2> QED  BY <2>1, <2>2 DEF Server
<1>5. ASSUME NEW ch \in Channel
      PROVE  StartAll(server, server.pending[ch]) \in Server
  <2> DEFINE q == server.pending[ch]
             subs == [e \in Event |-> server.subscriptions[e] + Times(e, q)]
  <2>1. q \in Seq(Id)
    BY <1>1
  <2>2. Items(q) \subseteq Id
    BY <2>1, LenProperties, ElementOfSeq DEF Items
  <2>3. \A e \in Event : server.subscriptions[e] \in Nat /\ Times(e, q) \in Nat
    BY <1>1, <2>1, TimesType
  <2>4. subs \in [Event -> Nat]
    BY <2>3
  <2>5. StartAll(server, q) =
            [server EXCEPT !.timers = server.timers \ Items(q),
                           !.active = server.active \cup Items(q),
                           !.running = server.running \cup (Items(q) \cap Call),
                           !.subscriptions = subs]
    BY DEF StartAll, Server
  <2> HIDE DEF subs, q
  <2>6. StartAll(server, q) \in Server
    BY ZenonT(30), <2>2, <2>4, <2>5 DEF Server
  <2> QED  BY <2>6 DEF q
<1> QED  BY <1>2, <1>3, <1>4, <1>5

LEMMA AnswerTypes ==
    /\ \A c \in Call, type \in AnswerType : [type |-> type, id |-> c] \in Response
    /\ \A e \in Event, n \in 1 .. MaxFires : [type |-> "EventFire", id |-> e, n |-> n] \in Response
<1>1. \A c \in Call, type \in AnswerType : [type |-> type, id |-> c] \in Answer
  BY DEF Answer
<1>2. \A e \in Event, n \in 1 .. MaxFires : [type |-> "EventFire", id |-> e, n |-> n] \in Firing
  BY DEF Firing
<1> QED  BY <1>1, <1>2 DEF Response

LEMMA ClientTypes ==
    ASSUME client \in Client
    PROVE  /\ client.promises \in Seq(Promise) /\ client.current \subseteq Id
           /\ client.handlers \subseteq Call /\ client.active \subseteq Id
           /\ client.listening \subseteq Event
           /\ client.result \in [Call -> {"none", "pending"} \cup Outcome]
           /\ client.idle \in BOOLEAN /\ client.disposed \in BOOLEAN
  BY DEF Client, Promise

LEMMA SettleType ==
    ASSUME NEW result \in [Call -> {"none", "pending"} \cup Outcome], NEW ids
    PROVE  Settle(result, ids) \in [Call -> {"none", "pending"} \cup Outcome]
  BY DEF Settle, Outcome

LEMMA RequestPromiseType ==
    ASSUME TypeOK, NEW c \in Call, RequestPromise(c)
    PROVE  TypeOK'
<1>1. client \in Client /\ up \in Seq(Request) /\ c \in Id
  BY DEF TypeOK, Id
<1>2. client.promises \in Seq(Promise)
  BY <1>1, ClientTypes
<1>3. Append(client.promises, Waiting(c)) \in Seq(Promise) /\ Append(up, RequestOf(c)) \in Seq(Request)
  BY <1>1, <1>2, RequestTypes, AppendProperties
<1>4. client' \in Client /\ up' \in Seq(Request)
  <2>1. CASE client.disposed
    <3>1. client' = [client EXCEPT !.result[c] = "canceled", !.cancelled = @ \cup {c}] /\ up' = up
      BY <2>1 DEF RequestPromise
    <3> QED  BY <3>1, <1>1 DEF Client, Outcome
  <2>2. CASE ~client.disposed /\ client.idle
    <3>1. /\ client' = [client EXCEPT !.result[c] = "pending", !.active = @ \cup {c},
                                      !.handlers = @ \cup {c}]
          /\ up' = Append(up, RequestOf(c))
      BY <2>2 DEF RequestPromise
    <3> QED  BY <3>1, <1>1, <1>3 DEF Client
  <2>3. CASE ~client.disposed /\ ~client.idle
    <3>1. /\ client' = [client EXCEPT !.result[c] = "pending", !.active = @ \cup {c},
                                      !.promises = Append(client.promises, Waiting(c)),
                                      !.current = @ \cup {c}]
          /\ up' = up
      BY <1>1, <2>3 DEF RequestPromise, Client
    <3> DEFINE p == Append(client.promises, Waiting(c))
    <3>2. p \in Seq([id : Id, resolved : BOOLEAN])
      BY <1>3 DEF Promise
    <3> HIDE DEF p
    <3> QED  BY <3>1, <3>2, <1>1 DEF Client, p
  <2> QED  BY <2>1, <2>2, <2>3
<1> QED  BY <1>4 DEF TypeOK, RequestPromise

LEMMA ListenType ==
    ASSUME TypeOK, NEW e \in Event, Listen(e)
    PROVE  TypeOK'
<1>1. client \in Client /\ e \in Id
  BY DEF TypeOK, Id
<1>2. client.promises \in Seq(Promise)
  BY <1>1, ClientTypes
<1> DEFINE p == Append(client.promises, Waiting(e))
<1>3. p \in Seq([id : Id, resolved : BOOLEAN])
  <2>1. p \in Seq(Promise)
    BY <1>1, <1>2, RequestTypes, AppendProperties
  <2> QED  BY <2>1 DEF Promise
<1>4. client' = [client EXCEPT !.listening = @ \cup {e}, !.listens[e] = @ + 1,
                               !.promises = p, !.current = @ \cup {e}]
  BY <1>1 DEF Listen, Client
<1>5. client.listens[e] + 1 \in 0 .. MaxListens
  <2>1. client.listens[e] \in 0 .. MaxListens /\ client.listens[e] < MaxListens
    BY <1>1 DEF Listen, Client
  <2> QED  BY <2>1, BoundAssumption
<1> HIDE DEF p
<1>6. client' \in Client
  BY <1>1, <1>3, <1>4, <1>5 DEF Client
<1> QED  BY <1>6 DEF TypeOK, Listen

LEMMA ResolveType ==
    ASSUME TypeOK, Resolve
    PROVE  TypeOK'
<1>1. client \in Client
  BY DEF TypeOK
<1>2. client.promises \in Seq(Promise)
  BY <1>1, ClientTypes
<1>3. PICK k \in DOMAIN client.promises : client' = [client EXCEPT !.promises[k].resolved = TRUE]
  BY DEF Resolve
<1> DEFINE p == [client.promises EXCEPT ![k].resolved = TRUE]
<1>4. client' = [client EXCEPT !.promises = p]
  BY <1>1, <1>3 DEF Client
<1>5. p \in Seq(Promise)
  <2>1. k \in 1 .. Len(client.promises) /\ client.promises[k] \in Promise
    BY <1>2, LenProperties, ElementOfSeq
  <2> DEFINE m == [client.promises[k] EXCEPT !.resolved = TRUE]
  <2>2. m \in Promise
    BY <2>1 DEF Promise
  <2>3. p = [client.promises EXCEPT ![k] = m]
    OBVIOUS
  <2> HIDE DEF m, p
  <2> QED  BY <1>2, <2>1, <2>2, <2>3, ExceptSeq
<1> HIDE DEF p
<1>6. client' \in Client
  BY <1>1, <1>4, <1>5 DEF Client, Promise
<1> QED  BY <1>6 DEF TypeOK, Resolve

LEMMA ReactionType ==
    ASSUME TypeOK, Reaction
    PROVE  TypeOK'
<1>1. client \in Client /\ up \in Seq(Request)
  BY DEF TypeOK
<1>2. client.promises \in Seq(Promise) /\ client.promises # <<>>
  BY <1>1, ClientTypes DEF Reaction
<1> DEFINE i == Head(client.promises).id
           p == Tail(client.promises)
<1>3. p \in Seq([id : Id, resolved : BOOLEAN]) /\ i \in Id
  <2>1. p \in Seq(Promise) /\ Head(client.promises) \in Promise
    BY <1>2, HeadTailProperties
  <2> QED  BY <2>1 DEF Promise
<1>4. /\ client' = [client EXCEPT !.promises = p, !.current = @ \ {i},
                                  !.handlers = @ \cup ({i} \cap Call),
                                  !.active = @ \cup ({i} \cap Event)]
      /\ up' = Append(up, RequestOf(i))
  BY <1>1 DEF Reaction, Client
<1> HIDE DEF p, i
<1>5. up' \in Seq(Request)
  BY <1>1, <1>3, <1>4, RequestTypes, AppendProperties
<1>6. client.handlers \cup ({i} \cap Call) \in SUBSET Call
      /\ client.active \cup ({i} \cap Event) \in SUBSET Id
      /\ client.current \ {i} \in SUBSET Id
  BY <1>1, <1>3 DEF Client, Id
<1>7. client' \in Client
  BY <1>1, <1>3, <1>4, <1>6 DEF Client
<1> QED  BY <1>5, <1>7 DEF TypeOK, Reaction

LEMMA CancelType ==
    ASSUME TypeOK, NEW c \in Call, Cancel(c)
    PROVE  TypeOK'
<1> DEFINE rest == [client EXCEPT !.cancelled = @ \cup {c}, !.active = @ \ {c},
                                  !.result = Settle(@, {c})]
<1>1. client \in Client /\ client.result \in [Call -> {"none", "pending"} \cup Outcome]
  BY DEF TypeOK, Client
<1>2. Settle(client.result, {c}) \in [Call -> {"none", "pending"} \cup Outcome]
  BY <1>1, SettleType
<1>3. rest \in Client
  <2>1. rest = [client EXCEPT !.cancelled = @ \cup {c}, !.active = @ \ {c},
                              !.result = Settle(client.result, {c})]
    BY <1>1 DEF Client
  <2> QED  BY <1>1, <1>2, <2>1 DEF Client
<1>4. TakeBack({c}, rest)
  BY DEF Cancel
<1>5. {c} \in SUBSET Id /\ IsFiniteSet({c})
  BY FS_Singleton DEF Id
<1> HIDE DEF rest
<1>6. client' \in Client /\ up' \in Seq(Request) /\ abandoned' \subseteq Id
  BY <1>3, <1>4, <1>5, TakeBackType
<1> QED  BY <1>6 DEF TypeOK, Cancel

LEMMA UnlistenType ==
    ASSUME TypeOK, NEW e \in Event, Unlisten(e)
    PROVE  TypeOK'
<1> DEFINE rest == [client EXCEPT !.listening = @ \ {e}, !.active = @ \ ({e} \ client.current)]
<1>1. client \in Client
  BY DEF TypeOK
<1>2. rest \in Client
  BY <1>1 DEF Client
<1>3. TakeBack({e}, rest)
  BY DEF Unlisten
<1>4. {e} \in SUBSET Id /\ IsFiniteSet({e})
  BY FS_Singleton DEF Id
<1> HIDE DEF rest
<1>5. client' \in Client /\ up' \in Seq(Request) /\ abandoned' \subseteq Id
  BY <1>2, <1>3, <1>4, TakeBackType
<1> QED  BY <1>5 DEF TypeOK, Unlisten

LEMMA DisposeClientType ==
    ASSUME TypeOK, Lists, DisposeClient
    PROVE  TypeOK'
<1> DEFINE rest == [client EXCEPT !.disposed = TRUE, !.active = {},
                                  !.listening = @ \ client.active,
                                  !.result = Settle(@, client.active)]
<1>1. client \in Client /\ client.result \in [Call -> {"none", "pending"} \cup Outcome]
  BY DEF TypeOK, Client
<1>2. Settle(client.result, client.active) \in [Call -> {"none", "pending"} \cup Outcome]
  BY <1>1, SettleType
<1>3. rest \in Client
  <2>1. rest = [client EXCEPT !.disposed = TRUE, !.active = {}, !.listening = @ \ client.active,
                              !.result = Settle(client.result, client.active)]
    BY <1>1 DEF Client
  <2> QED  BY <1>1, <1>2, <2>1 DEF Client
<1>4. TakeBack(client.active, rest)
  BY DEF DisposeClient
<1>5. client.active \in SUBSET Id /\ IsFiniteSet(client.active)
  BY <1>1 DEF Lists, Client
<1> HIDE DEF rest
<1>6. client' \in Client /\ up' \in Seq(Request) /\ abandoned' \subseteq Id
  BY <1>3, <1>4, <1>5, TakeBackType
<1> QED  BY <1>6 DEF TypeOK, DisposeClient

LEMMA ClientReceiveType ==
    ASSUME TypeOK, ClientReceive
    PROVE  TypeOK'
<1> DEFINE m == Head(down)
<1>1. client \in Client /\ heard \in [Event -> 0 .. MaxFires]
  BY DEF TypeOK
<1>2. down \in Seq(Response) /\ down # <<>>
  BY DEF TypeOK, ClientReceive
<1>3. down' \in Seq(Response)
  BY <1>2, HeadTailProperties DEF ClientReceive
<1>4. client' \in Client /\ heard' \in [Event -> 0 .. MaxFires]
  <2>1. CASE m = Initialize /\ client' = [client EXCEPT !.idle = TRUE] /\ heard' = heard
    BY <2>1, <1>1 DEF Client
  <2>2. CASE /\ m \in Answer
             /\ client' = IF m.id \notin client.handlers THEN client
                          ELSE [client EXCEPT !.handlers = @ \ {m.id}, !.active = @ \ {m.id},
                                   !.result[m.id] =
                                       IF @ # "pending" THEN @
                                       ELSE IF m.type = "PromiseSuccess" THEN "success" ELSE "error"]
             /\ heard' = heard
    <3>1. m.id \in Call
      BY <2>2 DEF Answer
    <3> HIDE DEF m
    <3>2. client' \in Client
      BY <2>2, <3>1, <1>1 DEF Client, Outcome
    <3> QED  BY <3>2, <2>2, <1>1
  <2>3. CASE /\ m \in Firing /\ client' = client
             /\ heard' = IF m.id \in client.listening THEN [heard EXCEPT ![m.id] = m.n] ELSE heard
    <3>1. m.id \in Event /\ m.n \in 0 .. MaxFires
      BY <2>3, BoundAssumption DEF Firing
    <3> HIDE DEF m
    <3> QED  BY <2>3, <3>1, <1>1
  <2> HIDE DEF m
  <2>4. OnResponse(m)
    BY DEF ClientReceive, m
  <2> QED  BY <2>1, <2>2, <2>3, <2>4 DEF OnResponse
<1> QED  BY <1>3, <1>4 DEF TypeOK, ClientReceive

LEMMA ServerReceiveType ==
    ASSUME TypeOK, Lists, ServerReceive
    PROVE  TypeOK'
<1> DEFINE m == Head(up)
<1>1. server \in Server /\ abandoned \subseteq Id
  BY DEF TypeOK
<1>2. up \in Seq(Request) /\ up # <<>>
  BY DEF TypeOK, ServerReceive
<1>3. up' \in Seq(Request) /\ m \in Request
  BY <1>2, HeadTailProperties DEF ServerReceive
<1>4. m.id \in Id
  BY <1>3 DEF Request
<1>5. /\ \A i \in Id : Start(server, i) \in Server /\ Collect(server, i) \in Server
      /\ \A ids : DisposeActive(server, ids) \in Server
  BY <1>1, ServerTypes DEF Lists
<1>6. /\ \/ server' = Start(server, m.id) \/ server' = Collect(server, m.id)
         \/ server' = DisposeActive(server, {m.id})
      /\ abandoned' = abandoned \/ abandoned' = abandoned \cup ({m.id} \cap Pending)
  BY DEF ServerReceive
<1> HIDE DEF m
<1>7. server' \in Server /\ abandoned' \subseteq Id
  BY <1>1, <1>4, <1>5, <1>6
<1> QED  BY <1>3, <1>7 DEF TypeOK, ServerReceive

LEMMA ServiceAnswersType ==
    ASSUME TypeOK, NEW c \in Call, ServiceAnswers(c)
    PROVE  TypeOK'
<1>1. server \in Server /\ down \in Seq(Response)
  BY DEF TypeOK
<1>2. server' = [server EXCEPT !.running = @ \ {c}, !.active = @ \ {c}]
  BY DEF ServiceAnswers
<1>3. server' \in Server
  BY <1>1, <1>2 DEF Server
<1>4. PICK type \in AnswerType : down' = Append(down, [type |-> type, id |-> c])
  BY DEF ServiceAnswers
<1>5. down' \in Seq(Response)
  BY <1>1, <1>4, AnswerTypes, AppendProperties
<1> QED  BY <1>3, <1>5 DEF TypeOK, ServiceAnswers

(* A firing, once for each subscription.                                   *)
Firings(e) ==
    [k \in 1 .. server.subscriptions[e] |-> [type |-> "EventFire", id |-> e, n |-> fired[e] + 1]]

LEMMA FiringsType ==
    ASSUME TypeOK, NEW e \in Event, Fire(e)
    PROVE  /\ server.subscriptions[e] \in Nat /\ fired[e] \in Nat
           /\ fired[e] + 1 \in 1 .. MaxFires
           /\ Firings(e) \in Seq(Response)
           /\ DOMAIN Firings(e) = 1 .. server.subscriptions[e]
           /\ down' = down \o Firings(e)
<1>1. server.subscriptions[e] \in Nat
  BY DEF TypeOK, Server
<1>2. fired[e] \in 0 .. MaxFires /\ fired[e] < MaxFires
  BY DEF TypeOK, Fire
<1>3. fired[e] \in Nat /\ fired[e] + 1 \in 1 .. MaxFires
  BY <1>2, BoundAssumption
<1>4. [type |-> "EventFire", id |-> e, n |-> fired[e] + 1] \in Response
  BY <1>3, AnswerTypes
<1>5. Firings(e) \in [1 .. server.subscriptions[e] -> Response]
  BY <1>4 DEF Firings
<1>6. Firings(e) \in Seq(Response)
  BY <1>1, <1>5, SeqDef
<1> QED  BY <1>1, <1>3, <1>6 DEF Firings, Fire

LEMMA FireType ==
    ASSUME TypeOK, NEW e \in Event, Fire(e)
    PROVE  TypeOK'
<1>1. down \in Seq(Response) /\ fired \in [Event -> 0 .. MaxFires]
  BY DEF TypeOK
<1>2. down' \in Seq(Response)
  <2>1. Firings(e) \in Seq(Response) /\ down' = down \o Firings(e)
    BY FiringsType
  <2> QED  BY <1>1, <2>1, ConcatProperties
<1>3. fired[e] + 1 \in 0 .. MaxFires
  <2>1. fired[e] + 1 \in 1 .. MaxFires
    BY FiringsType
  <2> QED  BY <2>1, BoundAssumption
<1>4. fired' \in [Event -> 0 .. MaxFires]
  BY <1>1, <1>3 DEF Fire
<1> QED  BY <1>2, <1>4 DEF TypeOK, Fire

LEMMA RegisterChannelType ==
    ASSUME TypeOK, NEW ch \in Channel, RegisterChannel(ch)
    PROVE  TypeOK'
<1>1. server' \in Server
  BY DEF TypeOK, RegisterChannel, Server
<1> QED  BY <1>1 DEF TypeOK, RegisterChannel

LEMMA FlushPendingRequestsType ==
    ASSUME TypeOK, Lists, NEW ch \in Channel, FlushPendingRequests(ch)
    PROVE  TypeOK'
<1> DEFINE v == StartAll(server, server.pending[ch])
<1>1. server \in Server
  BY DEF TypeOK
<1>2. v \in Server
  BY <1>1, ServerTypes DEF Lists
<1>3. server' = [v EXCEPT !.flushing = @ \ {ch}, !.pending[ch] = <<>>]
  BY DEF FlushPendingRequests
<1> HIDE DEF v
<1>4. server' = [v EXCEPT !.flushing = v.flushing \ {ch},
                          !.pending = [v.pending EXCEPT ![ch] = <<>>]]
  BY <1>2, <1>3 DEF Server
<1>5. [v.pending EXCEPT ![ch] = <<>>] \in [Channel -> Seq(Id)]
  <2>1. <<>> \in Seq(Id) /\ v.pending \in [Channel -> Seq(Id)]
    BY <1>2 DEF Server
  <2> QED  BY <2>1
<1>6. server' \in Server
  BY <1>2, <1>4, <1>5 DEF Server
<1> QED  BY <1>6 DEF TypeOK, FlushPendingRequests

LEMMA UnknownChannelType ==
    ASSUME TypeOK, NEW c \in Call, UnknownChannel(c)
    PROVE  TypeOK'
<1>1. server' \in Server
  BY DEF TypeOK, UnknownChannel, Server
<1>2. down \in Seq(Response) /\ "PromiseError" \in AnswerType
  BY DEF TypeOK, AnswerType
<1>3. down' \in Seq(Response)
  BY <1>2, AnswerTypes, AppendProperties DEF UnknownChannel
<1>4. abandoned' \subseteq Id
  BY DEF TypeOK, UnknownChannel, Id
<1> QED  BY <1>1, <1>3, <1>4 DEF TypeOK, UnknownChannel

LEMMA PendingType == TypeOK => Pending \subseteq Id
<1> SUFFICES ASSUME TypeOK, NEW ch \in Channel
             PROVE  Items(server.pending[ch]) \subseteq Id
  BY DEF Pending
<1>1. server.pending[ch] \in Seq(Id)
  BY DEF TypeOK, Server
<1> QED  BY <1>1, LenProperties, ElementOfSeq DEF Items

LEMMA DisposeServerType ==
    ASSUME TypeOK, Lists, DisposeServer
    PROVE  TypeOK'
<1>1. server \in Server /\ abandoned \subseteq Id
  BY DEF TypeOK
<1>2. DisposeActive(server, server.active) \in Server
  BY <1>1, ServerTypes DEF Lists
<1>3. server' \in Server
  BY <1>2 DEF DisposeServer, Server
<1>4. abandoned' \subseteq Id
  BY <1>1, PendingType DEF DisposeServer
<1> QED  BY <1>3, <1>4 DEF TypeOK, DisposeServer

-----------------------------------------------------------------------------
(* What the steps do to the two lists. *)

(* What is sent after q. *)
LEMMA SentAfter ==
    ASSUME NEW q \in Seq(Request), NEW r \in Seq(Request), NEW i, Once(r, i)
    PROVE  /\ Sent(q \o r, i) <=> Sent(q, i) \/ Sent(r, i)
           /\ Ended(q \o r, i) <=> Ended(q, i) \/ Ended(r, i)
           /\ SentOnce(q, i) /\ (~Sent(q, i) \/ ~Sent(r, i)) => SentOnce(q \o r, i)
           /\ (EndedLater(q, i) \/ Ended(r, i)) /\ ~Sent(r, i) => EndedLater(q \o r, i)
<1>1. SentOnce(r, i)
  BY DEF Once, SentOnce
<1>2. /\ Sent(q \o r, i) <=> Sent(q, i) \/ Sent(r, i)
      /\ Ended(q \o r, i) <=> Ended(q, i) \/ Ended(r, i)
  BY SentJoined
<1>3. SentOnce(q, i) /\ (~Sent(q, i) \/ ~Sent(r, i)) => SentOnce(q \o r, i)
  BY <1>1, SentOnceJoined
<1>4. (EndedLater(q, i) \/ Ended(r, i)) /\ ~Sent(r, i) => EndedLater(q \o r, i)
  BY EndedLaterJoined
<1> QED  BY <1>2, <1>3, <1>4

LEMMA UpAppended ==
    ASSUME up \in Seq(Request), NEW i \in Id, up' = Append(up, RequestOf(i))
    PROVE  /\ Items(up') = Items(up) \cup {RequestOf(i)}
           /\ Sent(up', i)
           /\ ~Sent(up, i) /\ SentOnce(up, i) => SentOnce(up', i)
           /\ \A b \in BOOLEAN : Leads(up, i, b, FALSE) => Leads(up', i, b, TRUE)
           /\ \A j : /\ Ended(up', j) <=> Ended(up, j)
                     /\ j # i => /\ Sent(up', j) <=> Sent(up, j)
                                 /\ SentOnce(up, j) => SentOnce(up', j)
                                 /\ EndedLater(up, j) => EndedLater(up', j)
           /\ \A j : j # i => \A a, b \in BOOLEAN : Leads(up, j, b, a) => Leads(up', j, b, a)
<1> DEFINE r == <<RequestOf(i)>>
<1>1. r \in Seq(Request) /\ Begins(RequestOf(i)) /\ RequestOf(i).id = i /\ RequestOf(i) \in Request
  BY RequestTypes
<1>2. up' = up \o r
  BY <1>1, AppendIsConcat
<1>3. DOMAIN r = {1} /\ r[1] = RequestOf(i)
  OBVIOUS
<1>4. Items(up') = Items(up) \cup {RequestOf(i)}
  <2>1. /\ DOMAIN up' = DOMAIN up \cup {Len(up) + 1}
        /\ \A k \in DOMAIN up : up'[k] = up[k]
        /\ up'[Len(up) + 1] = RequestOf(i)
    <3>1. /\ up' \in Seq(Request) /\ Len(up') = Len(up) + 1 /\ \A k \in 1 .. Len(up) : up'[k] = up[k]
          /\ up'[Len(up) + 1] = RequestOf(i)
      BY <1>1, AppendProperties
    <3>2. Len(up) \in Nat /\ DOMAIN up = 1 .. Len(up) /\ DOMAIN up' = 1 .. Len(up')
      BY <3>1, LenProperties
    <3> QED  BY <3>1, <3>2
  <2> QED  BY <2>1 DEF Items
<1> HIDE DEF r
<1>5. /\ Sent(r, i) /\ Has(r, i) /\ \A j : j # i => ~Sent(r, j) /\ ~Has(r, j)
  BY <1>1, <1>3 DEF Sent, Has
<1>6. \A j : ~Ended(r, j) /\ Once(r, j)
  BY <1>1, <1>3 DEF Ended, Once
<1>7. ~Sent(up, i) /\ SentOnce(up, i) => SentOnce(up', i)
  BY <1>1, <1>2, <1>6, SentAfter
<1>8. \A b \in BOOLEAN : Leads(up, i, b, FALSE) => Leads(up', i, b, TRUE)
  <2> SUFFICES ASSUME NEW b \in BOOLEAN, Leads(up, i, b, FALSE)
               PROVE  Leads(up', i, b, TRUE)
    OBVIOUS
  <2>1. 1 \in DOMAIN r /\ r[1].id = i /\ (Begins(r[1]) <=> ~FALSE) /\ Once(r, i)
    BY <1>1, <1>3, <1>6
  <2>2. Leads(up \o r, i, b, ~FALSE)
    BY <1>1, <2>1, LeadsJoinedAbout
  <2>3. (~FALSE) = TRUE
    OBVIOUS
  <2> QED  BY <2>2, <2>3, <1>2
<1>9. Sent(up', i) /\ \A j : Ended(up', j) <=> Ended(up, j)
  BY <1>1, <1>2, <1>5, <1>6, SentAfter
<1>10. \A j : j # i => /\ Sent(up', j) <=> Sent(up, j)
                       /\ SentOnce(up, j) => SentOnce(up', j)
                       /\ EndedLater(up, j) => EndedLater(up', j)
  BY <1>1, <1>2, <1>5, <1>6, SentAfter
<1>11. \A j : j # i => \A a, b \in BOOLEAN : Leads(up, j, b, a) => Leads(up', j, b, a)
  BY <1>1, <1>2, <1>5, LeadsJoinedOther
<1> QED  BY <1>4, <1>7, <1>8, <1>9, <1>10, <1>11

(* Promises that are taken back, and what is sent for what was sent.       *)
LEMMA TakenBackPromises ==
    ASSUME TypeOK, Lists, NEW ids, NEW rest \in Client, TakeBack(ids, rest)
    PROVE  /\ client' = [rest EXCEPT !.promises = client'.promises, !.current = rest.current \ ids]
           /\ abandoned \subseteq abandoned'
           /\ \A i : /\ Has(client'.promises, i) => Has(client.promises, i)
                     /\ Once(client.promises, i) => Once(client'.promises, i)
                     /\ Has(client.promises, i) /\ i \notin ids \cap client.current =>
                           Has(client'.promises, i)
                     /\ Once(client.promises, i) /\ i \in ids \cap client.current
                        /\ i \notin abandoned' => ~Has(client'.promises, i)
<1> DEFINE waiting == ids \cap client.current
<1>1. client.promises \in Seq(Promise)
  BY DEF TypeOK, Client, Promise
<1>2. \A j \in waiting : Has(client.promises, j)
  BY DEF Lists
<1>3. client' = [rest EXCEPT !.promises = Remaining(waiting), !.current = @ \ ids]
  BY DEF TakeBack
<1>4. client'.promises = Remaining(waiting)
      /\ client' = [rest EXCEPT !.promises = client'.promises, !.current = rest.current \ ids]
  <2> HIDE DEF waiting
  <2> QED  BY <1>3 DEF Client
<1>5. abandoned' = abandoned \cup TooLate(waiting)
  BY DEF TakeBack
<1> HIDE DEF waiting
<1>6. \A i : /\ Has(client'.promises, i) => Has(client.promises, i)
             /\ Once(client.promises, i) => Once(client'.promises, i)
             /\ Has(client.promises, i) /\ i \notin waiting => Has(client'.promises, i)
             /\ Once(client.promises, i) /\ i \in waiting /\ i \notin TooLate(waiting) =>
                   ~Has(client'.promises, i)
  BY <1>1, <1>2, <1>4, RemainingHas
<1> QED  BY <1>4, <1>5, <1>6 DEF waiting

LEMMA TakenBackUp ==
    ASSUME TypeOK, NEW ids \in SUBSET Id, IsFiniteSet(ids), NEW rest, TakeBack(ids, rest)
    PROVE  /\ Items(up) \subseteq Items(up')
           /\ \A i : /\ Sent(up', i) <=> Sent(up, i)
                     /\ Ended(up, i) => Ended(up', i)
                     /\ SentOnce(up, i) => SentOnce(up', i)
                     /\ EndedLater(up, i) => EndedLater(up', i)
           /\ \A i \in ids \ client.current :
                 /\ Ended(up', i) /\ EndedLater(up', i)
                 /\ \A b \in BOOLEAN : Leads(up, i, b, TRUE) => Leads(up', i, b, FALSE)
           /\ \A i : i \notin ids \ client.current =>
                 \A a, b \in BOOLEAN : Leads(up, i, b, a) => Leads(up', i, b, a)
<1> DEFINE sent == ids \ client.current
<1>1. ids \ (ids \cap client.current) = sent
  OBVIOUS
<1>2. PICK order \in Orders(sent) : up' = up \o [n \in DOMAIN order |-> EndOf(order[n])]
  BY <1>1 DEF TakeBack
<1> DEFINE r == [n \in DOMAIN order |-> EndOf(order[n])]
<1>3. IsFiniteSet(sent) /\ sent \in SUBSET Id
  BY FS_Difference
<1>4. up \in Seq(Request)
  BY DEF TypeOK
<1> HIDE DEF sent
<1>5. r \in Seq(Request)
  BY <1>3, EndsType
<1>6. \A i : /\ Once(r, i)
             /\ i \notin sent => ~Has(r, i)
             /\ i \in sent => \E n \in DOMAIN r : r[n] = EndOf(i)
  BY <1>3, OrderOnce
<1>7. \A n \in DOMAIN r : ~Begins(r[n])
  BY DEF Begins, EndOf
<1> HIDE DEF r
<1>8. up' = up \o r
  BY <1>2 DEF r
<1>9. \A i \in sent : EndOf(i).id = i /\ ~Begins(EndOf(i))
  BY <1>3, RequestTypes
<1>10. \A i : ~Sent(r, i)
  BY <1>7 DEF Sent
<1>11. \A i \in sent : Ended(r, i)
  BY <1>6, <1>9 DEF Ended
<1>12. Items(up) \subseteq Items(up')
  <2>1. \A k \in DOMAIN up : k \in DOMAIN up' /\ up'[k] = up[k]
    <3>1. /\ Len(up) \in Nat /\ Len(r) \in Nat /\ DOMAIN up = 1 .. Len(up)
          /\ DOMAIN (up \o r) = 1 .. Len(up) + Len(r)
          /\ \A k \in DOMAIN up : (up \o r)[k] = up[k]
      BY <1>4, <1>5, JoinedParts
    <3> QED  BY <3>1, <1>8
  <2> QED  BY <2>1 DEF Items
<1>13. \A i : /\ Sent(up', i) <=> Sent(up, i)
              /\ Ended(up', i) <=> Ended(up, i) \/ Ended(r, i)
              /\ SentOnce(up, i) => SentOnce(up', i)
              /\ EndedLater(up, i) \/ Ended(r, i) => EndedLater(up', i)
  BY <1>4, <1>5, <1>6, <1>8, <1>10, SentAfter
<1>14. ASSUME NEW i \in sent, NEW b \in BOOLEAN, Leads(up, i, b, TRUE)
       PROVE  Leads(up', i, b, FALSE)
  <2>1. PICK n \in DOMAIN r : r[n] = EndOf(i)
    BY <1>6
  <2>2. r[n].id = i /\ (Begins(r[n]) <=> ~TRUE)
    BY <2>1, <1>9
  <2>3. Leads(up \o r, i, b, ~TRUE)
    BY <2>2, <1>4, <1>5, <1>6, <1>14, LeadsJoinedAbout
  <2>4. (~TRUE) = FALSE
    OBVIOUS
  <2> QED  BY <2>3, <2>4, <1>8
<1>15. \A i : i \notin sent => \A a, b \in BOOLEAN : Leads(up, i, b, a) => Leads(up', i, b, a)
  BY <1>4, <1>5, <1>6, <1>8, LeadsJoinedOther
<1> QED  BY <1>11, <1>12, <1>13, <1>14, <1>15 DEF sent

-----------------------------------------------------------------------------
(* What the steps do to the server. *)

LEMMA ServerFields ==
    ASSUME server \in Server
    PROVE  /\ server.pending \in [Channel -> Seq(Id)]
           /\ server.subscriptions \in [Event -> Nat]
           /\ server.timers \subseteq Call /\ server.active \subseteq Id /\ server.running \subseteq Call
           /\ server.disposed \in BOOLEAN
           /\ server = [registered |-> server.registered, flushing |-> server.flushing,
                        pending |-> server.pending, timers |-> server.timers,
                        active |-> server.active, running |-> server.running,
                        subscriptions |-> server.subscriptions, disposed |-> server.disposed]
  BY DEF Server

LEMMA Started ==
    ASSUME TypeOK, NEW i \in Id, server' = Start(server, i)
    PROVE  /\ server'.pending = server.pending /\ server'.timers = server.timers
           /\ server'.disposed = server.disposed /\ server'.active = server.active \cup {i}
           /\ server'.running = server.running \cup ({i} \cap Call)
           /\ \A e \in Event :
                 server'.subscriptions[e] = server.subscriptions[e] + (IF e = i THEN 1 ELSE 0)
<1>1. server \in Server
  BY DEF TypeOK
<1>2. \A e \in Event : server.subscriptions[e] + 0 = server.subscriptions[e]
  BY <1>1, ServerFields
<1>3. CASE i \in Call
  <2>1. server' = [server EXCEPT !.running = @ \cup {i}, !.active = @ \cup {i}]
        /\ \A e \in Event : e # i
    BY <1>3, IdAssumption DEF Start
  <2>2. {i} \cap Call = {i}
    BY <1>3
  <2> QED  BY <2>1, <2>2, <1>1, <1>2, ServerFields
<1>4. CASE i \notin Call
  <2>1. server' = [server EXCEPT !.subscriptions[i] = @ + 1, !.active = @ \cup {i}]
        /\ i \in Event
    BY <1>4 DEF Start, Id
  <2>2. {i} \cap Call = {}
    BY <1>4
  <2>3. /\ server'.pending = server.pending /\ server'.timers = server.timers
        /\ server'.disposed = server.disposed /\ server'.active = server.active \cup {i}
        /\ server'.running = server.running
        /\ server'.subscriptions = [server.subscriptions EXCEPT ![i] = server.subscriptions[i] + 1]
    BY <2>1, <1>1, ServerFields
  <2>4. server.subscriptions \in [Event -> Nat]
    BY <1>1, ServerFields
  <2>5. \A e \in Event :
           server'.subscriptions[e] = server.subscriptions[e] + (IF e = i THEN 1 ELSE 0)
    BY <2>1, <2>3, <2>4, <1>2
  <2> QED  BY <2>2, <2>3, <2>5
<1> QED  BY <1>3, <1>4

LEMMA Collected ==
    ASSUME TypeOK, NEW i \in Id, server' = Collect(server, i)
    PROVE  /\ server'.timers = server.timers \cup ({i} \cap Call)
           /\ server'.disposed = server.disposed /\ server'.active = server.active
           /\ server'.running = server.running /\ server'.subscriptions = server.subscriptions
           /\ \A ch \in Channel : server'.pending[ch] =
                 IF ch = ChannelOf[i] THEN Append(server.pending[ch], i) ELSE server.pending[ch]
           /\ \A ch \in Channel : Items(server'.pending[ch]) =
                 Items(server.pending[ch]) \cup (IF ch = ChannelOf[i] THEN {i} ELSE {})
           /\ Pending' = Pending \cup {i}
<1>1. server \in Server /\ server.pending \in [Channel -> Seq(Id)]
  BY ServerFields DEF TypeOK
<1>2. ChannelOf[i] \in Channel
  BY ChannelAssumption
<1>3. /\ server'.timers = server.timers \cup ({i} \cap Call)
      /\ server'.disposed = server.disposed /\ server'.active = server.active
      /\ server'.running = server.running /\ server'.subscriptions = server.subscriptions
      /\ server'.pending =
             [server.pending EXCEPT ![ChannelOf[i]] = Append(server.pending[ChannelOf[i]], i)]
  BY <1>1, ServerFields DEF Collect
<1>4. \A ch \in Channel : server'.pending[ch] =
         IF ch = ChannelOf[i] THEN Append(server.pending[ch], i) ELSE server.pending[ch]
  BY <1>1, <1>3
<1>5. ASSUME NEW q \in Seq(Id)
      PROVE  Items(Append(q, i)) = Items(q) \cup {i}
  <2>1. /\ Append(q, i) \in Seq(Id) /\ Len(Append(q, i)) = Len(q) + 1
        /\ \A k \in 1 .. Len(q) : Append(q, i)[k] = q[k]
        /\ Append(q, i)[Len(q) + 1] = i
    BY AppendProperties
  <2>2. Len(q) \in Nat /\ DOMAIN q = 1 .. Len(q) /\ DOMAIN Append(q, i) = 1 .. Len(Append(q, i))
    BY <2>1, LenProperties
  <2>3. DOMAIN Append(q, i) = DOMAIN q \cup {Len(q) + 1}
    BY <2>1, <2>2
  <2> QED  BY <2>1, <2>2, <2>3 DEF Items
<1>6. \A ch \in Channel : Items(server'.pending[ch]) =
         Items(server.pending[ch]) \cup (IF ch = ChannelOf[i] THEN {i} ELSE {})
  BY <1>1, <1>4, <1>5
<1>7. \A j : j \in Pending' <=> \E ch \in Channel : j \in Items(server'.pending[ch])
  BY DEF Pending
<1>8. \A j : j \in Pending <=> \E ch \in Channel : j \in Items(server.pending[ch])
  BY DEF Pending
<1>9. Pending' = Pending \cup {i}
  <2>1. ASSUME NEW j
        PROVE  j \in Pending' <=> j \in Pending \/ j = i
    BY SMTT(20), <1>2, <1>6, <1>7, <1>8
  <2> QED  BY <2>1
<1> QED  BY <1>3, <1>4, <1>6, <1>9

LEMMA ActiveDisposed ==
    ASSUME server \in Server, NEW v, NEW ids, v = DisposeActive(server, ids)
    PROVE  /\ v.pending = server.pending /\ v.timers = server.timers
           /\ v.disposed = server.disposed /\ v.running = server.running
           /\ v.active = server.active \ ids
           /\ \A e \in Event : v.subscriptions[e] =
                 IF e \in ids \cap server.active THEN server.subscriptions[e] - 1
                 ELSE server.subscriptions[e]
<1> DEFINE subs == [e \in Event |-> IF e \in ids \cap server.active THEN server.subscriptions[e] - 1
                                    ELSE server.subscriptions[e]]
<1>1. v = [server EXCEPT !.active = server.active \ ids, !.subscriptions = subs]
  BY DEF DisposeActive, Server
<1>2. \A e \in Event : subs[e] = IF e \in ids \cap server.active THEN server.subscriptions[e] - 1
                                 ELSE server.subscriptions[e]
  OBVIOUS
<1> HIDE DEF subs
<1>3. /\ v.pending = server.pending /\ v.timers = server.timers
      /\ v.disposed = server.disposed /\ v.running = server.running
      /\ v.active = server.active \ ids /\ v.subscriptions = subs
  BY <1>1, ServerFields
<1> QED  BY <1>2, <1>3

LEMMA Flushed ==
    ASSUME TypeOK, Lists, NEW ch \in Channel, FlushPendingRequests(ch)
    PROVE  LET q == server.pending[ch]
           IN  /\ server'.timers = server.timers \ Items(q)
               /\ server'.disposed = server.disposed
               /\ server'.active = server.active \cup Items(q)
               /\ server'.running = server.running \cup (Items(q) \cap Call)
               /\ \A e \in Event :
                     server'.subscriptions[e] = server.subscriptions[e] + Times(e, q)
               /\ \A c \in Channel : server'.pending[c] = IF c = ch THEN <<>> ELSE server.pending[c]
               /\ Pending' = Pending \ Items(q)
               /\ Items(q) \subseteq Pending
<1> DEFINE q == server.pending[ch]
           subs == [e \in Event |-> server.subscriptions[e] + Times(e, q)]
           pend == [server.pending EXCEPT ![ch] = <<>>]
           v == StartAll(server, q)
<1>1. server \in Server /\ server.pending \in [Channel -> Seq(Id)]
  BY ServerFields DEF TypeOK
<1>2. v = [server EXCEPT !.timers = server.timers \ Items(q),
                         !.active = server.active \cup Items(q),
                         !.running = server.running \cup (Items(q) \cap Call),
                         !.subscriptions = subs]
  BY <1>1 DEF StartAll, Server
<1>3. server' = [v EXCEPT !.flushing = @ \ {ch}, !.pending[ch] = <<>>]
  BY DEF FlushPendingRequests
<1>4. \A e \in Event : subs[e] = server.subscriptions[e] + Times(e, q)
  OBVIOUS
<1>5. \A c \in Channel : pend[c] = IF c = ch THEN <<>> ELSE server.pending[c]
  BY <1>1
<1> HIDE DEF q, subs, v
<1>6. /\ v.pending = server.pending
      /\ v.timers = server.timers \ Items(q) /\ v.disposed = server.disposed
      /\ v.active = server.active \cup Items(q)
      /\ v.running = server.running \cup (Items(q) \cap Call)
      /\ v.subscriptions = subs
      /\ v = [registered |-> v.registered, flushing |-> v.flushing, pending |-> v.pending,
              timers |-> v.timers, active |-> v.active, running |-> v.running,
              subscriptions |-> v.subscriptions, disposed |-> v.disposed]
  BY <1>1, <1>2, ServerFields
<1>7. /\ server'.timers = v.timers /\ server'.disposed = v.disposed
      /\ server'.active = v.active /\ server'.running = v.running
      /\ server'.subscriptions = v.subscriptions
      /\ server'.pending = [v.pending EXCEPT ![ch] = <<>>]
  BY <1>3, <1>6
<1>8. server'.pending = pend
  BY <1>6, <1>7
<1> HIDE DEF pend
<1>9. Items(<<>>) = {}
  BY DEF Items
<1>10. \A c \in Channel : Items(server'.pending[c]) = IF c = ch THEN {} ELSE Items(server.pending[c])
  BY <1>5, <1>8, <1>9
<1>11. \A c \in Channel : \A j \in Items(server.pending[c]) : ChannelOf[j] = c
  BY DEF Lists
<1>12. \A j : j \in Pending' <=> \E c \in Channel : j \in Items(server'.pending[c])
  BY DEF Pending
<1>13. \A j : j \in Pending <=> \E c \in Channel : j \in Items(server.pending[c])
  BY DEF Pending
<1>14. Pending' = Pending \ Items(q)
  <2>1. ASSUME NEW j
        PROVE  j \in Pending' <=> j \in Pending /\ j \notin Items(q)
    BY <1>10, <1>11, <1>12, <1>13 DEF q
  <2> QED  BY <2>1
<1>15. Items(q) \subseteq Pending
  BY <1>13 DEF q
<1> QED  BY <1>4, <1>5, <1>6, <1>7, <1>8, <1>14, <1>15 DEF q

-----------------------------------------------------------------------------
(* The steps of the client keep the invariant. *)

LEMMA PromisesAppended ==
    ASSUME TypeOK, NEW i \in Id, client'.promises = Append(client.promises, Waiting(i))
    PROVE  /\ Has(client'.promises, i)
           /\ ~Has(client.promises, i) => Once(client'.promises, i)
           /\ \A j : j # i => /\ Has(client'.promises, j) <=> Has(client.promises, j)
                              /\ Once(client.promises, j) => Once(client'.promises, j)
<1> DEFINE r == <<Waiting(i)>>
<1>1. client.promises \in Seq(Promise)
  BY ClientTypes DEF TypeOK
<1>2. r \in Seq(Promise) /\ Waiting(i).id = i /\ Waiting(i) \in Promise
  BY RequestTypes
<1>3. client'.promises = client.promises \o r
  BY <1>1, <1>2, AppendIsConcat
<1>4. DOMAIN r = {1} /\ r[1] = Waiting(i)
  OBVIOUS
<1> HIDE DEF r
<1>5. Has(r, i) /\ \A j : Once(r, j) /\ (j # i => ~Has(r, j))
  BY <1>2, <1>4 DEF Has, Once
<1>6. \A j : Has(client'.promises, j) <=> Has(client.promises, j) \/ Has(r, j)
  BY <1>1, <1>2, <1>3, HasJoined
<1>7. \A j : Once(client.promises, j) /\ (~Has(client.promises, j) \/ ~Has(r, j)) =>
                Once(client'.promises, j)
  BY <1>1, <1>2, <1>3, <1>5, OnceJoined
<1>8. ~Has(client.promises, i) => Once(client.promises, i)
  BY DEF Has, Once
<1> QED  BY <1>5, <1>6, <1>7, <1>8

LEMMA ClientFields ==
    ASSUME client \in Client
    PROVE  client = [idle |-> client.idle, disposed |-> client.disposed,
                     promises |-> client.promises, current |-> client.current,
                     handlers |-> client.handlers, active |-> client.active,
                     cancelled |-> client.cancelled, listening |-> client.listening,
                     listens |-> client.listens, result |-> client.result]
  BY DEF Client

LEMMA HeldBoolean == \A i : Held(i) \in BOOLEAN /\ (i \in client.active) \in BOOLEAN
  BY DEF Held

LEMMA RequestPromiseKeeps ==
    ASSUME IInv, NEW c \in Call, RequestPromise(c)
    PROVE  IInv'
<1>1. TypeOK /\ Lists /\ AnswerIsDue /\ Fired /\ c \in Id
  BY DEF IInv, Id
<1>2. /\ client.result[c] = "none" /\ UNCHANGED <<server, down, fired, heard, abandoned>>
      /\ Pending' = Pending
  BY DEF RequestPromise, Pending
<1>3. TypeOK'
  BY <1>1, RequestPromiseType
<1>4. client \in Client /\ up \in Seq(Request) /\ client.result \in [Call -> {"none", "pending"} \cup Outcome]
  BY <1>1, ClientTypes DEF TypeOK
<1>5. c \notin abandoned =>
         /\ CallInv(c) /\ ~Has(client.promises, c) /\ ~Sent(up, c) /\ c \notin Pending
         /\ c \notin server.running /\ ~Answered(c)
  BY <1>2 DEF IInv, CallInv
<1>6. /\ \A d \in Call : d # c => client'.result[d] = client.result[d]
      /\ client'.listening = client.listening
      /\ client'.active = client.active \/ client'.active = client.active \cup {c}
  <2>1. \/ client' = [client EXCEPT !.result[c] = "canceled", !.cancelled = @ \cup {c}]
        \/ client' = [client EXCEPT !.result[c] = "pending", !.active = @ \cup {c},
                                    !.handlers = @ \cup {c}]
        \/ client' = [client EXCEPT !.result[c] = "pending", !.active = @ \cup {c},
                                    !.promises = Append(@, Waiting(c)), !.current = @ \cup {c}]
    BY DEF RequestPromise
  <2>2. /\ \/ client'.result = [client.result EXCEPT ![c] = "canceled"]
           \/ client'.result = [client.result EXCEPT ![c] = "pending"]
        /\ client'.listening = client.listening
        /\ client'.active = client.active \/ client'.active = client.active \cup {c}
    BY <2>1, <1>4, ClientFields
  <2> QED  BY <2>2, <1>4
<1>7. \/ /\ client'.result[c] = "canceled" /\ up' = up /\ client'.promises = client.promises
         /\ client'.current = client.current /\ client'.handlers = client.handlers
      \/ /\ client'.result[c] = "pending" /\ up' = Append(up, RequestOf(c))
         /\ client'.promises = client.promises
         /\ client'.current = client.current /\ client'.handlers = client.handlers \cup {c}
      \/ /\ client'.result[c] = "pending" /\ up' = up
         /\ client'.promises = Append(client.promises, Waiting(c))
         /\ client'.current = client.current \cup {c} /\ client'.handlers = client.handlers
  <2>1. CASE client' = [client EXCEPT !.result[c] = "canceled", !.cancelled = @ \cup {c}] /\ up' = up
    BY <2>1, <1>4, ClientFields
  <2>2. CASE /\ client' = [client EXCEPT !.result[c] = "pending", !.active = @ \cup {c},
                                         !.handlers = @ \cup {c}]
             /\ up' = Append(up, RequestOf(c))
    BY <2>2, <1>4, ClientFields
  <2>3. CASE /\ client' = [client EXCEPT !.result[c] = "pending", !.active = @ \cup {c},
                                         !.promises = Append(@, Waiting(c)), !.current = @ \cup {c}]
             /\ up' = up
    BY <2>3, <1>4, ClientFields
  <2> QED  BY <2>1, <2>2, <2>3 DEF RequestPromise
<1>8. \A j : j # c => /\ Has(client'.promises, j) <=> Has(client.promises, j)
                      /\ Once(client.promises, j) => Once(client'.promises, j)
  BY <1>1, <1>7, PromisesAppended
<1>9. /\ \A j : /\ Ended(up', j) <=> Ended(up, j)
                /\ j # c => /\ Sent(up', j) <=> Sent(up, j)
                            /\ SentOnce(up, j) => SentOnce(up', j)
                            /\ EndedLater(up, j) => EndedLater(up', j)
      /\ \A j : j # c => \A a, b \in BOOLEAN : Leads(up, j, b, a) => Leads(up', j, b, a)
  BY <1>1, <1>4, <1>7, UpAppended
<1>10. Lists'
  <2>1. \A i \in client'.current : Has(client'.promises, i)
    <3>1. c \in client'.current => Has(client'.promises, c)
      BY <1>1, <1>7, PromisesAppended DEF Lists
    <3>2. \A i \in client'.current : i # c => Has(client'.promises, i)
      BY <1>1, <1>7, <1>8 DEF Lists
    <3> QED  BY <3>1, <3>2
  <2>2. IsFiniteSet(client'.active)
    BY <1>1, <1>6, FS_AddElement DEF Lists
  <2> QED  BY <2>1, <2>2, <1>1, <1>2 DEF Lists, Held
<1>11. ASSUME NEW e \in Event \ abandoned'
       PROVE  EventInv(e)'
  <2>1. e # c /\ EventInv(e)
    BY <1>2, <1>11, IdAssumption DEF IInv
  <2>2. (e \in client'.current <=> e \in client.current) /\ (e \in client'.active <=> e \in client.active)
    BY <2>1, <1>6, <1>7
  <2>3. server.disposed \/ Leads(up', e, Held(e), e \in client.active)
    BY <2>1, <1>9, HeldBoolean DEF EventInv
  <2>4. (server.disposed \/ Leads(up, e, Held(e), e \in client.active))'
    <3>1. (e \in client'.active) = (e \in client.active) /\ Held(e)' = Held(e)
      BY <2>2, <1>2 DEF Held
    <3> QED  BY <2>3, <3>1, <1>2
  <2> QED  BY <2>1, <2>2, <2>4, <1>2, <1>6, <1>8 DEF EventInv
<1>12. ASSUME NEW d \in Call \ abandoned', d # c
       PROVE  CallInv(d)'
  <2>1. CallInv(d) /\ client'.result[d] = client.result[d]
    BY <1>2, <1>6, <1>12 DEF IInv
  <2>2. d \in client'.current <=> d \in client.current
    BY <1>7, <1>12
  <2> QED  BY <2>1, <2>2, <1>2, <1>8, <1>9, <1>12 DEF CallInv, Answered, Held
<1>13. ASSUME c \notin abandoned'
       PROVE  CallInv(c)'
  <2>1. c \notin abandoned
    BY <1>2, <1>13
  <2>2. CASE client'.result[c] = "canceled" /\ up' = up /\ client'.promises = client.promises
    BY <2>1, <2>2, <1>2, <1>5 DEF CallInv, Answered, Held
  <2>3. CASE client'.result[c] = "pending" /\ up' = Append(up, RequestOf(c)) /\ client'.promises = client.promises
    <3>1. SentOnce(up', c)
      BY <2>1, <2>3, <1>1, <1>4, <1>5, UpAppended DEF CallInv
    <3> QED  BY <2>1, <2>3, <3>1, <1>2, <1>5 DEF CallInv, Answered, Held
  <2>4. CASE /\ client'.result[c] = "pending" /\ up' = up
             /\ client'.promises = Append(client.promises, Waiting(c))
             /\ client'.current = client.current \cup {c}
    <3>1. Once(client'.promises, c)
      BY <2>1, <2>4, <1>1, <1>5, PromisesAppended
    <3> QED  BY <2>1, <2>4, <3>1, <1>2, <1>5 DEF CallInv, Answered, Held
  <2> QED  BY <2>2, <2>3, <2>4, <1>7
<1>14. AnswerIsDue'
  <2>1. Items(up) \subseteq Items(up') /\ (c \in client'.handlers => c \in client.handlers \/ RequestOf(c) \in Items(up'))
    BY <1>1, <1>4, <1>7, UpAppended
  <2>2. \A d \in client'.handlers : d = c \/ d \in client.handlers
    BY <1>7
  <2>3. \A d : RequestOf(d)' = RequestOf(d)
    BY DEF RequestOf
  <2> QED  BY <2>1, <2>2, <2>3, <1>1, <1>2 DEF AnswerIsDue
<1>15. Fired'
  BY <1>1, <1>2 DEF Fired, HeardInOrderOnce
<1> QED  BY <1>3, <1>10, <1>11, <1>12, <1>13, <1>14, <1>15 DEF IInv

LEMMA ListenKeeps ==
    ASSUME IInv, NEW e \in Event, Listen(e)
    PROVE  IInv'
<1>1. TypeOK /\ Lists /\ AnswerIsDue /\ Fired /\ e \in Id
  BY DEF IInv, Id
<1>2. /\ e \notin client.listening /\ UNCHANGED <<server, up, down, fired, heard, abandoned>>
      /\ Pending' = Pending
  BY DEF Listen, Pending
<1>3. TypeOK'
  BY <1>1, ListenType
<1>4. client \in Client
  BY <1>1 DEF TypeOK
<1>5. /\ client'.promises = Append(client.promises, Waiting(e))
      /\ client'.current = client.current \cup {e} /\ client'.listening = client.listening \cup {e}
      /\ client'.active = client.active /\ client'.handlers = client.handlers
      /\ client'.result = client.result
  BY <1>4, ClientFields DEF Listen
<1>6. \A j : j # e => /\ Has(client'.promises, j) <=> Has(client.promises, j)
                      /\ Once(client.promises, j) => Once(client'.promises, j)
  BY <1>1, <1>5, PromisesAppended
<1>7. Lists'
  <2>1. \A i \in client'.current : Has(client'.promises, i)
    <3>1. Has(client'.promises, e)
      BY <1>1, <1>5, PromisesAppended
    <3> QED  BY <3>1, <1>1, <1>5, <1>6 DEF Lists
  <2> QED  BY <2>1, <1>1, <1>2, <1>5 DEF Lists, Held
<1>8. ASSUME NEW d \in Event \ abandoned'
      PROVE  EventInv(d)'
  <2>1. EventInv(d)
    BY <1>2, <1>8 DEF IInv
  <2>2. Once(client'.promises, d) /\ (d = e => d \notin client.current /\ d \notin client.active)
    <3>1. d = e => ~Has(client.promises, d) /\ d \notin client.current /\ d \notin client.active
      BY <2>1, <1>2 DEF EventInv
    <3>2. CASE d = e
      BY <3>1, <3>2, <1>1, <1>5, PromisesAppended
    <3>3. CASE d # e
      BY <3>3, <2>1, <1>6 DEF EventInv
    <3> QED  BY <3>1, <3>2, <3>3
  <2> QED  BY <2>1, <2>2, <1>2, <1>5, <1>6 DEF EventInv, Held
<1>9. ASSUME NEW c \in Call \ abandoned'
      PROVE  CallInv(c)'
  <2>1. CallInv(c) /\ c # e
    BY <1>2, <1>9, IdAssumption DEF IInv
  <2> QED  BY <2>1, <1>2, <1>5, <1>6 DEF CallInv, Answered, Held
<1>10. AnswerIsDue' /\ Fired'
  BY <1>1, <1>2, <1>5 DEF AnswerIsDue, RequestOf, Fired, HeardInOrderOnce
<1> QED  BY <1>3, <1>7, <1>8, <1>9, <1>10 DEF IInv

LEMMA ResolveKeeps ==
    ASSUME IInv, Resolve
    PROVE  IInv'
<1>1. TypeOK /\ Lists /\ AnswerIsDue /\ Fired
  BY DEF IInv
<1>2. UNCHANGED <<server, up, down, fired, heard, abandoned>> /\ Pending' = Pending
  BY DEF Resolve, Pending
<1>3. TypeOK'
  BY <1>1, ResolveType
<1>4. client \in Client /\ client.promises \in Seq(Promise)
  BY <1>1, ClientTypes DEF TypeOK
<1>5. PICK k \in DOMAIN client.promises : client' = [client EXCEPT !.promises[k].resolved = TRUE]
  BY DEF Resolve
<1>6. /\ client'.promises = [client.promises EXCEPT ![k].resolved = TRUE]
      /\ client'.current = client.current /\ client'.listening = client.listening
      /\ client'.active = client.active /\ client'.handlers = client.handlers
      /\ client'.result = client.result
  BY <1>4, <1>5, ClientFields
<1>7. /\ DOMAIN client'.promises = DOMAIN client.promises
      /\ \A n \in DOMAIN client.promises : client'.promises[n].id = client.promises[n].id
  <2>1. client.promises \in [1 .. Len(client.promises) -> Promise]
    BY <1>4, LenProperties
  <2> DEFINE p == client.promises
  <2>2. p \in [1 .. Len(p) -> Promise] /\ k \in DOMAIN p
    BY <2>1
  <2>3. client'.promises = [p EXCEPT ![k] = [p[k] EXCEPT !.resolved = TRUE]]
    BY <1>6
  <2>4. p[k] \in Promise
    BY <2>2
  <2>5. [p[k] EXCEPT !.resolved = TRUE].id = p[k].id
    BY <2>4 DEF Promise
  <2> HIDE DEF p
  <2>6. /\ DOMAIN client'.promises = DOMAIN p
        /\ \A n \in DOMAIN p : client'.promises[n].id = p[n].id
    BY <2>2, <2>3, <2>5
  <2> QED  BY <2>6 DEF p
<1>8. \A j : /\ Has(client'.promises, j) <=> Has(client.promises, j)
             /\ Once(client.promises, j) => Once(client'.promises, j)
  BY <1>7 DEF Has, Once
<1>9. Lists'
  BY <1>1, <1>2, <1>6, <1>8 DEF Lists, Held
<1>10. ASSUME NEW e \in Event \ abandoned'
       PROVE  EventInv(e)'
  <2>1. EventInv(e)
    BY <1>2, <1>10 DEF IInv
  <2> QED  BY <2>1, <1>2, <1>6, <1>8 DEF EventInv, Held
<1>11. ASSUME NEW c \in Call \ abandoned'
       PROVE  CallInv(c)'
  <2>1. CallInv(c)
    BY <1>2, <1>11 DEF IInv
  <2> QED  BY <2>1, <1>2, <1>6, <1>8 DEF CallInv, Answered, Held
<1>12. AnswerIsDue' /\ Fired'
  BY <1>1, <1>2, <1>6 DEF AnswerIsDue, RequestOf, Fired, HeardInOrderOnce
<1> QED  BY <1>3, <1>9, <1>10, <1>11, <1>12 DEF IInv

LEMMA ReactionKeeps ==
    ASSUME IInv, Reaction
    PROVE  IInv'
<1> DEFINE i == Head(client.promises).id
<1>1. TypeOK /\ Lists /\ AnswerIsDue /\ Fired
  BY DEF IInv
<1>2. UNCHANGED <<server, down, fired, heard, abandoned>> /\ Pending' = Pending
  BY DEF Reaction, Pending
<1>3. TypeOK'
  BY <1>1, ReactionType
<1>4. /\ client \in Client /\ client.promises \in Seq(Promise) /\ client.promises # <<>>
      /\ up \in Seq(Request)
  BY <1>1, ClientTypes DEF TypeOK, Reaction
<1>5. i \in Id
  <2>1. Head(client.promises) \in Promise
    BY <1>4, HeadTailProperties
  <2> QED  BY <2>1 DEF Promise
<1>6. /\ client'.promises = Tail(client.promises)
      /\ client'.current = client.current \ {i} /\ client'.listening = client.listening
      /\ client'.active = client.active \cup ({i} \cap Event)
      /\ client'.handlers = client.handlers \cup ({i} \cap Call)
      /\ client'.result = client.result
      /\ up' = Append(up, RequestOf(i))
  BY <1>4, ClientFields DEF Reaction
<1>7. \A j : /\ Has(client.promises, j) <=> i = j \/ Has(client'.promises, j)
             /\ Once(client.promises, j) =>
                   Once(client'.promises, j) /\ (i = j => ~Has(client'.promises, j))
  BY <1>4, <1>6, HasTail
<1> HIDE DEF i
<1>8. /\ Items(up') = Items(up) \cup {RequestOf(i)}
      /\ Sent(up', i)
      /\ ~Sent(up, i) /\ SentOnce(up, i) => SentOnce(up', i)
      /\ \A b \in BOOLEAN : Leads(up, i, b, FALSE) => Leads(up', i, b, TRUE)
  BY <1>4, <1>5, <1>6, UpAppended
<1>9. \A j : /\ Ended(up', j) <=> Ended(up, j)
             /\ j # i => /\ Sent(up', j) <=> Sent(up, j)
                         /\ SentOnce(up, j) => SentOnce(up', j)
                         /\ EndedLater(up, j) => EndedLater(up', j)
  BY <1>4, <1>5, <1>6, UpAppended
<1>10. \A j : j # i => \A a, b \in BOOLEAN : Leads(up, j, b, a) => Leads(up', j, b, a)
  BY <1>4, <1>5, <1>6, UpAppended
<1>11. Lists'
  <2>1. IsFiniteSet(client'.active)
    <3>1. client'.active = client.active \cup {i} \/ client'.active = client.active
      BY <1>6
    <3> QED  BY <3>1, <1>1, FS_AddElement DEF Lists
  <2>2. \A j \in client'.current : Has(client'.promises, j)
    BY <1>1, <1>6, <1>7 DEF Lists
  <2> QED  BY <2>1, <2>2, <1>1, <1>2 DEF Lists, Held
<1>12. ASSUME NEW e \in Event \ abandoned'
       PROVE  EventInv(e)'
  <2>1. EventInv(e)
    BY <1>2, <1>12 DEF IInv
  <2>2. Held(e)' = Held(e)
    BY <1>2 DEF Held
  <2>3. CASE e = i
    <3>1. e \in client.current /\ e \notin client.active /\ e \in client.listening
      BY <2>1, <2>3, <1>7 DEF EventInv
    <3>2. e \in client'.active /\ e \notin client'.current
      BY <2>3, <1>6, <1>12
    <3>3. server.disposed \/ Leads(up', e, Held(e), TRUE)
      <4>1. (e \in client.active) = FALSE
        BY <3>1
      <4> QED  BY <2>1, <2>3, <4>1, <1>8, HeldBoolean DEF EventInv
    <3>4. (server.disposed \/ Leads(up, e, Held(e), e \in client.active))'
      <4>1. (e \in client'.active) = TRUE
        BY <3>2
      <4> QED  BY <3>3, <4>1, <2>2, <1>2
    <3>5. Once(client'.promises, e) /\ ~Has(client'.promises, e)
      BY <2>1, <2>3, <1>7 DEF EventInv
    <3> QED  BY <2>1, <3>1, <3>2, <3>4, <3>5, <1>2, <1>6 DEF EventInv
  <2>4. CASE e # i
    <3>1. (e \in client'.current <=> e \in client.current) /\ (e \in client'.active <=> e \in client.active)
      BY <2>4, <1>6
    <3>2. server.disposed \/ Leads(up', e, Held(e), e \in client.active)
      BY <2>1, <2>4, <1>10, HeldBoolean DEF EventInv
    <3>3. (server.disposed \/ Leads(up, e, Held(e), e \in client.active))'
      <4>1. (e \in client'.active) = (e \in client.active)
        BY <3>1
      <4> QED  BY <3>2, <4>1, <2>2, <1>2
    <3> QED  BY <2>1, <2>4, <3>1, <3>3, <1>2, <1>6, <1>7 DEF EventInv
  <2> QED  BY <2>3, <2>4
<1>13. ASSUME NEW c \in Call \ abandoned'
       PROVE  CallInv(c)'
  <2>1. CallInv(c)
    BY <1>2, <1>13 DEF IInv
  <2>2. CASE c = i
    <3>1. /\ Has(client.promises, c) /\ client.result[c] = "pending" /\ ~Sent(up, c)
          /\ c \notin Pending /\ c \notin server.running /\ ~Answered(c)
      BY <2>1, <2>2, <1>7 DEF CallInv
    <3>2. Once(client'.promises, c) /\ ~Has(client'.promises, c) /\ SentOnce(up', c)
      BY <2>1, <2>2, <3>1, <1>7, <1>8 DEF CallInv
    <3> QED  BY <2>1, <3>1, <3>2, <1>2, <1>6 DEF CallInv, Answered, Held
  <2>3. CASE c # i
    <3>1. c \in client'.current <=> c \in client.current
      BY <2>3, <1>6
    <3> QED  BY <2>1, <2>3, <3>1, <1>2, <1>6, <1>7, <1>9 DEF CallInv, Answered, Held
  <2> QED  BY <2>2, <2>3
<1>14. AnswerIsDue'
  <2>1. \A c \in client'.handlers : c \in client.handlers \/ RequestOf(c) \in Items(up')
    BY <1>6, <1>8
  <2>2. \A d : RequestOf(d)' = RequestOf(d)
    BY DEF RequestOf
  <2> QED  BY <2>1, <2>2, <1>1, <1>2, <1>8 DEF AnswerIsDue
<1>15. Fired'
  BY <1>1, <1>2 DEF Fired, HeardInOrderOnce
<1> QED  BY <1>3, <1>11, <1>12, <1>13, <1>14, <1>15 DEF IInv

(* Whatever is taken back. *)
LEMMA TakeBackKeeps ==
    ASSUME IInv, NEW ids \in SUBSET Id, IsFiniteSet(ids), NEW rest \in Client, TakeBack(ids, rest),
           UNCHANGED <<server, down, fired, heard>>,
           rest.current = client.current, rest.handlers = client.handlers,
           IsFiniteSet(rest.active),
           \A e \in Event \ abandoned :
               /\ e \in rest.listening <=> e \in client.listening /\ e \notin ids
               /\ e \in ids => e \in client.listening
               /\ e \in rest.active <=> e \in client.active /\ e \notin ids,
           rest.result = Settle(client.result, ids)
    PROVE  /\ Lists' /\ AnswerIsDue' /\ Fired'
           /\ \A e \in Event \ abandoned' : EventInv(e)'
           /\ \A c \in Call \ abandoned' : CallInv(c)'
<1>1. TypeOK /\ Lists /\ AnswerIsDue /\ Fired
  BY DEF IInv
<1>2. client \in Client /\ client.result \in [Call -> {"none", "pending"} \cup Outcome]
  BY <1>1, ClientTypes DEF TypeOK
<1>3. Pending' = Pending
  BY DEF Pending
<1>4. /\ client' = [rest EXCEPT !.promises = client'.promises, !.current = rest.current \ ids]
      /\ abandoned \subseteq abandoned'
  BY <1>1, TakenBackPromises
<1>5. /\ client'.current = client.current \ ids /\ client'.handlers = client.handlers
      /\ client'.active = rest.active /\ client'.listening = rest.listening
      /\ client'.result = rest.result
  BY <1>4 DEF Client
<1>6. \A i : /\ Has(client'.promises, i) => Has(client.promises, i)
             /\ Once(client.promises, i) => Once(client'.promises, i)
             /\ Has(client.promises, i) /\ i \notin ids \cap client.current =>
                   Has(client'.promises, i)
             /\ Once(client.promises, i) /\ i \in ids \cap client.current
                /\ i \notin abandoned' => ~Has(client'.promises, i)
  BY <1>1, TakenBackPromises
<1>7. /\ Items(up) \subseteq Items(up')
      /\ \A i : /\ Sent(up', i) <=> Sent(up, i)
                /\ Ended(up, i) => Ended(up', i)
                /\ SentOnce(up, i) => SentOnce(up', i)
                /\ EndedLater(up, i) => EndedLater(up', i)
      /\ \A i \in ids \ client.current : Ended(up', i) /\ EndedLater(up', i)
  BY <1>1, TakenBackUp
<1>8. /\ \A i \in ids \ client.current :
            \A b \in BOOLEAN : Leads(up, i, b, TRUE) => Leads(up', i, b, FALSE)
      /\ \A i : i \notin ids \ client.current =>
            \A a, b \in BOOLEAN : Leads(up, i, b, a) => Leads(up', i, b, a)
  BY <1>1, TakenBackUp
<1>9. Lists'
  <2>1. \A i \in client'.current : Has(client'.promises, i)
    BY <1>1, <1>5, <1>6 DEF Lists
  <2>2. \A i \in Id \ abandoned' : server'.disposed => ~Held(i)'
    BY <1>1, <1>3, <1>4 DEF Lists, Held
  <2> QED  BY <2>1, <2>2, <1>1, <1>5 DEF Lists
<1>10. ASSUME NEW e \in Event \ abandoned'
       PROVE  EventInv(e)'
  <2>1. EventInv(e) /\ e \notin abandoned
    BY <1>4, <1>10 DEF IInv
  <2>2. /\ e \in client'.listening <=> e \in client.listening /\ e \notin ids
        /\ e \in client'.active <=> e \in client.active /\ e \notin ids
        /\ e \in client'.current <=> e \in client.current /\ e \notin ids
        /\ e \in ids => e \in client.listening
    BY <2>1, <1>5, <1>10
  <2>3. Held(e)' = Held(e)
    BY <1>3 DEF Held
  <2>4. Once(client'.promises, e) /\ (Has(client'.promises, e) => e \in client'.current)
    BY <2>1, <2>2, <1>6, <1>10 DEF EventInv
  <2>5. (server.disposed \/ Leads(up, e, Held(e), e \in client.active))'
    <3>1. CASE e \in ids \ client.current
      <4>1. e \in client.active /\ e \notin client'.active
        BY <2>1, <2>2, <3>1 DEF EventInv
      <4>2. (e \in client.active) = TRUE /\ (e \in client'.active) = FALSE
        BY <4>1
      <4>3. server.disposed \/ Leads(up', e, Held(e), FALSE)
        BY <2>1, <3>1, <4>2, <1>8, HeldBoolean DEF EventInv
      <4> QED  BY <4>2, <4>3, <2>3
    <3>2. CASE e \notin ids \ client.current
      <4>1. (e \in client'.active) = (e \in client.active)
        BY <2>1, <2>2, <3>2 DEF EventInv
      <4>2. server.disposed \/ Leads(up', e, Held(e), e \in client.active)
        BY <2>1, <3>2, <1>8, HeldBoolean DEF EventInv
      <4> QED  BY <4>1, <4>2, <2>3
    <3> QED  BY <3>1, <3>2
  <2> QED  BY <2>1, <2>2, <2>4, <2>5, <1>3 DEF EventInv
<1>11. ASSUME NEW c \in Call \ abandoned'
       PROVE  CallInv(c)'
  <2>1. CallInv(c) /\ c \notin abandoned
    BY <1>4, <1>11 DEF IInv
  <2>2. client'.result[c] = IF c \in ids /\ client.result[c] = "pending" THEN "canceled"
                            ELSE client.result[c]
    BY <1>2, <1>5, <1>11 DEF Settle
  <2>3. Has(client'.promises, c) => c \in client'.current /\ c \notin ids /\ Has(client.promises, c)
    BY <2>1, <1>5, <1>6, <1>11 DEF CallInv
  <2>4. Answered(c)' <=> Answered(c)
    BY <2>2 DEF Answered
  <2>5. client'.result[c] # "pending" => EndedLater(up', c) /\ (Held(c)' => Ended(up', c))
    <3>1. CASE c \in ids \ client.current
      BY <3>1, <1>7
    <3>2. CASE c \in ids \cap client.current
      <4>1. Has(client.promises, c)
        BY <3>2, <1>1 DEF Lists
      <4>2. ~Sent(up', c) /\ ~Held(c)'
        BY <2>1, <4>1, <1>3, <1>7 DEF CallInv, Held
      <4>3. EndedLater(up', c)
        BY <4>2 DEF Sent, EndedLater
      <4> QED  BY <4>2, <4>3
    <3>3. CASE c \notin ids
      BY <2>1, <2>2, <3>3, <1>3, <1>7 DEF CallInv, Held
    <3> QED  BY <3>1, <3>2, <3>3
  <2>6. client'.result[c] = "none" => client.result[c] = "none"
    BY <2>2
  <2>7. Has(client'.promises, c) => client'.result[c] = "pending"
    BY <2>1, <2>2, <2>3 DEF CallInv
  <2> QED  BY <2>1, <2>3, <2>4, <2>5, <2>6, <2>7, <1>3, <1>6, <1>7 DEF CallInv
<1>12. AnswerIsDue'
  <2>1. \A d : RequestOf(d)' = RequestOf(d)
    BY DEF RequestOf
  <2> QED  BY <2>1, <1>1, <1>5, <1>7 DEF AnswerIsDue
<1>13. Fired'
  <2>1. down' = down /\ heard' = heard /\ fired' = fired /\ abandoned \subseteq abandoned'
    BY <1>4
  <2>2. HeardInOrderOnce'
    BY <2>1, <1>1 DEF Fired, HeardInOrderOnce
  <2> QED  BY <2>1, <2>2, <1>1 DEF Fired
<1> QED  BY <1>9, <1>10, <1>11, <1>12, <1>13

LEMMA CancelKeeps ==
    ASSUME IInv, NEW c \in Call, Cancel(c)
    PROVE  IInv'
<1> DEFINE rest == [client EXCEPT !.cancelled = @ \cup {c}, !.active = @ \ {c},
                                  !.result = Settle(@, {c})]
<1>1. TypeOK /\ Lists /\ client \in Client
  BY DEF IInv, TypeOK
<1>2. TypeOK'
  BY <1>1, CancelType
<1>3. /\ rest.current = client.current /\ rest.handlers = client.handlers
      /\ rest.active = client.active \ {c} /\ rest.listening = client.listening
      /\ rest.result = Settle(client.result, {c})
  BY <1>1, ClientFields
<1>4. rest \in Client
  <2>1. Settle(client.result, {c}) \in [Call -> {"none", "pending"} \cup Outcome]
    BY <1>1, ClientTypes, SettleType
  <2>2. rest = [client EXCEPT !.cancelled = @ \cup {c}, !.active = @ \ {c},
                              !.result = Settle(client.result, {c})]
    BY <1>1 DEF Client
  <2> QED  BY <1>1, <2>1, <2>2 DEF Client
<1>5. TakeBack({c}, rest) /\ UNCHANGED <<server, down, fired, heard>>
  BY DEF Cancel
<1> HIDE DEF rest
<1>6. {c} \in SUBSET Id /\ IsFiniteSet({c}) /\ IsFiniteSet(rest.active)
  <2>1. IsFiniteSet(client.active)
    BY <1>1 DEF Lists
  <2>2. IsFiniteSet(rest.active)
    BY ZenonT(30), <1>3, <2>1, FS_Difference
  <2> QED  BY <2>2, FS_Singleton DEF Id
<1>7. \A e \in Event : e \notin {c}
  BY IdAssumption
<1>8. \A e \in Event \ abandoned :
         /\ e \in rest.listening <=> e \in client.listening /\ e \notin {c}
         /\ e \in {c} => e \in client.listening
         /\ e \in rest.active <=> e \in client.active /\ e \notin {c}
  BY <1>3, <1>7
<1> QED  BY <1>2, <1>3, <1>4, <1>5, <1>6, <1>8, TakeBackKeeps DEF IInv

LEMMA UnlistenKeeps ==
    ASSUME IInv, NEW d \in Event, Unlisten(d)
    PROVE  IInv'
<1> DEFINE rest == [client EXCEPT !.listening = @ \ {d}, !.active = @ \ ({d} \ client.current)]
<1>1. TypeOK /\ Lists /\ client \in Client
  BY DEF IInv, TypeOK
<1>2. TypeOK'
  BY <1>1, UnlistenType
<1>3. /\ rest.current = client.current /\ rest.handlers = client.handlers
      /\ rest.active = client.active \ ({d} \ client.current)
      /\ rest.listening = client.listening \ {d} /\ rest.result = client.result
  BY <1>1, ClientFields
<1>4. rest \in Client
  BY <1>1 DEF Client
<1>5. /\ TakeBack({d}, rest) /\ UNCHANGED <<server, down, fired, heard>>
      /\ d \in client.listening
  BY DEF Unlisten
<1> HIDE DEF rest
<1>6. {d} \in SUBSET Id /\ IsFiniteSet({d}) /\ IsFiniteSet(rest.active)
  <2>1. IsFiniteSet(client.active)
    BY <1>1 DEF Lists
  <2>2. IsFiniteSet(rest.active)
    <3>1. client.active \ ({d} \ client.current) \in SUBSET client.active
      OBVIOUS
    <3> QED  BY <1>3, <2>1, <3>1, FS_Subset
  <2> QED  BY <2>2, FS_Singleton DEF Id
<1>7. \A e \in Event \ abandoned :
         /\ e \in rest.listening <=> e \in client.listening /\ e \notin {d}
         /\ e \in {d} => e \in client.listening
         /\ e \in rest.active <=> e \in client.active /\ e \notin {d}
  BY <1>3, <1>5 DEF IInv, EventInv
<1>8. rest.result = Settle(client.result, {d})
  <2>1. client.result \in [Call -> {"none", "pending"} \cup Outcome] /\ d \notin Call
    BY <1>1, ClientTypes, IdAssumption
  <2> QED  BY <2>1, <1>3 DEF Settle
<1> QED  BY <1>2, <1>3, <1>4, <1>5, <1>6, <1>7, <1>8, TakeBackKeeps DEF IInv

LEMMA DisposeClientKeeps ==
    ASSUME IInv, DisposeClient
    PROVE  IInv'
<1> DEFINE rest == [client EXCEPT !.disposed = TRUE, !.active = {},
                                  !.listening = @ \ client.active,
                                  !.result = Settle(@, client.active)]
<1>1. TypeOK /\ Lists /\ client \in Client
  BY DEF IInv, TypeOK
<1>2. TypeOK'
  BY <1>1, DisposeClientType
<1>3. /\ rest.current = client.current /\ rest.handlers = client.handlers
      /\ rest.active = {} /\ rest.listening = client.listening \ client.active
      /\ rest.result = Settle(client.result, client.active)
  BY <1>1, ClientFields
<1>4. rest \in Client
  <2>1. Settle(client.result, client.active) \in [Call -> {"none", "pending"} \cup Outcome]
    BY <1>1, ClientTypes, SettleType
  <2>2. rest = [client EXCEPT !.disposed = TRUE, !.active = {}, !.listening = @ \ client.active,
                              !.result = Settle(client.result, client.active)]
    BY <1>1 DEF Client
  <2> QED  BY <1>1, <2>1, <2>2 DEF Client
<1>5. TakeBack(client.active, rest) /\ UNCHANGED <<server, down, fired, heard>>
  BY DEF DisposeClient
<1> HIDE DEF rest
<1>6. client.active \in SUBSET Id /\ IsFiniteSet(client.active) /\ IsFiniteSet(rest.active)
  BY <1>1, <1>3, ClientTypes, FS_EmptySet DEF Lists
<1>7. \A e \in Event \ abandoned :
         /\ e \in rest.listening <=> e \in client.listening /\ e \notin client.active
         /\ e \in client.active => e \in client.listening
         /\ e \in rest.active <=> e \in client.active /\ e \notin client.active
  BY <1>3 DEF IInv, EventInv
<1> QED  BY <1>2, <1>3, <1>4, <1>5, <1>6, <1>7, TakeBackKeeps DEF IInv

LEMMA DownPopped ==
    ASSUME down \in Seq(Response), down # <<>>, down' = Tail(down)
    PROVE  /\ Items(down) = {Head(down)} \cup Items(down')
           /\ Head(down) \in Response /\ 1 \in DOMAIN down /\ Head(down) = down[1]
           /\ \A k \in DOMAIN down' : /\ k + 1 \in DOMAIN down /\ down'[k] = down[k + 1]
                                      /\ 1 \in 1 .. k
           /\ \A k \in DOMAIN down' : \A j \in 1 .. k - 1 : j + 1 \in 1 .. k /\ j \in DOMAIN down'
<1>1. /\ Head(down) \in Response
      /\ Len(down) \in Nat \ {0} /\ DOMAIN down = 1 .. Len(down)
      /\ DOMAIN down' = 1 .. Len(down) - 1
      /\ Head(down) = down[1]
      /\ \A k \in DOMAIN down' : k + 1 \in DOMAIN down /\ down'[k] = down[k + 1]
      /\ \A k \in DOMAIN down : k # 1 => k - 1 \in DOMAIN down' /\ down'[k - 1] = down[k]
  BY TailParts
<1>2. 1 \in DOMAIN down
  BY <1>1
<1>3. \A k \in DOMAIN down' : 1 \in 1 .. k
  BY <1>1
<1>4. \A k \in DOMAIN down' : \A j \in 1 .. k - 1 : j + 1 \in 1 .. k /\ j \in DOMAIN down'
  BY <1>1
<1>5. Items(down) = {Head(down)} \cup Items(down')
  <2> DEFINE t == down'
  <2>1. /\ \A k \in DOMAIN t : k + 1 \in DOMAIN down /\ t[k] = down[k + 1]
        /\ \A k \in DOMAIN down : k # 1 => k - 1 \in DOMAIN t /\ t[k - 1] = down[k]
    BY <1>1
  <2> HIDE DEF t
  <2>2. Items(t) \subseteq Items(down) /\ Head(down) \in Items(down)
    BY <2>1, <1>1, <1>2 DEF Items
  <2>3. \A k \in DOMAIN down : down[k] = Head(down) \/ down[k] \in Items(t)
    BY <2>1, <1>1 DEF Items
  <2>4. Items(down) \subseteq {Head(down)} \cup Items(t)
    BY <2>3 DEF Items
  <2> QED  BY <2>2, <2>4 DEF t
<1> QED  BY <1>1, <1>2, <1>3, <1>4, <1>5

LEMMA KindsOfResponse ==
    ASSUME NEW m \in Response
    PROVE  /\ m.type = "EventFire" <=> m \in Firing
           /\ m \in Answer => m.id \in Call /\ m # Initialize /\ m \notin Firing
           /\ m \in Firing => m.id \in Event /\ m.n \in 1 .. MaxFires /\ m \notin Answer
  BY DEF Response, Initialize, Answer, AnswerType, Firing

(* A response that came leaves the firings after it in order.              *)
LEMMA ClientReceiveFired ==
    ASSUME IInv, ClientReceive
    PROVE  Fired'
<1>1. TypeOK /\ Fired
  BY DEF IInv
<1>2. /\ down \in Seq(Response) /\ down # <<>> /\ down' = Tail(down)
      /\ fired' = fired /\ abandoned' = abandoned
  BY <1>1 DEF TypeOK, ClientReceive
<1>3. heard \in [Event -> 0 .. MaxFires] /\ fired \in [Event -> 0 .. MaxFires]
  BY <1>1 DEF TypeOK
<1> DEFINE m == Head(down)
<1>4. /\ m \in Response /\ 1 \in DOMAIN down /\ m = down[1]
      /\ \A k \in DOMAIN down' : k + 1 \in DOMAIN down /\ down'[k] = down[k + 1] /\ 1 \in 1 .. k
      /\ \A k \in DOMAIN down' : \A j \in 1 .. k - 1 : j + 1 \in 1 .. k /\ j \in DOMAIN down'
  BY <1>2, DownPopped
<1>5. \/ heard' = heard
      \/ m \in Firing /\ heard' = [heard EXCEPT ![m.id] = m.n]
  BY DEF ClientReceive, OnResponse
<1> HIDE DEF m
<1>6. m \in Firing => m.type = "EventFire" /\ m.id \in Event /\ m.n \in 1 .. MaxFires
  BY <1>4, KindsOfResponse
<1>7. \A k \in DOMAIN down' : k \in Int
  <2>1. Len(down) \in Nat /\ DOMAIN down' = 1 .. Len(down) - 1
    BY <1>2, TailParts
  <2> QED  BY <2>1
<1>8. HeardInOrderOnce'
  <2> SUFFICES ASSUME NEW e \in Event \ abandoned, NEW k \in DOMAIN down',
                      down'[k].type = "EventFire", down'[k].id = e
               PROVE  /\ down'[k].n > heard'[e]
                      /\ \A j \in 1 .. k - 1 :
                            down'[j].type = "EventFire" /\ down'[j].id = e => down'[j].n < down'[k].n
    BY <1>2 DEF HeardInOrderOnce
  <2>1. k + 1 \in DOMAIN down /\ down[k + 1] = down'[k] /\ (k + 1) - 1 = k
    BY <1>4, <1>7
  <2>2. /\ down[k + 1].n > heard[e]
        /\ \A j \in 1 .. k :
              down[j].type = "EventFire" /\ down[j].id = e => down[j].n < down[k + 1].n
    BY <2>1, <1>1 DEF Fired, HeardInOrderOnce
  <2>3. \A j \in 1 .. k - 1 :
           down'[j].type = "EventFire" /\ down'[j].id = e => down'[j].n < down'[k].n
    BY <2>1, <2>2, <1>4
  <2>4. down'[k].n > heard'[e]
    <3>1. CASE heard' = heard
      BY <2>1, <2>2, <3>1
    <3>2. CASE m \in Firing /\ heard' = [heard EXCEPT ![m.id] = m.n]
      <4>1. CASE m.id = e
        <5>1. heard'[e] = m.n /\ m.n < down[k + 1].n
          BY <3>2, <4>1, <2>2, <1>3, <1>4, <1>6
        <5>2. down[k + 1] \in Response /\ down[k + 1] \in Firing
          <6>1. down[k + 1] \in Response
            BY <1>2, <2>1, LenProperties, ElementOfSeq
          <6> QED  BY <6>1, <2>1, KindsOfResponse
        <5>3. down[k + 1].n \in 1 .. MaxFires
          BY <5>2, KindsOfResponse
        <5> QED  BY <5>1, <5>3, <3>2, <1>6, <2>1
      <4>2. CASE m.id # e
        BY <3>2, <4>2, <2>1, <2>2, <1>3
      <4> QED  BY <4>1, <4>2
    <3> QED  BY <3>1, <3>2, <1>5
  <2> QED  BY <2>3, <2>4
<1>9. \A e \in Event : heard'[e] <= fired'[e]
  <2>1. m \in Firing => m.n <= fired[m.id]
    BY <1>1, <1>4 DEF Fired
  <2> QED  BY <2>1, <1>1, <1>2, <1>3, <1>5, <1>6 DEF Fired
<1>10. \A k \in DOMAIN down' : down'[k] \in Firing => down'[k].n <= fired'[down'[k].id]
  BY <1>1, <1>2, <1>4 DEF Fired
<1> QED  BY <1>8, <1>9, <1>10 DEF Fired

LEMMA ClientReceiveKeeps ==
    ASSUME IInv, ClientReceive
    PROVE  IInv'
<1>1. TypeOK /\ Lists /\ AnswerIsDue
  BY DEF IInv
<1>2. /\ down \in Seq(Response) /\ down # <<>> /\ down' = Tail(down)
      /\ UNCHANGED <<server, up, fired, abandoned>> /\ Pending' = Pending
  BY <1>1 DEF TypeOK, ClientReceive, Pending
<1>3. TypeOK' /\ Fired'
  BY <1>1, ClientReceiveType, ClientReceiveFired
<1>4. client \in Client /\ client.result \in [Call -> {"none", "pending"} \cup Outcome]
  BY <1>1, ClientTypes DEF TypeOK
<1> DEFINE m == Head(down)
<1>5. /\ m \in Response /\ 1 \in DOMAIN down /\ m = down[1]
      /\ \A k \in DOMAIN down' : k + 1 \in DOMAIN down /\ down'[k] = down[k + 1]
      /\ Items(down) = {m} \cup Items(down')
  BY <1>2, DownPopped
<1>6. \/ client' = client /\ (m \in Answer => m.id \notin client.handlers)
      \/ m = Initialize /\ client' = [client EXCEPT !.idle = TRUE]
      \/ /\ m \in Answer
         /\ client' = [client EXCEPT !.handlers = @ \ {m.id}, !.active = @ \ {m.id},
                           !.result[m.id] =
                               IF @ # "pending" THEN @
                               ELSE IF m.type = "PromiseSuccess" THEN "success" ELSE "error"]
  <2>1. m \notin Answer \/ m \notin Firing
    BY <1>5, KindsOfResponse
  <2>2. m = Initialize => m \notin Answer
    BY <1>5, KindsOfResponse
  <2>3. OnResponse(m)
    BY DEF ClientReceive
  <2> HIDE DEF m
  <2> QED  BY <2>1, <2>2, <2>3 DEF OnResponse
<1> HIDE DEF m
<1>7. m \in Answer => m.id \in Call /\ m # Initialize
  BY <1>5, KindsOfResponse
<1>8. /\ client'.promises = client.promises /\ client'.current = client.current
      /\ client'.listening = client.listening
      /\ client'.active \subseteq client.active
      /\ \A i \in Event : i \in client'.active <=> i \in client.active
  <2>1. \A i \in Event : m \in Answer => i # m.id
    BY <1>7, IdAssumption
  <2>2. /\ client'.promises = client.promises /\ client'.current = client.current
        /\ client'.listening = client.listening
        /\ \/ client'.active = client.active
           \/ m \in Answer /\ client'.active = client.active \ {m.id}
    <3>1. \/ client' = client
          \/ client' = [client EXCEPT !.idle = TRUE]
          \/ m \in Answer /\ \E r :
                 client' = [client EXCEPT !.handlers = client.handlers \ {m.id},
                                          !.active = client.active \ {m.id}, !.result = r]
      <4>1. CASE client' = [client EXCEPT !.handlers = @ \ {m.id}, !.active = @ \ {m.id},
                           !.result[m.id] =
                               IF @ # "pending" THEN @
                               ELSE IF m.type = "PromiseSuccess" THEN "success" ELSE "error"]
        <5>1. client' = [client EXCEPT !.handlers = client.handlers \ {m.id},
                                       !.active = client.active \ {m.id}, !.result = client'.result]
          BY <4>1, <1>4, ClientFields
        <5> QED  BY <5>1, <1>6
      <4> QED  BY <4>1, <1>6
    <3>2. CASE client' = client
      BY <3>2
    <3>3. CASE client' = [client EXCEPT !.idle = TRUE]
      BY <3>3, <1>4, ClientFields
    <3>4. ASSUME m \in Answer, NEW r,
                 client' = [client EXCEPT !.handlers = client.handlers \ {m.id},
                                          !.active = client.active \ {m.id}, !.result = r]
          PROVE  /\ client'.promises = client.promises /\ client'.current = client.current
                 /\ client'.listening = client.listening
                 /\ client'.active = client.active \ {m.id}
      BY <3>4, <1>4, ClientFields
    <3> QED  BY <3>1, <3>2, <3>3, <3>4
  <2> QED  BY <2>1, <2>2
<1>9. \A c \in Call : \/ client'.result[c] = client.result[c]
                      \/ m \in Answer /\ m.id = c /\ client'.result[c] \in {"success", "error"}
  <2>1. CASE client'.result = client.result
    BY <2>1
  <2>2. CASE /\ m \in Answer
             /\ client'.result = [client.result EXCEPT ![m.id] =
                               IF @ # "pending" THEN @
                               ELSE IF m.type = "PromiseSuccess" THEN "success" ELSE "error"]
    BY <2>2, <1>4, <1>7
  <2>3. \/ client'.result = client.result
        \/ /\ m \in Answer
           /\ client'.result = [client.result EXCEPT ![m.id] =
                               IF @ # "pending" THEN @
                               ELSE IF m.type = "PromiseSuccess" THEN "success" ELSE "error"]
    BY <1>4, <1>6, ClientFields
  <2> QED  BY <2>1, <2>2, <2>3
<1>10. client'.handlers \subseteq client.handlers /\ (m \in Answer => m.id \notin client'.handlers)
  <2>1. \/ client'.handlers = client.handlers /\ (m \in Answer => m.id \notin client.handlers)
        \/ m = Initialize /\ client'.handlers = client.handlers
        \/ client'.handlers = client.handlers \ {m.id}
    BY <1>4, <1>6, ClientFields
  <2> QED  BY <2>1, <1>7
<1>11. Lists'
  <2>1. IsFiniteSet(client'.active)
    BY <1>1, <1>8, FS_Subset DEF Lists
  <2> QED  BY <2>1, <1>1, <1>2, <1>8 DEF Lists, Held
<1>12. ASSUME NEW e \in Event \ abandoned'
       PROVE  EventInv(e)'
  <2>1. EventInv(e)
    BY <1>2, <1>12 DEF IInv
  <2>2. (server.disposed \/ Leads(up, e, Held(e), e \in client.active))'
    <3>1. (e \in client'.active) = (e \in client.active) /\ Held(e)' = Held(e)
      BY <1>2, <1>8 DEF Held
    <3> QED  BY <3>1, <2>1, <1>2 DEF EventInv
  <2> QED  BY <2>1, <2>2, <1>2, <1>8 DEF EventInv
<1>13. ASSUME NEW c \in Call \ abandoned'
       PROVE  CallInv(c)'
  <2>1. CallInv(c)
    BY <1>2, <1>13 DEF IInv
  <2>2. CASE m \in Answer /\ m.id = c
    <3>1. Answered(c)
      BY <2>2, <1>5 DEF Answered
    <3>2. /\ ~Has(client.promises, c) /\ ~Sent(up, c) /\ c \notin Pending
          /\ c \notin server.running /\ c \notin server.active
      BY <2>1, <3>1 DEF CallInv
    <3>3. client'.result[c] # "none"
      BY <2>1, <3>1, <1>9, <1>13 DEF CallInv
    <3>4. EndedLater(up, c) /\ ~Held(c)
      BY <3>2 DEF EndedLater, Sent, Held
    <3> QED  BY <2>1, <3>2, <3>3, <3>4, <1>2, <1>8 DEF CallInv, Held
  <2>3. CASE ~(m \in Answer /\ m.id = c)
    <3>1. client'.result[c] = client.result[c]
      BY <2>3, <1>9, <1>13
    <3>2. Answered(c)' => Answered(c)
      BY <3>1, <1>5 DEF Answered
    <3> QED  BY <2>1, <3>1, <3>2, <1>2, <1>8 DEF CallInv, Held
  <2> QED  BY <2>2, <2>3
<1>14. AnswerIsDue'
  <2>1. \A d : RequestOf(d)' = RequestOf(d)
    BY DEF RequestOf
  <2>2. ASSUME NEW c \in client'.handlers, NEW a \in Items(down), a \in Answer, a.id = c
        PROVE  a \in Items(down')
    BY <2>2, <1>5, <1>10
  <2> QED  BY <2>1, <2>2, <1>1, <1>2, <1>10 DEF AnswerIsDue
<1> QED  BY <1>3, <1>11, <1>12, <1>13, <1>14 DEF IInv

-----------------------------------------------------------------------------
(* The steps of the server keep the invariant. *)

LEMMA DownAnswered ==
    ASSUME TypeOK, NEW m \in Answer, down' = Append(down, m)
    PROVE  /\ Items(down') = Items(down) \cup {m}
           /\ DOMAIN down' = DOMAIN down \cup {Len(down) + 1} /\ Len(down) + 1 \notin DOMAIN down
           /\ \A k \in DOMAIN down : down'[k] = down[k]
           /\ down'[Len(down) + 1] = m
           /\ \A k \in DOMAIN down : \A j \in 1 .. k - 1 : j \in DOMAIN down
<1>1. down \in Seq(Response) /\ m \in Response
  BY DEF TypeOK, Response
<1>2. /\ down' \in Seq(Response) /\ Len(down') = Len(down) + 1
      /\ \A k \in 1 .. Len(down) : down'[k] = down[k]
      /\ down'[Len(down) + 1] = m
  BY <1>1, AppendProperties
<1>3. Len(down) \in Nat /\ DOMAIN down = 1 .. Len(down) /\ DOMAIN down' = 1 .. Len(down')
  BY <1>1, <1>2, LenProperties
<1>4. DOMAIN down' = DOMAIN down \cup {Len(down) + 1} /\ Len(down) + 1 \notin DOMAIN down
  BY <1>2, <1>3
<1>5. \A k \in DOMAIN down : \A j \in 1 .. k - 1 : j \in DOMAIN down
  BY <1>3
<1>6. Items(down') = Items(down) \cup {m}
  BY <1>2, <1>3, <1>4 DEF Items
<1> QED  BY <1>2, <1>3, <1>4, <1>5, <1>6

(* An answer that is sent is no firing. *)
LEMMA FiredAnswered ==
    ASSUME TypeOK, Fired, NEW m \in Answer, down' = Append(down, m),
           heard' = heard, fired' = fired, abandoned \subseteq abandoned'
    PROVE  Fired'
<1>1. /\ DOMAIN down' = DOMAIN down \cup {Len(down) + 1}
      /\ \A k \in DOMAIN down : down'[k] = down[k]
      /\ down'[Len(down) + 1] = m
      /\ \A k \in DOMAIN down : \A j \in 1 .. k - 1 : j \in DOMAIN down
  BY DownAnswered
<1>2. m.type # "EventFire" /\ m \notin Firing
  BY DEF Answer, AnswerType, Firing
<1>3. HeardInOrderOnce'
  <2> SUFFICES ASSUME NEW e \in Event \ abandoned', NEW k \in DOMAIN down',
                      down'[k].type = "EventFire", down'[k].id = e
               PROVE  /\ down'[k].n > heard[e]
                      /\ \A j \in 1 .. k - 1 :
                            down'[j].type = "EventFire" /\ down'[j].id = e => down'[j].n < down'[k].n
    BY DEF HeardInOrderOnce
  <2>1. k \in DOMAIN down /\ e \in Event \ abandoned
    BY <1>1, <1>2
  <2>2. /\ down[k].n > heard[e]
        /\ \A j \in 1 .. k - 1 :
              down[j].type = "EventFire" /\ down[j].id = e => down[j].n < down[k].n
    BY <2>1, <1>1 DEF Fired, HeardInOrderOnce
  <2> QED  BY <2>1, <2>2, <1>1
<1>4. \A k \in DOMAIN down' : down'[k] \in Firing => down'[k].n <= fired'[down'[k].id]
  BY <1>1, <1>2 DEF Fired
<1>5. \A e \in Event : heard'[e] <= fired'[e]
  BY DEF Fired
<1> QED  BY <1>3, <1>4, <1>5 DEF Fired

LEMMA UpPopped ==
    ASSUME TypeOK, up # <<>>, up' = Tail(up)
    PROVE  LET m == Head(up)
           IN  /\ m \in Request
               /\ Items(up) \subseteq {m} \cup Items(up')
               /\ \A i : /\ Sent(up, i) <=> (m.id = i /\ Begins(m)) \/ Sent(up', i)
                         /\ Ended(up, i) <=> (m.id = i /\ ~Begins(m)) \/ Ended(up', i)
                         /\ SentOnce(up, i) =>
                               SentOnce(up', i) /\ (m.id = i /\ Begins(m) => ~Sent(up', i))
                         /\ EndedLater(up, i) =>
                               EndedLater(up', i) /\ (m.id = i /\ Begins(m) => Ended(up', i))
               /\ \A i : \A a, b \in BOOLEAN : Leads(up, i, b, a) =>
                      /\ m.id # i => Leads(up', i, b, a)
                      /\ m.id = i => (Begins(m) <=> ~b) /\ Leads(up', i, ~b, a)
<1> DEFINE m == Head(up)
<1>1. up \in Seq(Request)
  BY DEF TypeOK
<1>2. /\ m \in Request /\ DOMAIN up = 1 .. Len(up) /\ m = up[1]
      /\ \A k \in DOMAIN up : k # 1 => k - 1 \in DOMAIN up' /\ up'[k - 1] = up[k]
  BY <1>1, TailParts
<1>3. Items(up) \subseteq {m} \cup Items(up')
  <2>1. \A k \in DOMAIN up : up[k] = m \/ up[k] \in Items(up')
    BY <1>2 DEF Items
  <2> HIDE DEF m
  <2> QED  BY <2>1 DEF Items
<1> HIDE DEF m
<1>4. \A i : /\ Sent(up, i) <=> (m.id = i /\ Begins(m)) \/ Sent(up', i)
             /\ Ended(up, i) <=> (m.id = i /\ ~Begins(m)) \/ Ended(up', i)
             /\ SentOnce(up, i) => SentOnce(up', i) /\ (m.id = i /\ Begins(m) => ~Sent(up', i))
             /\ EndedLater(up, i) =>
                   EndedLater(up', i) /\ (m.id = i /\ Begins(m) => Ended(up', i))
  BY <1>1, SentTail DEF m
<1>5. \A i : \A a, b \in BOOLEAN : Leads(up, i, b, a) =>
         /\ m.id # i => Leads(up', i, b, a)
         /\ m.id = i => (Begins(m) <=> ~b) /\ Leads(up', i, ~b, a)
  BY <1>1, LeadsTail DEF m
<1> QED  BY <1>2, <1>3, <1>4, <1>5 DEF m

(* The request of m begins what the server has nothing of. *)
LEMMA ServerBeginsKeeps ==
    ASSUME IInv, ServerReceive, Begins(Head(up))
    PROVE  IInv'
<1> DEFINE m == Head(up)
<1>1. TypeOK /\ Lists /\ AnswerIsDue /\ Fired
  BY DEF IInv
<1>2. /\ ~server.disposed /\ up # <<>> /\ up' = Tail(up)
      /\ UNCHANGED <<client, down, fired, heard>>
  BY DEF ServerReceive
<1>3. TypeOK'
  BY <1>1, ServerReceiveType
<1>4. /\ m \in Request
      /\ Items(up) \subseteq {m} \cup Items(up')
      /\ \A i : /\ Sent(up, i) <=> m.id = i \/ Sent(up', i)
                /\ Ended(up, i) <=> Ended(up', i)
                /\ SentOnce(up, i) => SentOnce(up', i) /\ (m.id = i => ~Sent(up', i))
                /\ EndedLater(up, i) => EndedLater(up', i) /\ (m.id = i => Ended(up', i))
  BY <1>1, <1>2, UpPopped
<1>5. \A i : \A a, b \in BOOLEAN : Leads(up, i, b, a) =>
         /\ m.id # i => Leads(up', i, b, a)
         /\ m.id = i => ~b /\ Leads(up', i, TRUE, a)
  <2> SUFFICES ASSUME NEW i, NEW a \in BOOLEAN, NEW b \in BOOLEAN, Leads(up, i, b, a)
               PROVE  /\ m.id # i => Leads(up', i, b, a)
                      /\ m.id = i => ~b /\ Leads(up', i, TRUE, a)
    OBVIOUS
  <2>1. /\ m.id # i => Leads(up', i, b, a)
        /\ m.id = i => (Begins(m) <=> ~b) /\ Leads(up', i, ~b, a)
    BY <1>1, <1>2, UpPopped
  <2>2. m.id = i => ~b /\ (~b) = TRUE
    BY <2>1
  <2> QED  BY <2>1, <2>2
<1>6. abandoned' = abandoned
  BY DEF ServerReceive, Begins
<1> DEFINE x == m.id
<1>7. x \in Id
  BY <1>4 DEF Request
<1>8. server' = Start(server, x) \/ server' = Collect(server, x)
  BY DEF ServerReceive, Begins
<1> HIDE DEF m
<1>9. /\ server'.disposed = server.disposed
      /\ server'.timers = server.timers \cup (IF server' = Start(server, x) THEN {} ELSE {x} \cap Call)
      /\ server'.active = server.active \cup (IF server' = Start(server, x) THEN {x} ELSE {})
      /\ server'.running = server.running \cup (IF server' = Start(server, x) THEN {x} \cap Call ELSE {})
      /\ Pending' = Pending \cup (IF server' = Start(server, x) THEN {} ELSE {x})
      /\ \A e \in Event : server'.subscriptions[e] =
            server.subscriptions[e] + (IF server' = Start(server, x) /\ e = x THEN 1 ELSE 0)
  <2>1. CASE server' = Start(server, x)
    <3>1. Pending' = Pending
      BY <2>1, <1>1, <1>7, Started DEF Pending
    <3> HIDE DEF x
    <3> QED  BY <2>1, <3>1, <1>1, <1>7, Started
  <2>2. CASE server' = Collect(server, x) /\ server' # Start(server, x)
    <3>1. \A e \in Event : server.subscriptions[e] + 0 = server.subscriptions[e]
      BY <1>1, ServerFields DEF TypeOK
    <3> HIDE DEF x
    <3> QED  BY <2>2, <3>1, <1>1, <1>7, Collected
  <2> QED  BY <2>1, <2>2, <1>8
<1> HIDE DEF x
<1>10. \A i : i # x => (i \in Pending' <=> i \in Pending) /\ (Held(i)' <=> Held(i))
                       /\ (i \in server'.running <=> i \in server.running)
                       /\ (i \in server'.active <=> i \in server.active)
  BY <1>9 DEF Held
<1>11. x \in Pending' \/ x \in server'.active
  BY <1>8, <1>9
<1>12. Lists'
  <2>1. \A ch \in Channel : \A i \in Items(server'.pending[ch]) : ChannelOf[i] = ch
    <3>1. CASE server' = Start(server, x)
      BY <3>1, <1>1, <1>7, Started DEF Lists
    <3>2. CASE server' = Collect(server, x)
      <4>1. \A ch \in Channel : Items(server'.pending[ch]) =
                 Items(server.pending[ch]) \cup (IF ch = ChannelOf[x] THEN {x} ELSE {})
        BY <3>2, <1>1, <1>7, Collected
      <4> QED  BY <4>1, <1>1 DEF Lists
    <3> QED  BY <3>1, <3>2, <1>8
  <2>2. \A e \in Event : e \in server'.active => server'.subscriptions[e] >= 1
    <3>1. \A e \in Event : server.subscriptions[e] \in Nat
      BY <1>1, ServerFields DEF TypeOK
    <3> QED  BY <3>1, <1>1, <1>9 DEF Lists
  <2>3. ~server'.disposed
    BY <1>2, <1>9
  <2> QED  BY <2>1, <2>2, <2>3, <1>1, <1>2 DEF Lists
<1>13. ASSUME NEW e \in Event \ abandoned'
       PROVE  EventInv(e)'
  <2>1. EventInv(e) /\ e \in Id
    BY <1>6, <1>13 DEF IInv, Id
  <2>2. Leads(up, e, Held(e), e \in client.active)
    BY <2>1, <1>2 DEF EventInv
  <2>3. CASE e = x
    <3>1. ~Held(e) /\ Leads(up', e, TRUE, e \in client.active)
      BY <2>2, <2>3, <1>5, HeldBoolean DEF x
    <3>2. (server.disposed \/ Leads(up, e, Held(e), e \in client.active))'
      <4>1. (Held(e)') = TRUE
        BY <2>3, <1>11 DEF Held
      <4> QED  BY <3>1, <4>1, <1>2
    <3>3. e \notin Pending /\ e \notin server.active /\ server.subscriptions[e] = 0
      BY <2>1, <3>1 DEF Held, EventInv
    <3>4. server'.subscriptions[e] = (IF e \in server'.active THEN 1 ELSE 0)
          /\ (e \notin Pending' \/ e \notin server'.active)
      BY <2>3, <3>3, <1>8, <1>9
    <3>5. \A k, l \in DOMAIN server'.pending[ChannelOf[e]] :
             server'.pending[ChannelOf[e]][k] = e /\ server'.pending[ChannelOf[e]][l] = e => k = l
      <4> DEFINE ch == ChannelOf[e]
                 q == server.pending[ch]
      <4>1. ch \in Channel /\ q \in Seq(Id)
        BY <2>1, <1>1, ChannelAssumption, ServerFields DEF TypeOK
      <4>2. \A k \in DOMAIN q : q[k] # e
        BY <3>3, <4>1 DEF Pending, Items
      <4>3. CASE server' = Start(server, x)
        <5>1. server'.pending[ch] = q
          BY <4>3, <1>1, <1>7, Started
        <5> QED  BY <4>2, <5>1
      <4>4. CASE server' = Collect(server, x)
        <5>1. server'.pending[ch] = Append(q, e)
          BY <2>3, <4>1, <4>4, <1>1, <1>7, Collected
        <5> HIDE DEF q
        <5>2. /\ Append(q, e) \in Seq(Id) /\ Len(Append(q, e)) = Len(q) + 1
              /\ \A k \in 1 .. Len(q) : Append(q, e)[k] = q[k]
          BY <2>1, <4>1, AppendProperties
        <5>3. Len(q) \in Nat /\ DOMAIN q = 1 .. Len(q)
              /\ DOMAIN Append(q, e) = 1 .. Len(Append(q, e))
          BY <4>1, <5>2, LenProperties
        <5>4. \A k \in DOMAIN Append(q, e) : Append(q, e)[k] = e => k = Len(q) + 1
          BY <4>2, <5>2, <5>3
        <5> QED  BY <5>1, <5>4
      <4> QED  BY <4>3, <4>4, <1>8
    <3> QED  BY <2>1, <3>2, <3>4, <3>5, <1>2 DEF EventInv
  <2>4. CASE e # x
    <3>1. Leads(up', e, Held(e), e \in client.active)
      BY <2>2, <2>4, <1>5, HeldBoolean DEF x
    <3>2. (server.disposed \/ Leads(up, e, Held(e), e \in client.active))'
      <4>1. (Held(e)') = Held(e)
        BY <2>4, <1>10, HeldBoolean DEF Held
      <4> QED  BY <3>1, <4>1, <1>2
    <3>3. server'.subscriptions[e] = server.subscriptions[e]
      <4>1. server.subscriptions[e] \in Nat
        BY <1>1, <1>13, ServerFields DEF TypeOK
      <4> QED  BY <2>4, <4>1, <1>9
    <3>4. \A k, l \in DOMAIN server'.pending[ChannelOf[e]] :
             server'.pending[ChannelOf[e]][k] = e /\ server'.pending[ChannelOf[e]][l] = e => k = l
      <4> DEFINE ch == ChannelOf[e]
                 q == server.pending[ch]
      <4>1. ch \in Channel /\ q \in Seq(Id)
        BY <2>1, <1>1, ChannelAssumption, ServerFields DEF TypeOK
      <4>2. \A k, l \in DOMAIN q : q[k] = e /\ q[l] = e => k = l
        BY <2>1 DEF EventInv
      <4>3. server'.pending[ch] = q \/ server'.pending[ch] = Append(q, x)
        <5>1. CASE server' = Start(server, x)
          BY <5>1, <1>1, <1>7, Started
        <5>2. CASE server' = Collect(server, x)
          BY <4>1, <5>2, <1>1, <1>7, Collected
        <5> QED  BY <5>1, <5>2, <1>8
      <4> HIDE DEF q
      <4>4. /\ Append(q, x) \in Seq(Id) /\ Len(Append(q, x)) = Len(q) + 1
            /\ \A k \in 1 .. Len(q) : Append(q, x)[k] = q[k]
            /\ Append(q, x)[Len(q) + 1] = x
        BY <4>1, <1>7, AppendProperties
      <4>5. Len(q) \in Nat /\ DOMAIN q = 1 .. Len(q)
            /\ DOMAIN Append(q, x) = 1 .. Len(Append(q, x))
        BY <4>1, <4>4, LenProperties
      <4>6. \A k \in DOMAIN Append(q, x) : Append(q, x)[k] = e => k \in DOMAIN q /\ q[k] = e
        BY <2>4, <4>4, <4>5
      <4> QED  BY <4>2, <4>3, <4>6
    <3> QED  BY <2>1, <2>4, <3>2, <3>3, <3>4, <1>2, <1>10 DEF EventInv
  <2> QED  BY <2>3, <2>4
<1>14. ASSUME NEW c \in Call \ abandoned'
       PROVE  CallInv(c)'
  <2>1. CallInv(c)
    BY <1>6, <1>14 DEF IInv
  <2>2. Answered(c)' <=> Answered(c)
    BY <1>2 DEF Answered
  <2>3. CASE c = x
    <3>1. Sent(up, c) /\ ~Sent(up', c)
      BY <2>1, <2>3, <1>4 DEF CallInv, x
    <3>2. /\ ~Has(client.promises, c) /\ c \notin Pending /\ c \notin server.running
          /\ ~Answered(c) /\ c \notin server.active /\ client.result[c] # "none"
      BY <2>1, <3>1 DEF CallInv
    <3>3. client.result[c] # "pending" => EndedLater(up', c) /\ Ended(up', c)
      BY <2>1, <2>3, <1>4 DEF CallInv, x
    <3>4. /\ c \notin Pending' \/ c \notin server'.running
          /\ c \in server'.active => c \in server'.running
      BY <2>3, <3>2, <1>8, <1>9, <1>14
    <3> QED  BY <2>1, <2>2, <3>1, <3>2, <3>3, <3>4, <1>2, <1>4 DEF CallInv
  <2>4. CASE c # x
    <3>1. Sent(up', c) <=> Sent(up, c)
      BY <2>4, <1>4 DEF x
    <3> QED  BY <2>1, <2>2, <2>4, <3>1, <1>2, <1>4, <1>10 DEF CallInv
  <2> QED  BY <2>3, <2>4
<1>15. AnswerIsDue'
  <2>1. \A d : RequestOf(d)' = RequestOf(d) /\ RequestOf(d).id = d
    BY DEF RequestOf
  <2>2. ASSUME NEW c \in client.handlers
        PROVE  \/ RequestOf(c) \in Items(up') \/ c \in server'.timers \/ c \in server'.running
               \/ \E a \in Items(down) : a \in Answer /\ a.id = c
    <3>1. c \in Call
      BY <1>1, ClientTypes DEF TypeOK
    <3>2. CASE RequestOf(c) \in Items(up)
      <4>1. CASE RequestOf(c) = m
        BY <2>1, <3>1, <4>1, <1>8, <1>9 DEF x
      <4>2. CASE RequestOf(c) # m
        BY <3>2, <4>2, <1>4
      <4> QED  BY <4>1, <4>2
    <3>3. CASE RequestOf(c) \notin Items(up)
      BY <3>3, <1>1, <1>2, <1>9 DEF AnswerIsDue
    <3> QED  BY <3>2, <3>3
  <2> QED  BY <2>1, <2>2, <1>2 DEF AnswerIsDue
<1>16. Fired'
  BY <1>1, <1>2, <1>6 DEF Fired, HeardInOrderOnce
<1> QED  BY <1>3, <1>12, <1>13, <1>14, <1>15, <1>16 DEF IInv

(* What m ends the server has, unless it is given up now. *)
LEMMA ServerEndsKeeps ==
    ASSUME IInv, ServerReceive, ~Begins(Head(up))
    PROVE  IInv'
<1> DEFINE m == Head(up)
           x == m.id
<1>1. TypeOK /\ Lists /\ AnswerIsDue /\ Fired /\ server \in Server
  BY DEF IInv, TypeOK
<1>2. /\ ~server.disposed /\ up # <<>> /\ up' = Tail(up)
      /\ UNCHANGED <<client, down, fired, heard>>
  BY DEF ServerReceive
<1>3. TypeOK'
  BY <1>1, ServerReceiveType
<1>4. /\ m \in Request
      /\ Items(up) \subseteq {m} \cup Items(up')
      /\ \A i : /\ Sent(up, i) <=> Sent(up', i)
                /\ Ended(up, i) <=> m.id = i \/ Ended(up', i)
                /\ SentOnce(up, i) => SentOnce(up', i)
                /\ EndedLater(up, i) => EndedLater(up', i)
  BY <1>1, <1>2, UpPopped
<1>5. \A i : \A a, b \in BOOLEAN : Leads(up, i, b, a) =>
         /\ m.id # i => Leads(up', i, b, a)
         /\ m.id = i => b /\ Leads(up', i, FALSE, a)
  <2> SUFFICES ASSUME NEW i, NEW a \in BOOLEAN, NEW b \in BOOLEAN, Leads(up, i, b, a)
               PROVE  /\ m.id # i => Leads(up', i, b, a)
                      /\ m.id = i => b /\ Leads(up', i, FALSE, a)
    OBVIOUS
  <2>1. /\ m.id # i => Leads(up', i, b, a)
        /\ m.id = i => (Begins(m) <=> ~b) /\ Leads(up', i, ~b, a)
    BY <1>1, <1>2, UpPopped
  <2>2. m.id = i => b /\ (~b) = FALSE
    BY <2>1
  <2> QED  BY <2>1, <2>2
<1>6. x \in Id
  BY <1>4 DEF Request
<1>7. server' = DisposeActive(server, {x}) /\ abandoned' = abandoned \cup ({x} \cap Pending)
  BY DEF ServerReceive, Begins
<1> HIDE DEF m, x
<1>8. /\ server'.pending = server.pending /\ server'.timers = server.timers
      /\ server'.disposed = server.disposed /\ server'.running = server.running
      /\ server'.active = server.active \ {x}
      /\ \A e \in Event : server'.subscriptions[e] =
            IF e \in {x} \cap server.active THEN server.subscriptions[e] - 1
            ELSE server.subscriptions[e]
  BY <1>1, <1>7, ActiveDisposed
<1>9. Pending' = Pending
  BY <1>8 DEF Pending
<1>10. \A i : i # x => (Held(i)' <=> Held(i)) /\ (i \in server'.active <=> i \in server.active)
  BY <1>8, <1>9 DEF Held
<1>11. Lists'
  <2>1. ~server'.disposed
    BY <1>2, <1>8
  <2>2. \A e \in Event : e \in server'.active => server'.subscriptions[e] >= 1
    BY <1>1, <1>8 DEF Lists
  <2> QED  BY <2>1, <2>2, <1>1, <1>2, <1>8 DEF Lists
<1>12. ASSUME NEW e \in Event \ abandoned'
       PROVE  EventInv(e)'
  <2>1. EventInv(e)
    BY <1>7, <1>12 DEF IInv
  <2>2. Leads(up, e, Held(e), e \in client.active)
    BY <2>1, <1>2 DEF EventInv
  <2>3. server.subscriptions[e] \in Nat
    BY <1>1, <1>12, ServerFields
  <2>4. CASE e = x
    <3>1. Held(e) /\ Leads(up', e, FALSE, e \in client.active)
      BY <2>2, <2>4, <1>5, HeldBoolean DEF x
    <3>2. e \notin Pending /\ e \in server.active
      BY <2>4, <3>1, <1>7, <1>12 DEF Held
    <3>3. server'.subscriptions[e] = 0 /\ e \notin server'.active
      BY <2>1, <2>4, <3>2, <1>8, <1>12 DEF EventInv
    <3>4. (server.disposed \/ Leads(up, e, Held(e), e \in client.active))'
      <4>1. (Held(e)') = FALSE
        BY <3>2, <3>3, <1>9 DEF Held
      <4> QED  BY <3>1, <4>1, <1>2
    <3> QED  BY <2>1, <3>2, <3>3, <3>4, <1>2, <1>8, <1>9 DEF EventInv
  <2>5. CASE e # x
    <3>1. Leads(up', e, Held(e), e \in client.active)
      BY <2>2, <2>5, <1>5, HeldBoolean DEF x
    <3>2. (server.disposed \/ Leads(up, e, Held(e), e \in client.active))'
      <4>1. (Held(e)') = Held(e)
        BY <2>5, <1>10, HeldBoolean DEF Held
      <4> QED  BY <3>1, <4>1, <1>2
    <3>3. server'.subscriptions[e] = server.subscriptions[e]
      BY <2>5, <1>8, <1>12
    <3> QED  BY <2>1, <2>5, <3>2, <3>3, <1>2, <1>8, <1>9, <1>10 DEF EventInv
  <2> QED  BY <2>4, <2>5
<1>13. ASSUME NEW c \in Call \ abandoned'
       PROVE  CallInv(c)'
  <2>1. CallInv(c)
    BY <1>7, <1>13 DEF IInv
  <2>2. Answered(c)' <=> Answered(c)
    BY <1>2 DEF Answered
  <2>3. Held(c)' => Held(c) /\ (Ended(up, c) => Ended(up', c))
    <3>1. CASE c = x
      <4>1. c \notin Pending
        BY <3>1, <1>7, <1>13
      <4> QED  BY <3>1, <4>1, <1>8, <1>9 DEF Held
    <3>2. CASE c # x
      BY <3>2, <1>4, <1>10 DEF x
    <3> QED  BY <3>1, <3>2
  <2>4. c \in server'.active => c \in server.active
    BY <1>8
  <2> QED  BY <2>1, <2>2, <2>3, <2>4, <1>2, <1>4, <1>8, <1>9 DEF CallInv
<1>14. AnswerIsDue'
  <2>1. \A d \in Call : RequestOf(d)' = RequestOf(d) /\ RequestOf(d) # m
    <3>1. \A d \in Call : RequestOf(d)' = RequestOf(d) /\ Begins(RequestOf(d))
      BY RequestTypes DEF RequestOf, Id
    <3> QED  BY <3>1 DEF m
  <2>2. client.handlers \subseteq Call
    BY <1>1, ClientTypes DEF TypeOK
  <2> QED  BY <2>1, <2>2, <1>1, <1>2, <1>4, <1>8 DEF AnswerIsDue
<1>15. Fired'
  <2>1. down' = down /\ heard' = heard /\ fired' = fired /\ abandoned \subseteq abandoned'
    BY <1>2, <1>7
  <2>2. HeardInOrderOnce'
    BY <2>1, <1>1 DEF Fired, HeardInOrderOnce
  <2> QED  BY <2>1, <2>2, <1>1 DEF Fired
<1> QED  BY <1>3, <1>11, <1>12, <1>13, <1>14, <1>15 DEF IInv

(* An answer of c that is sent, and c kept from running again. *)
LEMMA ServiceAnswersKeeps ==
    ASSUME IInv, NEW c \in Call, ServiceAnswers(c)
    PROVE  IInv'
<1>1. TypeOK /\ Lists /\ AnswerIsDue /\ Fired /\ server \in Server
  BY DEF IInv, TypeOK
<1>2. c \in server.running /\ UNCHANGED <<client, up, fired, heard, abandoned>>
  BY DEF ServiceAnswers
<1>3. TypeOK'
  BY <1>1, ServiceAnswersType
<1>4. server' = [server EXCEPT !.running = @ \ {c}, !.active = @ \ {c}]
  BY DEF ServiceAnswers
<1>5. /\ server'.pending = server.pending /\ server'.timers = server.timers
      /\ server'.disposed = server.disposed /\ server'.running = server.running \ {c}
      /\ server'.active = server.active \ {c} /\ server'.subscriptions = server.subscriptions
  BY <1>1, <1>4, ServerFields
<1>6. Pending' = Pending
  BY <1>5 DEF Pending
<1>7. PICK m \in Answer : m.id = c /\ down' = Append(down, m)
  BY DEF ServiceAnswers, Answer
<1>8. /\ Items(down') = Items(down) \cup {m}
      /\ DOMAIN down' = DOMAIN down \cup {Len(down) + 1}
      /\ \A k \in DOMAIN down : down'[k] = down[k]
      /\ down'[Len(down) + 1] = m
  BY <1>1, <1>7, DownAnswered
<1>9. Lists'
  BY <1>1, <1>2, <1>5, <1>6 DEF Lists, Held
<1>10. ASSUME NEW e \in Event \ abandoned'
       PROVE  EventInv(e)'
  <2>1. EventInv(e) /\ e # c
    BY <1>2, <1>10, IdAssumption DEF IInv
  <2>2. (e \in server'.active <=> e \in server.active) /\ (Held(e)') = Held(e)
    BY <2>1, <1>5, <1>6 DEF Held
  <2>3. (server.disposed \/ Leads(up, e, Held(e), e \in client.active))'
    BY <2>1, <2>2, <1>2, <1>5 DEF EventInv
  <2> QED  BY <2>1, <2>2, <2>3, <1>2, <1>5, <1>6 DEF EventInv
<1>11. ASSUME NEW d \in Call \ abandoned'
       PROVE  CallInv(d)'
  <2>1. CallInv(d)
    BY <1>2, <1>11 DEF IInv
  <2>2. CASE d = c
    <3>1. /\ ~Has(client.promises, d) /\ ~Sent(up, d) /\ d \notin Pending
          /\ client.result[d] # "none" /\ d \notin server'.running /\ d \notin server'.active
      BY <2>1, <2>2, <1>2, <1>5 DEF CallInv
    <3> QED  BY <2>1, <2>2, <3>1, <1>2, <1>5, <1>6 DEF CallInv, Held
  <2>3. CASE d # c
    <3>1. Answered(d)' <=> Answered(d)
      BY <2>3, <1>2, <1>7, <1>8 DEF Answered
    <3>2. (d \in server'.running <=> d \in server.running) /\ (d \in server'.active <=> d \in server.active)
      BY <2>3, <1>5
    <3> QED  BY <2>1, <3>1, <3>2, <1>2, <1>6 DEF CallInv, Held
  <2> QED  BY <2>2, <2>3
<1>12. AnswerIsDue'
  <2>1. \A d : RequestOf(d)' = RequestOf(d)
    BY DEF RequestOf
  <2> QED  BY <2>1, <1>1, <1>2, <1>5, <1>7, <1>8 DEF AnswerIsDue
<1>13. Fired'
  BY <1>1, <1>2, <1>7, FiredAnswered
<1> QED  BY <1>3, <1>9, <1>10, <1>11, <1>12, <1>13 DEF IInv

(* A call that timed out was given up; its request stays pending.          *)
LEMMA UnknownChannelKeeps ==
    ASSUME IInv, NEW c \in Call, UnknownChannel(c)
    PROVE  IInv'
<1>1. TypeOK /\ Lists /\ AnswerIsDue /\ Fired /\ server \in Server
  BY DEF IInv, TypeOK
<1>2. UNCHANGED <<client, up, fired, heard>> /\ abandoned' = abandoned \cup {c}
  BY DEF UnknownChannel
<1>3. TypeOK'
  BY <1>1, UnknownChannelType
<1>4. server' = [server EXCEPT !.timers = @ \ {c}]
  BY DEF UnknownChannel
<1>5. /\ server'.pending = server.pending /\ server'.timers = server.timers \ {c}
      /\ server'.disposed = server.disposed /\ server'.running = server.running
      /\ server'.active = server.active /\ server'.subscriptions = server.subscriptions
  BY <1>1, <1>4, ServerFields
<1>6. Pending' = Pending
  BY <1>5 DEF Pending
<1>7. PICK m \in Answer : m.id = c /\ down' = Append(down, m)
  BY DEF UnknownChannel, Answer, AnswerType
<1>8. /\ Items(down') = Items(down) \cup {m}
      /\ DOMAIN down' = DOMAIN down \cup {Len(down) + 1}
      /\ \A k \in DOMAIN down : down'[k] = down[k]
      /\ down'[Len(down) + 1] = m
  BY <1>1, <1>7, DownAnswered
<1>9. Lists'
  BY <1>1, <1>2, <1>5, <1>6 DEF Lists, Held
<1>10. ASSUME NEW e \in Event \ abandoned'
       PROVE  EventInv(e)'
  <2>1. EventInv(e)
    BY <1>2, <1>10 DEF IInv
  <2>2. (server.disposed \/ Leads(up, e, Held(e), e \in client.active))'
    <3>1. (Held(e)') = Held(e)
      BY <1>5, <1>6 DEF Held
    <3> QED  BY <2>1, <3>1, <1>2, <1>5 DEF EventInv
  <2> QED  BY <2>1, <2>2, <1>2, <1>5, <1>6 DEF EventInv
<1>11. ASSUME NEW d \in Call \ abandoned'
       PROVE  CallInv(d)'
  <2>1. CallInv(d) /\ d # c
    BY <1>2, <1>11 DEF IInv
  <2>2. Answered(d)' <=> Answered(d)
    BY <2>1, <1>2, <1>7, <1>8 DEF Answered
  <2> QED  BY <2>1, <2>2, <1>2, <1>5, <1>6 DEF CallInv, Held
<1>12. AnswerIsDue'
  <2>1. \A d : RequestOf(d)' = RequestOf(d)
    BY DEF RequestOf
  <2> QED  BY <2>1, <1>1, <1>2, <1>5, <1>7, <1>8 DEF AnswerIsDue
<1>13. Fired'
  <2>1. heard' = heard /\ fired' = fired /\ abandoned \subseteq abandoned'
    BY <1>2
  <2> QED  BY <2>1, <1>1, <1>7, FiredAnswered
<1> QED  BY <1>3, <1>9, <1>10, <1>11, <1>12, <1>13 DEF IInv

LEMMA RegisterChannelKeeps ==
    ASSUME IInv, NEW ch \in Channel, RegisterChannel(ch)
    PROVE  IInv'
<1>1. TypeOK /\ Lists /\ AnswerIsDue /\ Fired /\ server \in Server
  BY DEF IInv, TypeOK
<1>2. UNCHANGED <<client, up, down, fired, heard, abandoned>>
  BY DEF RegisterChannel
<1>3. TypeOK'
  BY <1>1, RegisterChannelType
<1>4. server' = [server EXCEPT !.registered = @ \cup {ch}, !.flushing = @ \cup {ch}]
  BY DEF RegisterChannel
<1>5. /\ server'.pending = server.pending /\ server'.timers = server.timers
      /\ server'.disposed = server.disposed /\ server'.running = server.running
      /\ server'.active = server.active /\ server'.subscriptions = server.subscriptions
  BY <1>1, <1>4, ServerFields
<1>6. Pending' = Pending
  BY <1>5 DEF Pending
<1>7. Lists'
  BY <1>1, <1>2, <1>5, <1>6 DEF Lists, Held
<1>8. ASSUME NEW e \in Event \ abandoned'
      PROVE  EventInv(e)'
  <2>1. EventInv(e)
    BY <1>2, <1>8 DEF IInv
  <2>2. (server.disposed \/ Leads(up, e, Held(e), e \in client.active))'
    <3>1. (Held(e)') = Held(e)
      BY <1>5, <1>6 DEF Held
    <3> QED  BY <2>1, <3>1, <1>2, <1>5 DEF EventInv
  <2> QED  BY <2>1, <2>2, <1>2, <1>5, <1>6 DEF EventInv
<1>9. ASSUME NEW d \in Call \ abandoned'
      PROVE  CallInv(d)'
  <2>1. CallInv(d)
    BY <1>2, <1>9 DEF IInv
  <2> QED  BY <2>1, <1>2, <1>5, <1>6 DEF CallInv, Held, Answered
<1>10. AnswerIsDue'
  <2>1. \A d : RequestOf(d)' = RequestOf(d)
    BY DEF RequestOf
  <2> QED  BY <2>1, <1>1, <1>2, <1>5 DEF AnswerIsDue
<1>11. Fired'
  BY <1>1, <1>2 DEF Fired, HeardInOrderOnce
<1> QED  BY <1>3, <1>7, <1>8, <1>9, <1>10, <1>11 DEF IInv

(* What was pending is begun: the server had it all along. *)
LEMMA FlushPendingRequestsKeeps ==
    ASSUME IInv, NEW ch \in Channel, FlushPendingRequests(ch)
    PROVE  IInv'
<1> DEFINE q == server.pending[ch]
<1>1. TypeOK /\ Lists /\ AnswerIsDue /\ Fired /\ server \in Server
  BY DEF IInv, TypeOK
<1>2. UNCHANGED <<client, up, down, fired, heard, abandoned>>
  BY DEF FlushPendingRequests
<1>3. TypeOK'
  BY <1>1, FlushPendingRequestsType
<1>4. /\ server'.timers = server.timers \ Items(q)
      /\ server'.disposed = server.disposed
      /\ server'.active = server.active \cup Items(q)
      /\ server'.running = server.running \cup (Items(q) \cap Call)
      /\ \A e \in Event : server'.subscriptions[e] = server.subscriptions[e] + Times(e, q)
      /\ \A c \in Channel : server'.pending[c] = IF c = ch THEN <<>> ELSE server.pending[c]
      /\ Pending' = Pending \ Items(q)
      /\ Items(q) \subseteq Pending
  BY <1>1, Flushed
<1>5. q \in Seq(Id) /\ \A i \in Items(q) : ChannelOf[i] = ch
  BY <1>1, ServerFields DEF Lists
<1> HIDE DEF q
<1>6. \A e \in Event : /\ server.subscriptions[e] \in Nat /\ Times(e, q) \in Nat
                       /\ e \in Items(q) => Times(e, q) >= 1
                       /\ e \notin Items(q) => Times(e, q) = 0
  BY <1>1, <1>5, ServerFields, TimesType
<1>7. \A i : (Held(i)') = Held(i)
  BY <1>4 DEF Held
<1>8. Lists'
  <2>1. \A c \in Channel : \A i \in Items(server'.pending[c]) : ChannelOf[i] = c
    <3>1. Items(<<>>) = {}
      BY DEF Items
    <3> QED  BY <3>1, <1>1, <1>4 DEF Lists
  <2>2. \A e \in Event : e \in server'.active => server'.subscriptions[e] >= 1
    BY <1>1, <1>4, <1>6 DEF Lists
  <2>3. \A i \in Id \ abandoned' : server'.disposed => ~Held(i)'
    BY <1>1, <1>2, <1>4, <1>7 DEF Lists
  <2> QED  BY <2>1, <2>2, <2>3, <1>1, <1>2 DEF Lists
<1>9. ASSUME NEW e \in Event \ abandoned'
      PROVE  EventInv(e)'
  <2>1. EventInv(e) /\ e \in Id /\ ChannelOf[e] \in Channel
    BY <1>2, <1>9, ChannelAssumption DEF IInv, Id
  <2>2. (server.disposed \/ Leads(up, e, Held(e), e \in client.active))'
    BY <2>1, <1>2, <1>4, <1>7 DEF EventInv
  <2>3. /\ server'.subscriptions[e] = IF e \in server'.active THEN 1 ELSE 0
        /\ e \notin Pending' \/ e \notin server'.active
    <3>1. CASE e \in Items(q)
      <4>1. e \notin server.active /\ server.subscriptions[e] = 0 /\ ChannelOf[e] = ch
        BY <2>1, <3>1, <1>4, <1>5 DEF EventInv
      <4>2. \A k, l \in DOMAIN q : q[k] = e /\ q[l] = e => k = l
        BY <2>1, <4>1 DEF EventInv, q
      <4>3. Times(e, q) = 1
        BY <3>1, <4>2, <1>5, TimesType
      <4> QED  BY <3>1, <4>1, <4>3, <1>4, <1>9
    <3>2. CASE e \notin Items(q)
      BY <2>1, <3>2, <1>4, <1>6, <1>9 DEF EventInv
    <3> QED  BY <3>1, <3>2
  <2>4. \A k, l \in DOMAIN server'.pending[ChannelOf[e]] :
           server'.pending[ChannelOf[e]][k] = e /\ server'.pending[ChannelOf[e]][l] = e => k = l
    <3>1. DOMAIN <<>> = {}
      OBVIOUS
    <3>2. CASE ChannelOf[e] = ch
      <4>1. server'.pending[ChannelOf[e]] = <<>>
        BY <2>1, <3>2, <1>4
      <4> QED  BY <3>1, <4>1
    <3>3. CASE ChannelOf[e] # ch
      <4>1. server'.pending[ChannelOf[e]] = server.pending[ChannelOf[e]]
        BY <2>1, <3>3, <1>4
      <4> QED  BY <2>1, <4>1 DEF EventInv
    <3> QED  BY <3>2, <3>3
  <2> QED  BY <2>1, <2>2, <2>3, <2>4, <1>2 DEF EventInv
<1>10. ASSUME NEW c \in Call \ abandoned'
       PROVE  CallInv(c)'
  <2>1. CallInv(c)
    BY <1>2, <1>10 DEF IInv
  <2>2. Answered(c)' <=> Answered(c)
    BY <1>2 DEF Answered
  <2>3. CASE c \in Items(q)
    <3>1. /\ c \in Pending /\ ~Has(client.promises, c) /\ ~Sent(up, c) /\ ~Answered(c)
          /\ client.result[c] # "none" /\ c \notin Pending' /\ c \in server'.running
      BY <2>1, <2>3, <1>4, <1>10 DEF CallInv
    <3> QED  BY <2>1, <2>2, <3>1, <1>2, <1>7 DEF CallInv
  <2>4. CASE c \notin Items(q)
    BY <2>1, <2>2, <2>4, <1>2, <1>4, <1>7 DEF CallInv
  <2> QED  BY <2>3, <2>4
<1>11. AnswerIsDue'
  <2>1. \A d : RequestOf(d)' = RequestOf(d)
    BY DEF RequestOf
  <2>2. client.handlers \subseteq Call
    BY <1>1, ClientTypes DEF TypeOK
  <2> QED  BY <2>1, <2>2, <1>1, <1>2, <1>4 DEF AnswerIsDue
<1>12. Fired'
  BY <1>1, <1>2 DEF Fired, HeardInOrderOnce
<1> QED  BY <1>3, <1>8, <1>9, <1>10, <1>11, <1>12 DEF IInv

(* What is pending is given up, the rest ended. *)
LEMMA DisposeServerKeeps ==
    ASSUME IInv, DisposeServer
    PROVE  IInv'
<1> DEFINE v == DisposeActive(server, server.active)
<1>1. TypeOK /\ Lists /\ AnswerIsDue /\ Fired /\ server \in Server
  BY DEF IInv, TypeOK
<1>2. UNCHANGED <<client, up, down, fired, heard>> /\ abandoned' = abandoned \cup Pending
  BY DEF DisposeServer
<1>3. TypeOK'
  BY <1>1, DisposeServerType
<1>4. server' = [v EXCEPT !.disposed = TRUE]
  BY DEF DisposeServer
<1>5. v \in Server
  BY <1>1, ServerTypes DEF Lists
<1>6. /\ v.pending = server.pending /\ v.timers = server.timers /\ v.running = server.running
      /\ v.active = server.active \ server.active
      /\ \A e \in Event : v.subscriptions[e] =
            IF e \in server.active \cap server.active THEN server.subscriptions[e] - 1
            ELSE server.subscriptions[e]
  BY <1>1, ActiveDisposed
<1> HIDE DEF v
<1>7. /\ server'.pending = v.pending /\ server'.timers = v.timers /\ server'.running = v.running
      /\ server'.active = v.active /\ server'.subscriptions = v.subscriptions /\ server'.disposed
  BY <1>4, <1>5 DEF Server
<1>8. /\ server'.pending = server.pending /\ server'.running = server.running
      /\ server'.active = {} /\ server'.disposed /\ Pending' = Pending
      /\ \A e \in Event : server'.subscriptions[e] =
            IF e \in server.active THEN server.subscriptions[e] - 1 ELSE server.subscriptions[e]
  BY <1>6, <1>7 DEF Pending
<1>9. \A i \in Id \ abandoned' : ~Held(i)' /\ i \notin Pending'
  BY <1>2, <1>8 DEF Held
<1>10. Lists'
  BY <1>1, <1>2, <1>8, <1>9 DEF Lists
<1>11. ASSUME NEW e \in Event \ abandoned'
       PROVE  EventInv(e)'
  <2>1. EventInv(e)
    BY <1>2, <1>11 DEF IInv
  <2>2. server'.subscriptions[e] = 0
    BY <2>1, <1>8, <1>11 DEF EventInv
  <2> QED  BY <2>1, <2>2, <1>2, <1>8 DEF EventInv
<1>12. ASSUME NEW c \in Call \ abandoned'
       PROVE  CallInv(c)'
  <2>1. CallInv(c)
    BY <1>2, <1>12 DEF IInv
  <2>2. Answered(c)' <=> Answered(c)
    BY <1>2 DEF Answered
  <2>3. ~Held(c)' /\ c \notin server'.active
    BY <1>8, <1>9, <1>12 DEF Id
  <2> QED  BY <2>1, <2>2, <2>3, <1>2, <1>8 DEF CallInv
<1>13. AnswerIsDue'
  BY <1>8 DEF AnswerIsDue
<1>14. Fired'
  <2>1. down' = down /\ heard' = heard /\ fired' = fired /\ abandoned \subseteq abandoned'
    BY <1>2
  <2>2. HeardInOrderOnce'
    BY <2>1, <1>1 DEF Fired, HeardInOrderOnce
  <2> QED  BY <2>1, <2>2, <1>1 DEF Fired
<1> QED  BY <1>3, <1>10, <1>11, <1>12, <1>13, <1>14 DEF IInv

(* With one subscription or none a firing is sent once at most, after all  *)
(* that were fired before it.                                              *)
LEMMA FireKeeps ==
    ASSUME IInv, NEW d \in Event, Fire(d)
    PROVE  IInv'
<1> DEFINE r == Firings(d)
<1>1. TypeOK /\ Lists /\ AnswerIsDue /\ Fired
  BY DEF IInv
<1>2. UNCHANGED <<client, server, up, heard, abandoned>> /\ fired' = [fired EXCEPT ![d] = @ + 1]
      /\ Pending' = Pending
  BY DEF Fire, Pending
<1>3. TypeOK'
  BY <1>1, FireType
<1>4. /\ server.subscriptions[d] \in Nat /\ fired[d] \in Nat
      /\ r \in Seq(Response) /\ DOMAIN r = 1 .. server.subscriptions[d] /\ down' = down \o r
  BY <1>1, FiringsType
<1>5. \A k \in DOMAIN r : r[k] = [type |-> "EventFire", id |-> d, n |-> fired[d] + 1]
  BY DEF Firings
<1> HIDE DEF r
<1>6. down \in Seq(Response) /\ fired \in [Event -> 0 .. MaxFires] /\ heard \in [Event -> 0 .. MaxFires]
  BY <1>1 DEF TypeOK
<1>7. /\ Len(down) \in Nat /\ DOMAIN down = 1 .. Len(down)
      /\ DOMAIN down' = 1 .. Len(down) + Len(r)
      /\ \A k \in DOMAIN down : k \in DOMAIN down' /\ down'[k] = down[k]
      /\ \A k \in DOMAIN down' :
            k \notin DOMAIN down => k - Len(down) \in DOMAIN r /\ down'[k] = r[k - Len(down)]
  <2>1. /\ Len(down) \in Nat /\ Len(r) \in Nat /\ DOMAIN down = 1 .. Len(down)
        /\ DOMAIN (down \o r) = 1 .. Len(down) + Len(r)
        /\ \A k \in DOMAIN down : (down \o r)[k] = down[k]
        /\ \A k \in DOMAIN (down \o r) :
              k \notin DOMAIN down => k - Len(down) \in DOMAIN r /\ (down \o r)[k] = r[k - Len(down)]
    BY <1>4, <1>6, JoinedParts
  <2>2. \A k \in DOMAIN down : k \in 1 .. Len(down) + Len(r)
    BY <2>1
  <2> QED  BY <2>1, <2>2, <1>4
<1>8. \A k \in DOMAIN down' : k \notin DOMAIN down =>
         /\ k - Len(down) \in 1 .. server.subscriptions[d]
         /\ down'[k] = [type |-> "EventFire", id |-> d, n |-> fired[d] + 1]
  BY <1>4, <1>5, <1>7
<1>9. \A k \in DOMAIN down' : k \notin DOMAIN down =>
         /\ down'[k].type = "EventFire" /\ down'[k].id = d /\ down'[k].n = fired[d] + 1
         /\ down'[k] \notin Answer
  BY <1>8 DEF Answer, AnswerType
<1>10. /\ fired'[d] = fired[d] + 1 /\ \A e \in Event : e # d => fired'[e] = fired[e]
       /\ \A e \in Event : fired[e] \in Nat /\ heard[e] \in Nat
  BY <1>2, <1>6, BoundAssumption
<1>11. Lists'
  BY <1>1, <1>2 DEF Lists, Held
<1>12. ASSUME NEW e \in Event \ abandoned'
       PROVE  EventInv(e)'
  <2>1. EventInv(e)
    BY <1>2, <1>12 DEF IInv
  <2> QED  BY <2>1, <1>2 DEF EventInv, Held
<1>13. ASSUME NEW c \in Call \ abandoned'
       PROVE  CallInv(c)'
  <2>1. CallInv(c)
    BY <1>2, <1>13 DEF IInv
  <2>2. Answered(c)' <=> Answered(c)
    BY <1>2, <1>7, <1>9 DEF Answered
  <2> QED  BY <2>1, <2>2, <1>2 DEF CallInv, Held
<1>14. AnswerIsDue'
  <2>1. \A i : RequestOf(i)' = RequestOf(i)
    BY DEF RequestOf
  <2>2. Items(down) \subseteq Items(down')
    BY <1>7 DEF Items
  <2> QED  BY <2>1, <2>2, <1>1, <1>2 DEF AnswerIsDue
<1>15. \A e \in Event : heard'[e] <= fired'[e]
  BY <1>1, <1>2, <1>10 DEF Fired
<1>16. ASSUME NEW k \in DOMAIN down, down[k].type = "EventFire"
       PROVE  /\ down[k].id \in Event /\ down[k].n \in Nat /\ down[k] \in Firing
              /\ down[k].n <= fired[down[k].id]
  <2>1. down[k] \in Response
    BY <1>6, LenProperties, ElementOfSeq
  <2>2. down[k] \in Firing /\ down[k].id \in Event /\ down[k].n \in 1 .. MaxFires
    BY <2>1, <1>16, KindsOfResponse
  <2>3. down[k].n \in Nat
    BY <2>2, BoundAssumption
  <2> QED  BY <2>2, <2>3, <1>1 DEF Fired
<1>17. \A k \in DOMAIN down' : down'[k] \in Firing => down'[k].n <= fired'[down'[k].id]
  <2> SUFFICES ASSUME NEW k \in DOMAIN down', down'[k] \in Firing
               PROVE  down'[k].n <= fired'[down'[k].id]
    OBVIOUS
  <2>1. CASE k \in DOMAIN down
    <3>1. down[k] \in Firing /\ down[k].type = "EventFire" /\ down'[k] = down[k]
      BY <2>1, <1>7 DEF Firing
    <3>2. down[k].id \in Event /\ down[k].n \in Nat /\ down[k].n <= fired[down[k].id]
      BY <2>1, <3>1, <1>16
    <3> QED  BY <3>1, <3>2, <1>10
  <2>2. CASE k \notin DOMAIN down
    BY <2>2, <1>9, <1>10
  <2> QED  BY <2>1, <2>2
<1>18. HeardInOrderOnce'
  <2> SUFFICES ASSUME NEW e \in Event \ abandoned, NEW k \in DOMAIN down',
                      down'[k].type = "EventFire", down'[k].id = e
               PROVE  /\ down'[k].n > heard[e]
                      /\ \A j \in 1 .. k - 1 :
                            down'[j].type = "EventFire" /\ down'[j].id = e => down'[j].n < down'[k].n
    BY <1>2 DEF HeardInOrderOnce
  <2>1. CASE k \in DOMAIN down
    <3>1. /\ down[k].n > heard[e]
          /\ \A j \in 1 .. k - 1 :
                down[j].type = "EventFire" /\ down[j].id = e => down[j].n < down[k].n
      BY <2>1, <1>1, <1>7 DEF Fired, HeardInOrderOnce
    <3>2. \A j \in 1 .. k - 1 : j \in DOMAIN down
      BY <2>1, <1>7
    <3> QED  BY <2>1, <3>1, <3>2, <1>7
  <2>2. CASE k \notin DOMAIN down
    <3>1. e = d /\ down'[k].n = fired[e] + 1 /\ heard[e] <= fired[e]
      BY <2>2, <1>1, <1>9 DEF Fired
    <3>2. down'[k].n > heard[e]
      BY <3>1, <1>10
    <3>3. server.subscriptions[d] \in {0, 1}
      <4>1. EventInv(d)
        BY <3>1 DEF IInv
      <4> QED  BY <4>1 DEF EventInv
    <3>4. k - Len(down) = 1
      BY <2>2, <3>3, <1>8
    <3>5. ASSUME NEW j \in 1 .. k - 1, down'[j].type = "EventFire", down'[j].id = e
          PROVE  down'[j].n < down'[k].n
      <4>1. j \in DOMAIN down
        BY <3>4, <1>7
      <4>2. down'[j] = down[j] /\ down[j].n \in Nat /\ down[j].n <= fired[e]
        BY <3>5, <4>1, <1>7, <1>16
      <4> QED  BY <3>1, <4>2, <1>10
    <3> QED  BY <3>2, <3>5
  <2> QED  BY <2>1, <2>2
<1>19. Fired'
  BY <1>15, <1>17, <1>18 DEF Fired
<1> QED  BY <1>3, <1>11, <1>12, <1>13, <1>14, <1>19 DEF IInv

-----------------------------------------------------------------------------
(* The invariant, and the properties. *)

LEMMA IInvInit == Init => IInv
<1> SUFFICES ASSUME Init
             PROVE  IInv
  OBVIOUS
<1>1. TypeOK
  BY InitType
<1>2. /\ client.promises = <<>> /\ client.current = {} /\ client.active = {} /\ client.handlers = {}
      /\ client.listening = {} /\ client.result = [c \in Call |-> "none"]
  BY DEF Init
<1>3. /\ server.pending = [ch \in Channel |-> <<>>] /\ server.active = {} /\ server.running = {}
      /\ server.subscriptions = [e \in Event |-> 0] /\ server.disposed = FALSE
  BY DEF Init
<1>4. up = <<>> /\ down = <<Initialize>>
  BY DEF Init
<1>5. fired = [e \in Event |-> 0] /\ heard = [e \in Event |-> 0]
  BY DEF Init
<1>6. DOMAIN <<>> = {} /\ Items(<<>>) = {}
  BY DEF Items
<1>7. \A k \in DOMAIN down : down[k] = Initialize
  BY <1>4
<1>8. \A i : /\ ~Has(<<>>, i) /\ Once(<<>>, i) /\ ~Sent(<<>>, i) /\ SentOnce(<<>>, i)
             /\ ~Ended(<<>>, i) /\ EndedLater(<<>>, i)
             /\ Leads(<<>>, i, FALSE, FALSE)
  BY <1>6 DEF Has, Once, Sent, SentOnce, Ended, EndedLater, Leads
<1>9. \A i : ~Held(i) /\ i \notin Pending
  BY <1>3, <1>6 DEF Held, Pending
<1>10. Initialize.type # "EventFire" /\ Initialize \notin Answer /\ Initialize \notin Firing
  BY DEF Initialize, Answer, AnswerType, Firing
<1>11. Lists
  BY <1>2, <1>3, <1>6, <1>9, FS_EmptySet DEF Lists
<1>12. ASSUME NEW e \in Event
       PROVE  EventInv(e)
  <2>1. (Held(e)) = FALSE /\ (e \in client.active) = FALSE
    BY <1>2, <1>9, HeldBoolean
  <2>2. Leads(up, e, Held(e), e \in client.active)
    BY <2>1, <1>4, <1>8
  <2>3. ChannelOf[e] \in Channel
    BY ChannelAssumption DEF Id
  <2>4. server.pending[ChannelOf[e]] = <<>>
    BY <2>3, <1>3
  <2> QED  BY <2>2, <2>4, <1>2, <1>3, <1>6, <1>8, <1>9 DEF EventInv
<1>13. ASSUME NEW c \in Call
       PROVE  CallInv(c)
  <2>1. client.result[c] = "none"
    BY <1>2
  <2>2. ~Answered(c)
    BY <2>1, <1>7, <1>10 DEF Answered
  <2> QED  BY <2>1, <2>2, <1>2, <1>3, <1>4, <1>8, <1>9 DEF CallInv
<1>14. AnswerIsDue
  BY <1>2 DEF AnswerIsDue
<1>15. Fired
  <2>1. HeardInOrderOnce
    BY <1>7, <1>10 DEF HeardInOrderOnce
  <2>2. \A e \in Event : heard[e] = 0 /\ fired[e] = 0
    BY <1>5
  <2> QED  BY <2>1, <2>2, <1>7, <1>10 DEF Fired
<1> QED  BY <1>1, <1>11, <1>12, <1>13, <1>14, <1>15 DEF IInv

LEMMA IInvStep == IInv /\ [Next]_vars => IInv'
<1> SUFFICES ASSUME IInv, [Next]_vars
             PROVE  IInv'
  OBVIOUS
<1>1. CASE \E c \in Call : RequestPromise(c) \/ Cancel(c) \/ ServiceAnswers(c) \/ UnknownChannel(c)
  BY <1>1, RequestPromiseKeeps, CancelKeeps, ServiceAnswersKeeps, UnknownChannelKeeps
<1>2. CASE \E e \in Event : Listen(e) \/ Unlisten(e) \/ Fire(e)
  BY <1>2, ListenKeeps, UnlistenKeeps, FireKeeps
<1>3. CASE \E ch \in Channel : RegisterChannel(ch) \/ FlushPendingRequests(ch)
  BY <1>3, RegisterChannelKeeps, FlushPendingRequestsKeeps
<1>4. CASE Resolve \/ Reaction \/ DisposeClient \/ ClientReceive
  BY <1>4, ResolveKeeps, ReactionKeeps, DisposeClientKeeps, ClientReceiveKeeps
<1>5. CASE ServerReceive
  BY <1>5, ServerBeginsKeeps, ServerEndsKeeps
<1>6. CASE DisposeServer
  BY <1>6, DisposeServerKeeps
<1>7. CASE UNCHANGED vars
  <2>1. UNCHANGED <<client, server, up, down, fired, heard, abandoned>>
    BY <1>7 DEF vars
  <2>2. Pending' = Pending
    BY <2>1 DEF Pending
  <2>3. TypeOK' /\ Lists'
    BY <2>1, <2>2 DEF IInv, TypeOK, Lists, Held
  <2>4. \A e \in Event \ abandoned' : EventInv(e)'
    BY <2>1, <2>2 DEF IInv, EventInv, Held
  <2>5. \A c \in Call \ abandoned' : CallInv(c)'
    BY <2>1, <2>2 DEF IInv, CallInv, Held, Answered
  <2>6. AnswerIsDue'
    BY <2>1 DEF IInv, AnswerIsDue, RequestOf
  <2>7. Fired'
    BY <2>1 DEF IInv, Fired, HeardInOrderOnce
  <2> QED  BY <2>3, <2>4, <2>5, <2>6, <2>7 DEF IInv
<1> QED  BY <1>1, <1>2, <1>3, <1>4, <1>5, <1>6, <1>7 DEF Next

(* The invariant says of every id what RunsIffWanted says of a quiet one.  *)
LEMMA InvRuns == IInv => RunsIffWanted
<1> SUFFICES ASSUME IInv, NEW i \in Id \ abandoned
             PROVE  /\ server.disposed =>
                          i \notin server.active /\ (i \in Event => server.subscriptions[i] = 0)
                    /\ ~server.disposed /\ Quiet(i) =>
                          IF i \in Event
                          THEN server.subscriptions[i] = (IF i \in client.listening THEN 1 ELSE 0)
                          ELSE i \in server.active => client.result[i] = "pending"
  BY DEF RunsIffWanted
<1>1. Lists /\ (i \in Event => EventInv(i)) /\ (i \in Call => CallInv(i))
  BY DEF IInv
<1>2. server.disposed => ~Held(i)
  BY <1>1 DEF Lists
<1>3. server.disposed => i \notin server.active /\ (i \in Event => server.subscriptions[i] = 0)
  BY <1>1, <1>2 DEF EventInv, Held
<1>4. ASSUME ~server.disposed, Quiet(i)
      PROVE  IF i \in Event
             THEN server.subscriptions[i] = (IF i \in client.listening THEN 1 ELSE 0)
             ELSE i \in server.active => client.result[i] = "pending"
  <2>1. ~Has(client.promises, i) /\ ~Has(up, i) /\ i \notin Pending
    BY <1>4 DEF Quiet, Has
  <2>2. CASE i \in Event
    <3>1. i \notin client.current
      BY <2>1, <1>1 DEF Lists
    <3>2. i \in client.listening <=> i \in client.active
      BY <2>2, <3>1, <1>1 DEF EventInv
    <3>3. Leads(up, i, Held(i), i \in client.active)
      BY <2>2, <1>1, <1>4 DEF EventInv
    <3>4. Held(i) <=> i \in client.active
      BY <2>1, <3>3 DEF Leads
    <3>5. i \in server.active <=> i \in client.listening
      BY <2>1, <3>2, <3>4 DEF Held
    <3> QED  BY <2>2, <3>5, <1>1 DEF EventInv
  <2>3. CASE i \notin Event
    <3>1. CallInv(i)
      BY <2>3, <1>1 DEF Id
    <3>2. ~Ended(up, i)
      BY <2>1 DEF Has, Ended
    <3> QED  BY <2>3, <3>1, <3>2 DEF CallInv, Held
  <2> QED  BY <2>2, <2>3
<1> QED  BY <1>3, <1>4

(* The invariant holds always: a call is requested once and is in one      *)
(* place at a time; the requests of an event lead from what the server has *)
(* of it to what its client asked for last, also while promises are        *)
(* cancelled, requests pending and either end disposed of.                 *)
THEOREM Invariant == Spec => []IInv
<1>1. Init => IInv
  BY IInvInit
<1>2. IInv /\ [Next]_vars => IInv'
  BY IInvStep
<1> QED  BY <1>1, <1>2, PTL DEF Spec

(* The state of both ends and what is on its way keep their types: the     *)
(* subscriptions of an event are never ended more often than begun.        *)
THEOREM TypeCorrect == Spec => []TypeOK
<1>1. IInv => TypeOK
  BY DEF IInv
<1> QED  BY <1>1, Invariant, PTL

(* Once nothing about it is on its way, an event has one subscription at   *)
(* the server if it has a listener at the client and none otherwise, and a *)
(* call that runs uncancelled is waited for; a disposed server does        *)
(* nothing.  ChannelClient and ChannelServer of ipc.ts, except for what    *)
(* was given up before it began.                                           *)
THEOREM RunsWhatIsWanted == Spec => []RunsIffWanted
<1>1. IInv => RunsIffWanted
  BY InvRuns
<1> QED  BY <1>1, Invariant, PTL

(* A call with a handler is never forgotten by a server that lives: it is  *)
(* on its way, pending with its timer, running, or its answer is on its    *)
(* way.  collectPendingRequest and flushPendingRequests lose none.         *)
THEOREM AnswersAreDue == Spec => []AnswerIsDue
<1>1. IInv => AnswerIsDue
  BY DEF IInv
<1> QED  BY <1>1, Invariant, PTL

(* The firings of an event come to its listener in order and each once,    *)
(* however often it was listened to before.                                *)
THEOREM FiringsInOrderOnce == Spec => []HeardInOrderOnce
<1>1. IInv => HeardInOrderOnce
  BY DEF IInv, Fired
<1> QED  BY <1>1, Invariant, PTL

=============================================================================
