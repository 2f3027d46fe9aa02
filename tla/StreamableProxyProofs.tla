------------------------ MODULE StreamableProxyProofs ------------------------
(***************************************************************************)
(* The theorems about StreamableProxy, for any sessions, handlers,         *)
(* resources, channel capacities and bounds. To what ProxyHandlerProofs    *)
(* says of the handlers and CorrelationProofs of the requests and          *)
(* responses, the invariant adds SubInv: who holds the lock of a resource, *)
(* what is recorded for it and what is still queued for the backend agree. *)
(* ProxyTypeOK takes BoundInv besides: with Room, the requests sent and    *)
(* those about to be are within the bound the arrivals were admitted to.   *)
(***************************************************************************)
EXTENDS CorrelationProofs

-----------------------------------------------------------------------------
(* Subscriptions. The lock of a resource is held by the one intercepted      *)
(* request about it; an unsubscribe on its way is older than any subscribe   *)
(* that waits for its answer.                                                *)

About(q, u) == q.cut /\ q.op \in {"subscribe", "unsubscribe"} /\ q.uri = u

LockInv ==
  /\ uriLock \in [Uris -> Handlers \cup {None}]
  /\ \A u \in Uris, h \in Handlers : uriLock[u] = h <=> About(proc[h], u)

Leaving(u) == \E i \in 1..Len(messageCh) :
                messageCh[i].op = "unsubscribe" /\ messageCh[i].uri = u

(* The backend granted the subscribe of h, and h is about to learn of it. *)
Granted(h) ==
  \/ chan[h] # <<>> /\ chan[h][1].ok
  \/ \E i \in 1..Len(responseCh) : responseCh[i].n = proc[h].n /\ responseCh[i].ok

Subscribes(h, u) ==
  /\ proc[h].cut /\ proc[h].op = "subscribe" /\ proc[h].uri = u
  /\ proc[h].pc = "record" \/ (proc[h].pc = "wait" /\ Granted(h))

Counts(u) == subs[u] # {} \/ \E h \in Handlers : Subscribes(h, u)

Counted == \A u \in Uris \ bypassed : Counts(u) => u \in subscribed /\ ~Leaving(u)

Unsubscribes(q) == q.cut /\ q.op = "unsubscribe" /\ q.pc \in {"send", "wait"}

Emptied == \A h \in Handlers : Unsubscribes(proc[h]) => subs[proc[h].uri] = {}

Sorted ==
  /\ \A i, j \in 1..Len(messageCh) : i < j => messageCh[i].n < messageCh[j].n
  /\ \A i \in 1..Len(messageCh) : messageCh[i].n <= sent
  /\ \A i \in 1..Len(responseCh) : responseCh[i].n <= sent

Origin ==
  \A h \in Handlers, i \in 1..Len(messageCh) :
    proc[h].pc = "wait" /\ messageCh[i].n = proc[h].n =>
      messageCh[i].op = proc[h].op /\ messageCh[i].uri = proc[h].uri

Behind ==
  \A h \in Handlers, i \in 1..Len(messageCh) :
    /\ proc[h].pc = "wait" /\ proc[h].cut /\ proc[h].op = "subscribe"
    /\ proc[h].uri \notin bypassed
    /\ messageCh[i].op = "unsubscribe" /\ messageCh[i].uri = proc[h].uri
    => messageCh[i].n < proc[h].n

QueueInv == Sorted /\ Origin /\ Behind

SubInv == LockInv /\ Counted /\ Emptied /\ QueueInv

(* Locks *)
LEMMA LockRests ==
  ASSUME LockInv, uriLock' = uriLock,
         \A g \in Handlers : \/ proc'[g] = proc[g]
                             \/ ~proc[g].cut /\ ~proc'[g].cut
                             \/ /\ proc'[g].cut = proc[g].cut /\ proc'[g].op = proc[g].op
                                /\ proc'[g].uri = proc[g].uri
                             \/ /\ proc[g].op \notin {"subscribe", "unsubscribe"}
                                /\ proc'[g].op \notin {"subscribe", "unsubscribe"}
  PROVE  LockInv'
<1>1. \A g \in Handlers, u \in Uris : About(proc'[g], u) <=> About(proc[g], u)
  BY DEF About
<1> QED BY <1>1 DEF LockInv

LEMMA UnlockKeeps ==
  ASSUME LockInv, NEW h \in Handlers, unlock(h), ~proc'[h].cut,
         \A g \in Handlers : \/ g = h \/ proc'[g] = proc[g]
                             \/ /\ proc[g].op \notin {"subscribe", "unsubscribe"}
                                /\ proc'[g].op \notin {"subscribe", "unsubscribe"}
  PROVE  LockInv'
<1>1. /\ uriLock \in [Uris -> Handlers \cup {None}]
      /\ \A u \in Uris, g \in Handlers : uriLock[u] = g <=> About(proc[g], u)
      /\ uriLock' = [u \in Uris |-> IF uriLock[u] = h THEN None ELSE uriLock[u]]
  BY DEF LockInv, unlock
<1>2. uriLock' \in [Uris -> Handlers \cup {None}] BY <1>1
<1>3. ASSUME NEW u \in Uris, NEW g \in Handlers PROVE uriLock'[u] = g <=> About(proc'[g], u)
  <2>0. g # None /\ uriLock'[u] = (IF uriLock[u] = h THEN None ELSE uriLock[u])
    BY <1>1, ProxyConstants
  <2>1. CASE g = h
    <3>1. ~About(proc'[g], u) BY <2>1 DEF About
    <3> QED BY <2>0, <2>1, <3>1
  <2>2. CASE g # h
    <3>1. About(proc'[g], u) <=> About(proc[g], u) BY <2>2 DEF About
    <3>2. uriLock[u] = g <=> About(proc[g], u) BY <1>1
    <3> QED BY <2>0, <2>2, <3>1, <3>2
  <2> QED BY <2>1, <2>2
<1> QED BY <1>2, <1>3 DEF LockInv

LEMMA LockKeeps ==
  ASSUME HandlerInv, LockInv, NEW h \in Handlers, lockUri(h)
  PROVE  LockInv'
<1>0. /\ ProcType /\ proc[h] \in Recs /\ ShapeOf(proc[h]) /\ At(h, "lock") /\ ~proc[h].cut
      /\ proc[h].op \in {"subscribe", "unsubscribe"} /\ proc[h].uri \in Uris
      /\ uriLock[proc[h].uri] = None
  BY DEF lockUri, At, HandlerInv, Shape, ShapeOf, ProcType
<1>1. CASE goto(h, "send")
  <2>1. uriLock' = uriLock
    <3>1. \/ uriLock' = uriLock
          \/ proc' = [proc EXCEPT ![h].cut = TRUE,
                        ![h].pc = IF proc[h].op = "subscribe" THEN "peek" ELSE "remove"]
      BY Zenon DEF lockUri
    <3>2. proc'[h].pc = "send" BY Zenon, <1>0, <1>1, GotoMoves DEF Pcs
    <3> QED BY <1>0, <3>1, <3>2 DEF ProcType, Recs
  <2>2. /\ proc'[h].op = proc[h].op /\ proc'[h].cut = proc[h].cut /\ proc'[h].uri = proc[h].uri
        /\ \A g \in Handlers : g # h => proc'[g] = proc[g]
    BY Zenon, <1>0, <1>1, GotoMoves DEF Pcs
  <2> QED BY <2>1, <2>2, LockRests
<1>2. CASE ~goto(h, "send")
  <2>1. PICK w \in {"peek", "remove"} :
          /\ uriLock' = [uriLock EXCEPT ![proc[h].uri] = h]
          /\ proc' = [proc EXCEPT ![h].cut = TRUE, ![h].pc = w]
    BY Zenon, <1>2 DEF lockUri
  <2>2. /\ proc'[h].cut /\ proc'[h].op = proc[h].op /\ proc'[h].uri = proc[h].uri
        /\ \A g \in Handlers : g # h => proc'[g] = proc[g]
    BY <1>0, <2>1 DEF ProcType, Recs
  <2>3. uriLock' \in [Uris -> Handlers \cup {None}] BY <1>0, <2>1 DEF LockInv
  <2>4. ASSUME NEW u \in Uris, NEW g \in Handlers PROVE uriLock'[u] = g <=> About(proc'[g], u)
    <3>0. g # None /\ (uriLock[u] = g <=> About(proc[g], u)) BY ProxyConstants DEF LockInv
    <3>1. uriLock'[u] = (IF u = proc[h].uri THEN h ELSE uriLock[u])
      BY <1>0, <2>1 DEF LockInv
    <3>2. CASE g = h
      <4>1. About(proc'[g], u) <=> proc[h].uri = u BY <1>0, <2>2, <3>2 DEF About
      <4>2. ~About(proc[g], u) BY <1>0, <3>2 DEF About
      <4> QED BY <3>0, <3>1, <3>2, <4>1, <4>2
    <3>3. CASE g # h
      <4>1. proc'[g] = proc[g] BY <2>2, <3>3
      <4> QED BY <1>0, <3>0, <3>1, <3>3, <4>1
    <3> QED BY <3>2, <3>3
  <2> QED BY <2>3, <2>4 DEF LockInv
<1> QED BY <1>1, <1>2

(* A step that carries nothing: whoever comes to count did before. *)
LEMMA CountedKeeps ==
  ASSUME Counted, Emptied, QueueInv,
         UNCHANGED <<sent, messageCh, responseCh, subscribed, bypassed>>,
         \A g \in Handlers : chan'[g] = chan[g] \/ chan'[g] = <<>>,
         \A u \in Uris : subs'[u] # {} => Counts(u),
         \A g \in Handlers : Unsubscribes(proc'[g]) => subs'[proc'[g].uri] = {},
         \A g \in Handlers : \/ proc'[g] = proc[g]
                             \/ proc'[g].pc \notin {"record", "wait"}
                             \/ proc'[g].pc = "record" /\ Counts(proc'[g].uri)
  PROVE  (Counted /\ Emptied /\ QueueInv)'
<1>1. Emptied' BY DEF Emptied
<1>2. QueueInv'
  <2>1. \A g \in Handlers : proc'[g].pc = "wait" => proc'[g] = proc[g] OBVIOUS
  <2>2. Sorted' BY DEF QueueInv, Sorted
  <2>3. Origin' BY <2>1 DEF QueueInv, Origin
  <2>4. Behind' BY <2>1 DEF QueueInv, Behind
  <2> QED BY <2>2, <2>3, <2>4 DEF QueueInv
<1>3. ASSUME NEW u \in Uris, Counts(u)' PROVE Counts(u)
  <2>1. CASE subs'[u] # {} BY <2>1
  <2>2. ASSUME NEW h \in Handlers, Subscribes(h, u)' PROVE Counts(u)
    <3>0. /\ proc'[h].cut /\ proc'[h].op = "subscribe" /\ proc'[h].uri = u
          /\ proc'[h].pc = "record" \/ (proc'[h].pc = "wait" /\ Granted(h)')
      BY <2>2 DEF Subscribes
    <3>1. CASE proc'[h] = proc[h]
      <4>1. Granted(h)' => Granted(h) BY <3>1 DEF Granted
      <4>2. Subscribes(h, u) BY <3>0, <3>1, <4>1 DEF Subscribes
      <4> QED BY <4>2 DEF Counts
    <3>2. CASE proc'[h] # proc[h] BY <3>0, <3>2
    <3> QED BY <3>1, <3>2
  <2> QED BY <1>3, <2>1, <2>2 DEF Counts
<1>4. Counted'
  <2> SUFFICES ASSUME NEW u \in Uris \ bypassed, Counts(u)'
               PROVE  u \in subscribed /\ ~Leaving(u)'
    BY DEF Counted
  <2>1. u \in subscribed /\ ~Leaving(u) BY <1>3 DEF Counted
  <2> QED BY <2>1 DEF Leaving
<1> QED BY <1>1, <1>2, <1>4

(* Steps of handlers, by what they do to one handler. *)
LEMMA OneCounts ==
  ASSUME LockInv, Counted, Emptied, QueueInv, NEW h \in Handlers,
         UNCHANGED <<sent, messageCh, responseCh, subscribed, bypassed>>,
         \A g \in Handlers : chan'[g] = chan[g] \/ chan'[g] = <<>>,
         \A u \in Uris : subs'[u] \subseteq subs[u],
         \A g \in Handlers : proc[g].op = "unsubscribe" => proc[g].uri \in Uris,
         \A g \in Handlers : g # h => proc'[g] = proc[g] \/ proc'[g].pc = "idle",
         \/ proc'[h].pc \notin {"record", "wait", "send"}
         \/ proc'[h].pc = "send" /\ ~Unsubscribes(proc'[h])
         \/ proc'[h].pc = "send" /\ subs'[proc'[h].uri] = {}
         \/ proc'[h].pc = "record" /\ Counts(proc'[h].uri)
  PROVE  (Counted /\ Emptied /\ QueueInv)'
<1>1. \A u \in Uris : subs'[u] # {} => Counts(u) BY DEF Counts
<1>2. ASSUME NEW g \in Handlers, Unsubscribes(proc'[g]) PROVE subs'[proc'[g].uri] = {}
  <2>1. CASE g = h BY <1>2, <2>1 DEF Unsubscribes
  <2>2. CASE g # h
    <3>1. proc'[g] = proc[g] /\ proc[g].op = "unsubscribe" BY <1>2, <2>2 DEF Unsubscribes
    <3>2. subs[proc[g].uri] = {} /\ proc[g].uri \in Uris BY <1>2, <3>1 DEF Emptied
    <3> QED BY <3>1, <3>2
  <2> QED BY <2>1, <2>2
<1>3. ASSUME NEW g \in Handlers
      PROVE  \/ proc'[g] = proc[g]
             \/ proc'[g].pc \notin {"record", "wait"}
             \/ proc'[g].pc = "record" /\ Counts(proc'[g].uri)
  <2>1. CASE g = h BY <2>1
  <2>2. CASE g # h BY <2>2
  <2> QED BY <2>1, <2>2
<1> QED BY <1>1, <1>2, <1>3, CountedKeeps

LEMMA SubSends ==
  ASSUME HandlerInv, RouteInv, PipeInv, SubInv, NEW h \in Handlers, sendRequest(h)
  PROVE  SubInv'
<1> DEFINE m == [n |-> sent + 1, key |-> compositeKey(proc[h].sess),
                 op |-> proc[h].op, uri |-> proc[h].uri]
<1>0. /\ PipeTypes /\ sent \in Nat /\ used \in [Sessions -> Nat]
      /\ messageCh \in Seq(Msgs) /\ Len(messageCh) \in Nat
  BY SeqBasics DEF PipeInv, PipeTypes
<1>1. /\ proc[h].pc = "send" /\ proc'[h].pc = "wait" /\ proc'[h].n = sent + 1
      /\ proc'[h].op = proc[h].op /\ proc'[h].cut = proc[h].cut
      /\ \A g \in Handlers : g # h => proc'[g] = proc[g]
      /\ uriLock' = uriLock /\ subs' = subs
  BY <1>0, SendKeeps DEF routeVars
<1>u. proc'[h].uri = proc[h].uri
  BY DEF sendRequest, HandlerInv, ProcType, Recs
<1>2. /\ sent' = sent + 1 /\ chan' = [chan EXCEPT ![h] = <<>>]
      /\ messageCh' = Append(messageCh, m) /\ responseCh' = responseCh
      /\ subscribed' = subscribed
      /\ bypassed' = IF proc[h].op = "unsubscribe" /\ ~proc[h].cut
                     THEN bypassed \cup {proc[h].uri} ELSE bypassed
  BY DEF sendRequest, sendCorrelatedRequest, noteSent
<1>3. chan[h] = <<>> /\ chan' = chan BY <1>1, <1>2 DEF PipeInv, Inbox, PipeTypes
<1>m. m.n = sent + 1 /\ m.op = proc[h].op /\ m.uri = proc[h].uri OBVIOUS
<1>mm. m \in Msgs
  <2>1. /\ proc[h].sess \in Sessions \cup {NoSession} /\ proc[h].op \in Ops
        /\ proc[h].uri \in Uris \cup {None}
    BY <1>1 DEF HandlerInv, ProcType, Recs, Shape, ShapeOf
  <2> QED BY <1>0, <2>1, KeyType DEF Msgs
<1> HIDE DEF m
<1>4. /\ Len(messageCh') = Len(messageCh) + 1
      /\ \A i \in 1..Len(messageCh) : messageCh'[i] = messageCh[i]
      /\ messageCh'[Len(messageCh) + 1] = m
  BY <1>0, <1>2, <1>mm, SeqAppend
<1>5. ASSUME NEW i \in 1..Len(messageCh')
      PROVE  \/ i \in 1..Len(messageCh) /\ messageCh'[i] = messageCh[i]
             \/ i = Len(messageCh) + 1 /\ messageCh'[i] = m
  BY <1>0, <1>4
<1>6. LockInv' BY <1>1, <1>u, LockRests DEF SubInv
<1>7. Emptied'
  <2> SUFFICES ASSUME NEW g \in Handlers, Unsubscribes(proc'[g]) PROVE subs[proc'[g].uri] = {}
    BY <1>1 DEF Emptied
  <2>1. CASE g = h
    <3>1. Unsubscribes(proc[h]) BY <1>1, <2>1 DEF Unsubscribes
    <3> QED BY <1>u, <2>1, <3>1 DEF SubInv, Emptied
  <2>2. CASE g # h BY <1>1, <2>2 DEF SubInv, Emptied
  <2> QED BY <2>1, <2>2
<1>n. \A i \in 1..Len(messageCh) : messageCh[i].n \in Nat /\ messageCh[i].n <= sent
  <2> TAKE i \in 1..Len(messageCh)
  <2>1. messageCh[i] \in Msgs BY <1>0, SeqBasics
  <2>2. messageCh[i].n \in Nat BY <2>1 DEF Msgs
  <2>3. messageCh[i].n <= sent BY DEF SubInv, QueueInv, Sorted
  <2> QED BY <2>2, <2>3
<1>8. Sorted'
  <2>1. ASSUME NEW i \in 1..Len(messageCh'), NEW j \in 1..Len(messageCh'), i < j
        PROVE  messageCh'[i].n < messageCh'[j].n
    <3>1. i \in 1..Len(messageCh) /\ messageCh'[i] = messageCh[i] BY <1>0, <1>4, <1>5, <2>1
    <3>2. CASE j = Len(messageCh) + 1 BY <1>0, <1>4, <1>m, <1>n, <3>1, <3>2
    <3>3. CASE j \in 1..Len(messageCh)
      BY Zenon, <1>4, <2>1, <3>1, <3>3 DEF SubInv, QueueInv, Sorted
    <3> QED BY <1>5, <3>2, <3>3
  <2>2. ASSUME NEW i \in 1..Len(messageCh') PROVE messageCh'[i].n <= sent'
    BY <1>0, <1>2, <1>5, <1>m, <1>n
  <2>3. ASSUME NEW i \in 1..Len(responseCh') PROVE responseCh'[i].n <= sent'
    <3>1. responseCh[i] \in Resps /\ responseCh[i].n <= sent
      BY <1>2, SeqBasics DEF SubInv, QueueInv, Sorted, PipeInv, PipeTypes
    <3> QED BY <1>0, <1>2, <3>1 DEF Resps
  <2> QED BY <2>1, <2>2, <2>3 DEF Sorted
<1>w. ASSUME NEW g \in Handlers, proc'[g].pc = "wait", g # h
      PROVE  proc'[g] = proc[g] /\ proc[g].pc = "wait" /\ proc[g].n \in 1..sent
  BY <1>1, <1>w DEF PipeInv, Waiting
<1>9. Origin'
  <2> SUFFICES ASSUME NEW g \in Handlers, NEW i \in 1..Len(messageCh'), proc'[g].pc = "wait",
                      messageCh'[i].n = proc'[g].n
               PROVE  messageCh'[i].op = proc'[g].op /\ messageCh'[i].uri = proc'[g].uri
    BY DEF Origin
  <2>1. CASE g = h
    <3>1. i \notin 1..Len(messageCh) BY <1>0, <1>1, <1>4, <1>n, <2>1
    <3> QED BY Zenon, <1>1, <1>5, <1>m, <1>u, <2>1, <3>1
  <2>2. CASE g # h
    <3>1. proc'[g] = proc[g] /\ proc[g].pc = "wait" /\ proc[g].n \in 1..sent BY <1>w, <2>2
    <3>2. i \in 1..Len(messageCh) /\ messageCh'[i] = messageCh[i] BY <1>0, <1>5, <1>m, <3>1
    <3> QED BY <3>1, <3>2 DEF SubInv, QueueInv, Origin
  <2> QED BY <2>1, <2>2
<1>b. bypassed \subseteq bypassed' BY <1>2
<1>l. ASSUME NEW g \in Handlers, g # h, proc[g].cut, proc[g].op = "subscribe",
             proc[h].op = "unsubscribe", proc[g].uri = proc[h].uri
      PROVE  ~proc[h].cut
  <2>1. proc[h].uri \in Uris BY <1>l DEF HandlerInv, Shape, ShapeOf
  <2>2. uriLock[proc[h].uri] = g BY <1>l, <2>1 DEF SubInv, LockInv, About
  <2> QED BY Zenon, <1>l, <2>1, <2>2 DEF SubInv, LockInv, About
<1>10. Behind'
  <2> SUFFICES ASSUME NEW g \in Handlers, NEW i \in 1..Len(messageCh'), proc'[g].pc = "wait",
                      proc'[g].cut, proc'[g].op = "subscribe", proc'[g].uri \notin bypassed',
                      messageCh'[i].op = "unsubscribe", messageCh'[i].uri = proc'[g].uri
               PROVE  messageCh'[i].n < proc'[g].n
    BY DEF Behind
  <2>1. CASE g = h
    <3>1. i \in 1..Len(messageCh) /\ messageCh'[i] = messageCh[i] BY Zenon, <1>1, <1>5, <1>m, <2>1
    <3> QED BY <1>0, <1>1, <1>n, <2>1, <3>1
  <2>2. CASE g # h
    <3>1. proc'[g] = proc[g] /\ proc[g].pc = "wait" BY Zenon, <1>w, <2>2
    <3>2. i \in 1..Len(messageCh) /\ messageCh'[i] = messageCh[i]
      <4>1. CASE i = Len(messageCh) + 1
        <5>1. proc[h].op = "unsubscribe" /\ proc[g].uri = proc[h].uri BY Zenon, <1>4, <1>m, <3>1, <4>1
        <5>2. ~proc[h].cut BY <1>l, <2>2, <3>1, <5>1
        <5> QED BY Zenon, <1>2, <3>1, <5>1, <5>2
      <4> QED BY <1>5, <4>1
    <3> QED BY Zenon, <1>b, <3>1, <3>2 DEF SubInv, QueueInv, Behind
  <2> QED BY Zenon, <2>1, <2>2
<1>11. Counted'
  <2> SUFFICES ASSUME NEW u \in Uris, u \notin bypassed', Counts(u)'
               PROVE  u \in subscribed /\ ~Leaving(u)'
    BY <1>2 DEF Counted
  <2>1. subs[u] # {} \/ \E g \in Handlers : g # h /\ Subscribes(g, u)
    <3>1. ASSUME NEW g \in Handlers, Subscribes(g, u)' PROVE g # h /\ Subscribes(g, u)
      <4>0. /\ proc'[g].cut /\ proc'[g].op = "subscribe" /\ proc'[g].uri = u
            /\ proc'[g].pc = "record" \/ (proc'[g].pc = "wait" /\ Granted(g)')
        BY <3>1 DEF Subscribes
      <4>1. g # h
        <5> SUFFICES ASSUME g = h PROVE FALSE OBVIOUS
        <5>1. Granted(g)' BY <1>1, <4>0
        <5>2. PICK i \in 1..Len(responseCh) : responseCh[i].n = sent + 1
          BY Zenon, <1>1, <1>2, <1>3, <5>1 DEF Granted
        <5>3. responseCh[i].n <= sent BY Zenon DEF SubInv, QueueInv, Sorted
        <5> QED BY <1>0, <5>2, <5>3
      <4>2. proc'[g] = proc[g] BY Zenon, <1>1, <4>1
      <4>3. Granted(g)' => Granted(g) BY Zenon, <1>2, <1>3, <4>2 DEF Granted
      <4> QED BY <4>0, <4>1, <4>2, <4>3 DEF Subscribes
    <3>2. subs'[u] # {} => subs[u] # {} BY <1>1
    <3>3. subs'[u] # {} \/ \E g \in Handlers : Subscribes(g, u)' BY DEF Counts
    <3> QED BY Zenon, <3>1, <3>2, <3>3
  <2>2. u \in subscribed /\ ~Leaving(u) BY <1>b, <2>1 DEF SubInv, Counted, Counts
  <2>3. ~(m.op = "unsubscribe" /\ m.uri = u)
    <3> SUFFICES ASSUME proc[h].op = "unsubscribe", proc[h].uri = u PROVE FALSE BY <1>m
    <3>1. proc[h].cut BY Zenon, <1>2
    <3>2. subs[u] = {} BY <1>1, <3>1 DEF SubInv, Emptied, Unsubscribes
    <3>3. PICK g \in Handlers : g # h /\ Subscribes(g, u) BY Zenon, <2>1, <3>2
    <3> QED BY <1>l, <3>1, <3>3 DEF Subscribes
  <2> QED BY <1>5, <2>2, <2>3 DEF Leaving
<1> QED BY <1>6, <1>7, <1>8, <1>9, <1>10, <1>11 DEF SubInv, QueueInv

(* A message leaves the channel, its order kept. *)
LEMMA QueueShrinks ==
  ASSUME QueueInv, UNCHANGED <<proc, sent, bypassed>>,
         \A j \in 1..Len(messageCh') :
           \E l \in 1..Len(messageCh) : messageCh'[j] = messageCh[l],
         \A i, j \in 1..Len(messageCh') : i < j => messageCh'[i].n < messageCh'[j].n,
         \A i \in 1..Len(responseCh') : responseCh'[i].n <= sent
  PROVE  QueueInv'
<1>1. Sorted'
  <2>1. ASSUME NEW i \in 1..Len(messageCh') PROVE messageCh'[i].n <= sent
    BY Zenon DEF QueueInv, Sorted
  <2> QED BY <2>1 DEF Sorted
<1>2. Origin'
  <2> SUFFICES ASSUME NEW g \in Handlers, NEW i \in 1..Len(messageCh'), proc[g].pc = "wait",
                      messageCh'[i].n = proc[g].n
               PROVE  messageCh'[i].op = proc[g].op /\ messageCh'[i].uri = proc[g].uri
    BY DEF Origin
  <2>1. PICK l \in 1..Len(messageCh) : messageCh'[i] = messageCh[l] OBVIOUS
  <2> QED BY <2>1 DEF QueueInv, Origin
<1>3. Behind'
  <2> SUFFICES ASSUME NEW g \in Handlers, NEW i \in 1..Len(messageCh'), proc[g].pc = "wait",
                      proc[g].cut, proc[g].op = "subscribe", proc[g].uri \notin bypassed,
                      messageCh'[i].op = "unsubscribe", messageCh'[i].uri = proc[g].uri
               PROVE  messageCh'[i].n < proc[g].n
    BY DEF Behind
  <2>1. PICK l \in 1..Len(messageCh) : messageCh'[i] = messageCh[l] OBVIOUS
  <2> QED BY <2>1 DEF QueueInv, Behind
<1> QED BY <1>1, <1>2, <1>3 DEF QueueInv

LEMMA LockEmptyRest ==
  ASSUME LockInv, Emptied, UNCHANGED <<proc, uriLock, subs>>
  PROVE  LockInv' /\ Emptied'
BY DEF LockInv, Emptied

LEMMA SubLost ==
  ASSUME PipeInv, SubInv, backendStep, messageLost
  PROVE  SubInv'
<1>0. /\ UNCHANGED <<proc, sent, bypassed, uriLock, subs, chan, responseCh, subscribed>>
      /\ messageCh' = Tail(messageCh) /\ messageCh # <<>>
      /\ messageCh \in Seq(Msgs)
  BY DEF backendStep, messageLost, outside, routeVars, history, PipeInv, PipeTypes
<1>1. /\ Len(messageCh) \in Nat /\ Len(messageCh') = Len(messageCh) - 1
      /\ \A j \in 1..Len(messageCh') : messageCh'[j] = messageCh[j + 1]
  BY <1>0, SeqTail, SeqBasics
<1>2. \A j \in 1..Len(messageCh') : j + 1 \in 1..Len(messageCh) BY <1>1
<1>3. \A j \in 1..Len(messageCh') :
        \E l \in 1..Len(messageCh) : messageCh'[j] = messageCh[l]
  BY <1>1, <1>2
<1>4. ASSUME NEW i \in 1..Len(messageCh'), NEW j \in 1..Len(messageCh'), i < j
      PROVE  messageCh'[i].n < messageCh'[j].n
  <2>1. messageCh[i + 1].n < messageCh[j + 1].n
    BY <1>1, <1>2, <1>4 DEF SubInv, QueueInv, Sorted
  <2> QED BY Zenon, <1>1, <2>1
<1>5. QueueInv'
  <2>1. \A i \in 1..Len(responseCh') : responseCh'[i].n <= sent
    BY <1>0 DEF SubInv, QueueInv, Sorted
  <2> QED BY Zenon, <1>0, <1>3, <1>4, <2>1, QueueShrinks DEF SubInv
<1>6. Counted'
  <2> SUFFICES ASSUME NEW u \in Uris \ bypassed, Counts(u)'
               PROVE  u \in subscribed /\ ~Leaving(u)'
    BY Zenon, <1>0 DEF Counted
  <2>1. Counts(u) BY <1>0 DEF Counts, Subscribes, Granted
  <2>2. u \in subscribed /\ ~Leaving(u) BY <2>1 DEF SubInv, Counted
  <2> QED BY Zenon, <1>3, <2>2 DEF Leaving
<1> QED BY Zenon, <1>0, <1>5, <1>6, LockEmptyRest DEF SubInv

LEMMA SubAnswered ==
  ASSUME PipeInv, SubInv, backendStep, NEW i \in 1..MessageCap, NEW ok \in BOOLEAN,
         backendAnswers(i, ok)
  PROVE  SubInv'
<1> DEFINE m == messageCh[i]
           r == [n |-> m.n, key |-> m.key, ok |-> ok]
<1>0. /\ UNCHANGED <<proc, sent, bypassed, uriLock, subs, chan>>
      /\ messageCh' = Without(messageCh, i)
      /\ i \in DOMAIN messageCh /\ (i = 1 \/ m.op = "call")
      /\ responseCh' = IF Len(responseCh) < ResponseCap
                       THEN Append(responseCh, r) ELSE responseCh
      /\ subscribed' = CASE m.op = "subscribe" /\ ok   -> subscribed \cup {m.uri}
                         [] m.op = "unsubscribe" /\ ok -> subscribed \ {m.uri}
                         [] OTHER                      -> subscribed
      /\ messageCh \in Seq(Msgs) /\ responseCh \in Seq(Resps)
  BY DEF backendStep, backendAnswers, outside, routeVars, history, PipeInv, PipeTypes
<1>1. Len(messageCh) \in Nat /\ i \in 1..Len(messageCh) /\ Len(responseCh) \in Nat
  BY <1>0, SeqBasics
<1>2. /\ Len(messageCh') = Len(messageCh) - 1
      /\ \A j \in 1..Len(messageCh') :
           messageCh'[j] = IF j < i THEN messageCh[j] ELSE messageCh[j + 1]
  <2>1. Without(messageCh, i) \in Seq(Msgs) BY <1>0, WithoutSeq
  <2>2. DOMAIN Without(messageCh, i) = 1..Len(Without(messageCh, i))
    BY <2>1, SeqBasics
  <2>3. Len(Without(messageCh, i)) \in Nat BY <2>1, SeqBasics
  <2>4. DOMAIN Without(messageCh, i) = 1..(Len(messageCh) - 1) BY DEF Without
  <2>5. Len(Without(messageCh, i)) = Len(messageCh) - 1 BY <1>1, <2>2, <2>3, <2>4
  <2> QED BY <1>0, <2>5 DEF Without
<1>3. m \in Msgs /\ m.n <= sent
  BY Zenon, <1>0, <1>1, SeqBasics DEF SubInv, QueueInv, Sorted
<1>r. r \in Resps /\ r.n = m.n /\ r.ok = ok BY <1>3 DEF Msgs, Resps
<1>m. m = messageCh[i] OBVIOUS
<1> HIDE DEF m, r
<1>4. \A j \in 1..Len(messageCh') :
        \E l \in 1..Len(messageCh) : messageCh'[j] = messageCh[l]
  BY <1>1, <1>2
<1>5. ASSUME NEW a \in 1..Len(messageCh'), NEW b \in 1..Len(messageCh'), a < b
      PROVE  messageCh'[a].n < messageCh'[b].n
  <2>1. PICK x \in 1..Len(messageCh), y \in 1..Len(messageCh) :
          x < y /\ messageCh'[a] = messageCh[x] /\ messageCh'[b] = messageCh[y]
    <3>1. CASE b < i
      <4>1. a \in 1..Len(messageCh) /\ b \in 1..Len(messageCh) /\ a < i
        BY <1>1, <1>2, <1>5, <3>1
      <4> QED BY Zenon, <1>2, <1>5, <3>1, <4>1
    <3>2. CASE a < i /\ ~(b < i)
      <4>1. b + 1 \in 1..Len(messageCh) /\ a \in 1..Len(messageCh) /\ a < b + 1
        BY <1>1, <1>2, <1>5, <3>2
      <4> QED BY <1>2, <3>2, <4>1
    <3>3. CASE ~(a < i)
      <4>1. b + 1 \in 1..Len(messageCh) /\ a + 1 \in 1..Len(messageCh) /\ a + 1 < b + 1
            /\ ~(b < i)
        BY <1>1, <1>2, <1>5, <3>3
      <4> QED BY Zenon, <1>2, <3>3, <4>1
    <3> QED BY Zenon, <1>1, <1>2, <1>5, <3>1, <3>2, <3>3
  <2> QED BY <2>1 DEF SubInv, QueueInv, Sorted
<1>6. ASSUME NEW j \in 1..Len(responseCh')
      PROVE  \/ j \in 1..Len(responseCh) /\ responseCh'[j] = responseCh[j]
             \/ responseCh'[j] = r
  <2>1. CASE responseCh' = responseCh BY <2>1
  <2>2. CASE responseCh' = Append(responseCh, r)
    <3>1. /\ Len(responseCh') = Len(responseCh) + 1
          /\ \A l \in 1..Len(responseCh) : responseCh'[l] = responseCh[l]
          /\ responseCh'[Len(responseCh) + 1] = r
      BY <1>0, <1>r, <2>2, SeqAppend
    <3> QED BY <1>1, <3>1
  <2> QED BY <1>0, <2>1, <2>2
<1>7. QueueInv'
  <2>1. \A j \in 1..Len(responseCh') : responseCh'[j].n <= sent
    BY <1>3, <1>6, <1>r DEF SubInv, QueueInv, Sorted
  <2> QED BY Zenon, <1>0, <1>4, <1>5, <2>1, QueueShrinks DEF SubInv
<1>8. Counted'
  <2> SUFFICES ASSUME NEW u \in Uris \ bypassed, Counts(u)'
               PROVE  u \in subscribed' /\ ~Leaving(u)'
    BY <1>0 DEF Counted
  <2>1. CASE Counts(u)
    <3>1. u \in subscribed /\ ~Leaving(u) BY <2>1 DEF SubInv, Counted
    <3>2. ~(m.op = "unsubscribe" /\ m.uri = u) BY <1>1, <1>m, <3>1 DEF Leaving
    <3>3. u \in subscribed' BY <1>0, <3>1, <3>2
    <3> QED BY Zenon, <1>4, <3>1, <3>3 DEF Leaving
  <2>2. CASE ~Counts(u)
    <3>1. PICK h \in Handlers : Subscribes(h, u)' BY <1>0, <2>2 DEF Counts
    <3>2. /\ proc[h].cut /\ proc[h].op = "subscribe" /\ proc[h].uri = u
          /\ proc[h].pc = "wait" /\ Granted(h)' /\ ~Granted(h)
      BY Zenon, <1>0, <2>2, <3>1 DEF Counts, Subscribes
    <3>3. r.n = proc[h].n /\ r.ok
      <4>1. PICK j \in 1..Len(responseCh') : responseCh'[j].n = proc[h].n /\ responseCh'[j].ok
        BY <1>0, <3>2 DEF Granted
      <4> QED BY Zenon, <1>6, <3>2, <4>1 DEF Granted
    <3>4. m.op = "subscribe" /\ m.uri = u /\ m.n = proc[h].n
      BY Zenon, <1>1, <1>m, <1>r, <3>2, <3>3 DEF SubInv, QueueInv, Origin
    <3>5. i = 1 /\ u \in subscribed' BY Zenon, <1>0, <1>r, <3>3, <3>4
    <3>6. ~Leaving(u)'
      <4> SUFFICES ASSUME NEW j \in 1..Len(messageCh'), messageCh'[j].op = "unsubscribe",
                          messageCh'[j].uri = u
                   PROVE  FALSE
        BY DEF Leaving
      <4>1. j + 1 \in 1..Len(messageCh) /\ messageCh'[j] = messageCh[j + 1] /\ i < j + 1
        BY <1>1, <1>2, <3>5
      <4>2. m.n < messageCh[j + 1].n BY Zenon, <1>1, <1>m, <4>1 DEF SubInv, QueueInv, Sorted
      <4>3. messageCh[j + 1].n < proc[h].n BY <3>2, <4>1 DEF SubInv, QueueInv, Behind
      <4>4. messageCh[j + 1] \in Msgs BY Zenon, <1>0, <4>1, SeqBasics
      <4>5. messageCh[j + 1].n \in Nat /\ m.n \in Nat BY <1>3, <4>4 DEF Msgs
      <4> QED BY <3>4, <4>2, <4>3, <4>5
    <3> QED BY <3>5, <3>6
  <2> QED BY <2>1, <2>2
<1> QED BY Zenon, <1>0, <1>7, <1>8, LockEmptyRest DEF SubInv

LEMMA SubRoutes ==
  ASSUME PipeInv, SubInv, dispatchResponses
  PROVE  SubInv'
<1>0. /\ UNCHANGED <<proc, sent, bypassed, uriLock, subs, messageCh, subscribed>>
      /\ responseCh # <<>> /\ responseCh' = Tail(responseCh)
      /\ responseCh \in Seq(Resps)
  BY DEF dispatchResponses, routeResponseToWaiter, outside, routeVars, history, PipeInv, PipeTypes
<1>1. /\ Len(responseCh) \in Nat /\ Len(responseCh) # 0
      /\ Len(responseCh') = Len(responseCh) - 1
      /\ \A j \in 1..Len(responseCh') : responseCh'[j] = responseCh[j + 1]
  BY Zenon, <1>0, SeqTail, SeqBasics, SeqEmpty
<1>2. \A j \in 1..Len(responseCh') : j + 1 \in 1..Len(responseCh) BY <1>1
<1>3. \A j \in 1..Len(responseCh') :
        \E l \in 1..Len(responseCh) : responseCh'[j] = responseCh[l]
  BY Zenon, <1>1, <1>2
<1>4. QueueInv'
  <2>1. \A j \in 1..Len(responseCh') : responseCh'[j].n <= sent
    BY Zenon, <1>3 DEF SubInv, QueueInv, Sorted
  <2> QED BY <1>0, <2>1 DEF SubInv, QueueInv, Sorted, Origin, Behind
<1>5. ASSUME NEW h \in Handlers, proc[h].pc = "wait", Granted(h)' PROVE Granted(h)
  <2>1. CASE \E j \in 1..Len(responseCh') : responseCh'[j].n = proc[h].n /\ responseCh'[j].ok
    BY <1>3, <2>1 DEF Granted
  <2>2. CASE chan'[h] # <<>> /\ chan'[h][1].ok
    <3>1. CASE chan'[h] = chan[h] BY Zenon, <2>2, <3>1 DEF Granted
    <3>2. CASE chan'[h] # chan[h]
      <4> DEFINE r == Head(responseCh)
      <4>1. chan'[h] = <<r>>
        BY <3>2 DEF dispatchResponses, routeResponseToWaiter, PipeInv, PipeTypes
      <4>2. r = responseCh[1] /\ 1 \in 1..Len(responseCh) BY <1>0, <1>1, TailSeq
      <4>3. PipeInv' BY PipeRoutes
      <4>4. chan'[h][1].n = proc[h].n BY <1>0, <2>2, <4>3 DEF PipeInv, Inbox
      <4>5. r.n = proc[h].n /\ r.ok BY <2>2, <4>1, <4>4
      <4> QED BY Zenon, <4>2, <4>5 DEF Granted
    <3> QED BY <3>1, <3>2
  <2> QED BY <1>0, <1>5, <2>1, <2>2 DEF Granted
<1>6. Counted'
  <2> SUFFICES ASSUME NEW u \in Uris \ bypassed, Counts(u)'
               PROVE  u \in subscribed /\ ~Leaving(u)'
    BY <1>0 DEF Counted
  <2>1. Counts(u) BY <1>0, <1>5 DEF Counts, Subscribes
  <2>2. u \in subscribed /\ ~Leaving(u) BY <2>1 DEF SubInv, Counted
  <2> QED BY <1>0, <2>2 DEF Leaving
<1> QED BY Zenon, <1>0, <1>4, <1>6, LockEmptyRest DEF SubInv

LEMMA GotoLocks ==
  ASSUME ProcType, LockInv, NEW h \in Handlers, NEW w \in Pcs, goto(h, w), uriLock' = uriLock
  PROVE  LockInv'
BY ZenonT(40), GotoMoves, LockRests

LEMMA DoneLocks ==
  ASSUME ProcType, LockInv, NEW h \in Handlers, done(h), uriLock' = uriLock,
         ~proc[h].cut \/ proc[h].op \notin {"subscribe", "unsubscribe"}
  PROVE  LockInv'
BY Zenon, DoneIdles, IdleType, LockRests

LEMMA DoneUnlocks ==
  ASSUME ProcType, LockInv, NEW h \in Handlers, done(h), unlock(h)
  PROVE  LockInv'
BY Zenon, DoneIdles, IdleType, UnlockKeeps

LEMMA FinishUnlocks ==
  ASSUME HandlerInv, LockInv, NEW h \in Handlers, NEW ok, finish(h, ok)
  PROVE  /\ LockInv' /\ proc'[h] = Idle /\ subs' = subs
         /\ \A g \in Handlers : proc'[g] = proc[g] \/ proc'[g] = Idle
<1>1. /\ proc'[h] = Idle
      /\ \A g \in Handlers : \/ proc'[g] = proc[g]
                             \/ proc'[g] = Idle /\ g \in Sharing(h)
  BY Zenon, FinishIdles DEF HandlerInv
<1>2. \A g \in Handlers : g \in Sharing(h) => g = h \/ proc[g].op = "initialize"
  BY DEF Sharing, At, HandlerInv, Shape, ShapeOf
<1>3. unlock(h) /\ subs' = subs BY DEF finish
<1>4. LockInv' BY Zenon, <1>1, <1>2, <1>3, IdleType, UnlockKeeps
<1> QED BY <1>1, <1>3, <1>4

(* The local steps, one by one. *)
LEMMA SubLocal ==
  ASSUME HandlerInv, RouteInv, SubInv, NEW h \in Handlers, localStep(h)
  PROVE  SubInv'
<1>0. /\ LockInv /\ Counted /\ Emptied /\ QueueInv
      /\ subs \in [Uris -> SUBSET Sessions]
      /\ \A g \in Handlers : proc[g].op = "unsubscribe" => proc[g].uri \in Uris
      /\ ProcType /\ proc[h] \in Recs /\ ShapeOf(proc[h])
  BY DEF SubInv, RouteInv, HandlerInv, Shape, ShapeOf, ProcType
<1>1. /\ HandlerInv' /\ \A g \in Handlers : g # h => proc'[g] = proc[g]
      /\ UNCHANGED <<history, pipeVars>>
  BY LocalKeeps
<1>2. /\ UNCHANGED <<sent, messageCh, responseCh, subscribed, bypassed>>
      /\ \A g \in Handlers : chan'[g] = chan[g]
  BY Zenon, <1>1 DEF history, pipeVars
<1>3. ASSUME \A u \in Uris : subs'[u] \subseteq subs[u],
             \/ proc'[h].pc \notin {"record", "wait", "send"}
             \/ proc'[h].pc = "send" /\ ~Unsubscribes(proc'[h])
             \/ proc'[h].pc = "send" /\ subs'[proc'[h].uri] = {}
             \/ proc'[h].pc = "record" /\ Counts(proc'[h].uri)
      PROVE  (Counted /\ Emptied /\ QueueInv)'
  BY Zenon, <1>0, <1>1, <1>2, <1>3, OneCounts
<1>4. CASE AddWithIDLoad(h)
  <2>1. /\ ~proc[h].cut /\ uriLock' = uriLock /\ subs' = subs
        /\ done(h) \/ goto(h, "store")
    BY <1>0, <1>4 DEF AddWithIDLoad, routeVars, ShapeOf, At
  <2>2. LockInv' BY Zenon, <1>0, <2>1, DoneLocks, GotoLocks DEF Pcs
  <2>3. proc'[h].pc \in {"idle", "store"} BY Zenon, <1>0, <2>1, DoneIdles, GotoMoves, IdleType DEF Pcs
  <2>4. (Counted /\ Emptied /\ QueueInv)' BY Zenon, <1>3, <2>1, <2>3
  <2> QED BY Zenon, <2>2, <2>4 DEF SubInv
<1>5. CASE AddWithIDStore(h)
  <2>1. uriLock' = uriLock /\ subs' = subs /\ goto(h, "intercept")
    BY Zenon, <1>5 DEF AddWithIDStore
  <2>2. LockInv' BY <1>0, <2>1, GotoLocks DEF Pcs
  <2>3. proc'[h].pc = "intercept" BY ZenonT(40), <1>0, <2>1, GotoMoves DEF Pcs
  <2>4. (Counted /\ Emptied /\ QueueInv)' BY Zenon, <1>3, <2>1, <2>3
  <2> QED BY <2>2, <2>4 DEF SubInv
<1>6. CASE lockUri(h)
  <2>1. LockInv' BY <1>0, <1>6, LockKeeps
  <2>2. subs' = subs /\ ~proc[h].cut BY <1>0, <1>6 DEF lockUri, ShapeOf, At
  <2>3. CASE goto(h, "send")
    <3>1. proc'[h].pc = "send" /\ ~proc'[h].cut BY Zenon, <1>0, <2>2, <2>3, GotoMoves DEF Pcs
    <3>2. (Counted /\ Emptied /\ QueueInv)' BY <1>3, <2>2, <3>1 DEF Unsubscribes
    <3> QED BY <2>1, <3>2 DEF SubInv
  <2>4. CASE ~goto(h, "send")
    <3>1. PICK w \in {"peek", "remove"} : proc' = [proc EXCEPT ![h].cut = TRUE, ![h].pc = w]
      BY <1>6, <2>4, Zenon DEF lockUri
    <3>2. proc'[h].pc = w BY <1>0, <3>1 DEF ProcType, Recs
    <3>3. (Counted /\ Emptied /\ QueueInv)' BY Zenon, <1>3, <2>2, <3>2
    <3> QED BY <2>1, <3>3 DEF SubInv
  <2> QED BY Zenon, <2>3, <2>4
<1>7. CASE intercept(h)
  <2>1. /\ proc[h].op \in {"initialize", "call"} /\ uriLock' = uriLock /\ subs' = subs
    BY Zenon, <1>0, <1>7 DEF intercept, routeVars, ShapeOf, At
  <2>2. proc'[h].op = proc[h].op /\ proc'[h].pc \in {"fly", "send"}
    <3>1. CASE goto(h, "send") BY Zenon, <1>0, <3>1, GotoMoves DEF Pcs
    <3>2. CASE ~goto(h, "send")
      <4>1. proc' = [proc EXCEPT ![h].cut = TRUE, ![h].pc = "fly"]
        BY <1>7, <3>2, Zenon DEF intercept
      <4> QED BY <1>0, <4>1 DEF ProcType, Recs
    <3> QED BY <3>1, <3>2
  <2>3. (Counted /\ Emptied /\ QueueInv)' BY Zenon, <1>3, <2>1, <2>2 DEF Unsubscribes
  <2>4. LockInv' BY Zenon, <1>0, <1>1, <2>1, <2>2, LockRests
  <2> QED BY <2>3, <2>4 DEF SubInv
<1>8. CASE interceptSubscribe(h)
  <2>1. PICK w \in {"record", "send"} :
          /\ goto(h, w) /\ uriLock' = uriLock /\ subs' = subs
          /\ w = "record" => subs[proc[h].uri] # {}
          /\ proc[h].op = "subscribe"
    BY <1>0, <1>8 DEF interceptSubscribe, routeVars, ShapeOf, At
  <2>2. /\ proc'[h].pc = w /\ proc'[h].uri = proc[h].uri /\ proc'[h].op = proc[h].op
        /\ w \in Pcs
    BY Zenon, <1>0, <2>1, GotoMoves DEF Pcs
  <2>3. LockInv' BY ZenonT(40), <1>0, <2>1, <2>2, GotoLocks
  <2>4. (Counted /\ Emptied /\ QueueInv)' BY Zenon, <1>3, <2>1, <2>2 DEF Unsubscribes, Counts
  <2> QED BY Zenon, <2>3, <2>4 DEF SubInv
<1>9. CASE addSubscription(h)
  <2>1. /\ proc[h].op = "subscribe" /\ proc[h].cut /\ proc[h].uri \in Uris
        /\ proc[h].pc = "record" /\ unlock(h) /\ done(h)
        /\ subs' = [subs EXCEPT ![proc[h].uri] = @ \cup {proc[h].sess}]
    BY ZenonT(40), <1>0, <1>9 DEF addSubscription, ShapeOf, At
  <2>2. LockInv' BY Zenon, <1>0, <2>1, DoneUnlocks
  <2>3. proc'[h] = Idle BY <1>0, <2>1, DoneIdles
  <2>4. ASSUME NEW u \in Uris, subs'[u] # {} PROVE Counts(u)
    <3>1. CASE u = proc[h].uri
      <4>1. Subscribes(h, u) BY Zenon, <2>1, <3>1 DEF Subscribes
      <4> QED BY <4>1 DEF Counts
    <3>2. CASE u # proc[h].uri BY Zenon, <1>0, <2>1, <2>4, <3>2 DEF Counts
    <3> QED BY Zenon, <3>1, <3>2
  <2>5. ASSUME NEW g \in Handlers, Unsubscribes(proc'[g]) PROVE subs'[proc'[g].uri] = {}
    <3>1. g # h BY <2>3, <2>5, IdleType DEF Unsubscribes
    <3>2. proc'[g] = proc[g] /\ proc[g].op = "unsubscribe" /\ proc[g].cut
      BY Zenon, <1>1, <2>5, <3>1 DEF Unsubscribes
    <3>3. proc[g].uri # proc[h].uri
      <4>1. About(proc[h], proc[h].uri) /\ About(proc[g], proc[g].uri)
        BY Zenon, <2>1, <3>2 DEF About
      <4>2. proc[g].uri = proc[h].uri => uriLock[proc[h].uri] = h /\ uriLock[proc[h].uri] = g
        BY Zenon, <1>0, <2>1, <4>1 DEF LockInv
      <4> QED BY Zenon, <3>1, <4>2
    <3>4. subs[proc[g].uri] = {} /\ proc[g].uri \in Uris BY <1>0, <2>5, <3>2 DEF Emptied
    <3> QED BY Zenon, <1>0, <2>1, <3>2, <3>3, <3>4
  <2>6. \A g \in Handlers : proc'[g] = proc[g] \/ proc'[g].pc \notin {"record", "wait"}
    BY Zenon, <1>1, <2>3, IdleType
  <2>7. (Counted /\ Emptied /\ QueueInv)' BY Zenon, <1>0, <1>2, <2>4, <2>5, <2>6, CountedKeeps
  <2> QED BY <2>2, <2>7 DEF SubInv
<1>10. CASE interceptUnsubscribe(h)
  <2>0. /\ proc[h].op = "unsubscribe" /\ proc[h].uri \in Uris
        /\ subs' = [subs EXCEPT ![proc[h].uri] = @ \ {proc[h].sess}]
    BY Zenon, <1>0, <1>10 DEF interceptUnsubscribe, ShapeOf, At
  <2>1. \A u \in Uris : subs'[u] \subseteq subs[u] BY <1>0, <2>0
  <2>2. CASE subs[proc[h].uri] = {proc[h].sess}
    <3>1. goto(h, "send") /\ uriLock' = uriLock /\ subs'[proc[h].uri] = {}
      BY Zenon, <1>0, <1>10, <2>0, <2>2 DEF interceptUnsubscribe
    <3>2. proc'[h].pc = "send" /\ proc'[h].uri = proc[h].uri BY ZenonT(40), <1>0, <3>1, GotoMoves DEF Pcs
    <3>3. LockInv' BY Zenon, <1>0, <3>1, GotoLocks DEF Pcs
    <3>4. (Counted /\ Emptied /\ QueueInv)' BY Zenon, <1>3, <2>1, <3>1, <3>2
    <3> QED BY <3>3, <3>4 DEF SubInv
  <2>3. CASE subs[proc[h].uri] # {proc[h].sess}
    <3>1. done(h) /\ unlock(h) BY <1>10, <2>3 DEF interceptUnsubscribe
    <3>2. proc'[h].pc = "idle" BY Zenon, <1>0, <3>1, DoneIdles, IdleType
    <3>3. LockInv' BY Zenon, <1>0, <3>1, DoneUnlocks
    <3>4. (Counted /\ Emptied /\ QueueInv)' BY <1>3, <2>1, <3>2
    <3> QED BY <3>3, <3>4 DEF SubInv
  <2> QED BY <2>2, <2>3
<1>11. CASE deleteSession(h) \/ purgeSession(h)
  <2>1. PICK w \in {"purge", "close"} : goto(h, w) /\ uriLock' = uriLock
    BY <1>11 DEF deleteSession, purgeSession
  <2>2. \A u \in Uris : subs'[u] \subseteq subs[u] BY <1>11 DEF deleteSession, purgeSession
  <2>3. proc'[h].pc = w /\ w \in Pcs BY Zenon, <1>0, <2>1, GotoMoves DEF Pcs
  <2>4. LockInv' BY <1>0, <2>1, <2>3, GotoLocks
  <2>5. (Counted /\ Emptied /\ QueueInv)' BY Zenon, <1>3, <2>2, <2>3
  <2> QED BY <2>4, <2>5 DEF SubInv
<1> QED BY Zenon, <1>4, <1>5, <1>6, <1>7, <1>8, <1>9, <1>10, <1>11 DEF localStep

LEMMA SubNext ==
  ASSUME HandlerInv, RouteInv, PipeInv, SubInv, [Next]_vars
  PROVE  SubInv'
<1>0. /\ LockInv /\ Counted /\ Emptied /\ QueueInv
      /\ \A u \in Uris : subs[u] \subseteq Sessions
      /\ \A g \in Handlers : proc[g].op = "unsubscribe" => proc[g].uri \in Uris
  BY DEF SubInv, RouteInv, HandlerInv, Shape, ShapeOf
<1>p. ASSUME UNCHANGED <<history, pipeVars>>
      PROVE  /\ UNCHANGED <<sent, messageCh, responseCh, subscribed, bypassed>>
             /\ \A g \in Handlers : chan'[g] = chan[g]
  BY <1>p DEF history, pipeVars
<1>1. CASE backendStep BY <1>1, SubLost, SubAnswered DEF backendStep
<1>2. CASE dispatchResponses BY <1>2, SubRoutes
<1>3. CASE quiet \/ reapClose \/ StopStreams \/ UNCHANGED vars
  <2>1. UNCHANGED <<proc, uriLock, history, pipeVars>>
    BY Zenon, <1>3 DEF quiet, Stop, StopSessions, Shutdown, reapSnapshot, reapSweep, reapEnd,
         expire, reapCheck, reapKey, reapVars, reapClose, StopStreams, vars, routeVars
  <2>2. \A u \in Uris : subs'[u] \subseteq subs[u]
    BY Zenon, <1>3 DEF quiet, Stop, StopSessions, Shutdown, reapSnapshot, reapSweep, reapEnd,
         expire, reapCheck, reapKey, reapVars, reapClose, StopStreams, vars, routeVars
  <2>3. \A u \in Uris : subs'[u] # {} => Counts(u) BY <2>2 DEF Counts
  <2>4. \A g \in Handlers : Unsubscribes(proc'[g]) => subs'[proc'[g].uri] = {}
    BY ZenonT(40), <1>0, <2>1, <2>2 DEF Emptied, Unsubscribes
  <2>5. (Counted /\ Emptied /\ QueueInv)' BY ZenonT(40), <1>0, <1>p, <2>1, <2>3, <2>4, CountedKeeps
  <2>6. LockInv' BY Zenon, <1>0, <2>1, LockRests
  <2> QED BY <2>5, <2>6 DEF SubInv
<1>4. ASSUME NEW h \in Handlers,
             \/ arrivals(h) \/ posts(h) \/ localStep(h) \/ interceptInitialize(h)
             \/ sendRequest(h) \/ sendFails(h) \/ receive(h) \/ giveUp(h)
             \/ registerStream(h) \/ leaveStream(h) \/ closeDeleted(h)
      PROVE  SubInv'
  <2>0. /\ ProcType /\ ShapeOf(proc[h]) /\ proc[h] \in Recs
    BY DEF HandlerInv, Shape, ProcType
  <2>1. CASE arrivals(h) \/ posts(h)
    <3>1. /\ UNCHANGED <<routeVars, history, pipeVars>> /\ proc[h].pc = "idle" /\ HandlerInv'
          /\ proc'[h].pc \in {"add", "intercept", "lock", "register", "delete"}
          /\ \A g \in Handlers : g # h => proc'[g] = proc[g]
      BY Zenon, <2>1, ArriveKeeps
    <3>2. uriLock' = uriLock /\ subs' = subs BY <3>1 DEF routeVars
    <3>3. (Counted /\ Emptied /\ QueueInv)' BY Zenon, <1>0, <1>p, <3>1, <3>2, OneCounts
    <3>4. ~proc[h].cut /\ ~proc'[h].cut
      BY Zenon, <2>0, <3>1 DEF HandlerInv, Shape, ShapeOf
    <3>5. LockInv' BY Zenon, <1>0, <3>1, <3>2, <3>4, LockRests
    <3> QED BY Zenon, <3>3, <3>5 DEF SubInv
  <2>2. CASE localStep(h) BY Zenon, <2>2, SubLocal
  <2>3. CASE interceptInitialize(h)
    <3>1. /\ proc[h].pc = "fly" /\ proc'[h].pc \in {"idle", "joined", "send"} /\ HandlerInv'
          /\ \A g \in Handlers : g # h => proc'[g] = proc[g]
          /\ UNCHANGED <<history, pipeVars>>
      BY <2>3, FlyKeeps
    <3>2. uriLock' = uriLock /\ subs' = subs /\ proc[h].op = "initialize"
      BY <2>0, <2>3, <3>1 DEF interceptInitialize, ShapeOf
    <3>3. proc'[h].op \in {"initialize", "idle"}
      <4>1. goto(h, "joined") \/ goto(h, "send") \/ done(h) BY <2>3, ZenonT(40) DEF interceptInitialize
      <4> QED BY Zenon, <2>0, <3>2, <4>1, GotoMoves, DoneIdles, IdleType DEF Pcs
    <3>4. (Counted /\ Emptied /\ QueueInv)'
      BY Zenon, <1>0, <1>p, <3>1, <3>2, <3>3, OneCounts DEF Unsubscribes
    <3>5. LockInv' BY Zenon, <1>0, <3>1, <3>2, <3>3, LockRests
    <3> QED BY Zenon, <3>4, <3>5 DEF SubInv
  <2>4. CASE sendRequest(h) BY <2>4, SubSends
  <2>5. ASSUME NEW ok, finish(h, ok),
               UNCHANGED <<sent, messageCh, responseCh, subscribed, bypassed>>,
               \A g \in Handlers : chan'[g] = chan[g] \/ chan'[g] = <<>>
        PROVE  SubInv'
    <3>1. /\ LockInv' /\ proc'[h] = Idle /\ subs' = subs
          /\ \A g \in Handlers : proc'[g] = proc[g] \/ proc'[g] = Idle
      BY <1>0, <2>5, FinishUnlocks
    <3>2. (Counted /\ Emptied /\ QueueInv)' BY Zenon, <1>0, <2>5, <3>1, IdleType, OneCounts
    <3> QED BY Zenon, <3>1, <3>2 DEF SubInv
  <2>6. CASE sendFails(h)
    <3>1. finish(h, FALSE) /\ UNCHANGED <<history, pipeVars>> BY Zenon, <2>6 DEF sendFails
    <3> QED BY Zenon, <1>p, <2>5, <3>1
  <2>c. ASSUME NEW key, cleanup(h, key)
        PROVE  /\ UNCHANGED <<sent, messageCh, responseCh, subscribed>>
               /\ \A g \in Handlers : chan'[g] = chan[g] \/ chan'[g] = <<>>
    BY <2>c DEF cleanup, PipeInv, PipeTypes
  <2>7. CASE giveUp(h)
    <3>1. finish(h, FALSE) /\ cleanup(h, proc[h].key) /\ bypassed' = bypassed
      BY Zenon, <2>7 DEF giveUp, noteFailure
    <3> QED BY Zenon, <2>5, <2>c, <3>1
  <2>8. CASE receive(h)
    <3>1. /\ proc[h].pc = "wait" /\ chan[h] # <<>> /\ cleanup(h, proc[h].key)
          /\ bypassed' = bypassed
      BY <2>8, ZenonT(40) DEF receive, noteFailure, At
    <3>2. CASE finish(h, chan[h][1].ok) BY Zenon, <2>5, <2>c, <3>1, <3>2
    <3>3. CASE ~finish(h, chan[h][1].ok)
      <4>1. /\ goto(h, "record") /\ UNCHANGED routeVars
            /\ proc[h].op = "subscribe" /\ proc[h].cut /\ chan[h][1].ok
        BY <2>8, <3>3, Zenon DEF receive
      <4>2. /\ proc'[h].pc = "record" /\ proc'[h].uri = proc[h].uri
            /\ \A g \in Handlers : g # h => proc'[g] = proc[g]
        BY Zenon, <2>0, <4>1, GotoMoves DEF Pcs
      <4>3. uriLock' = uriLock /\ subs' = subs BY Zenon, <4>1 DEF routeVars
      <4>4. Subscribes(h, proc[h].uri) BY <3>1, <4>1 DEF Subscribes, Granted
      <4>5. Counts(proc[h].uri) BY <4>4 DEF Counts
      <4>6. (Counted /\ Emptied /\ QueueInv)'
        BY ZenonT(40), <1>0, <2>c, <3>1, <4>2, <4>3, <4>5, OneCounts
      <4>7. LockInv' BY Zenon, <1>0, <2>0, <4>1, <4>3, GotoLocks DEF Pcs
      <4> QED BY <4>6, <4>7 DEF SubInv
    <3> QED BY <3>2, <3>3
  <2>9. CASE registerStream(h) \/ leaveStream(h) \/ closeDeleted(h)
    <3>1. /\ UNCHANGED <<routeVars, history, pipeVars>>
          /\ \A g \in Handlers : g # h => proc'[g] = proc[g]
      BY Zenon, <2>9, StreamStepKeeps
    <3>2. uriLock' = uriLock /\ subs' = subs BY <3>1 DEF routeVars
    <3>3. goto(h, "stream") \/ done(h) BY <2>9 DEF registerStream, leaveStream, closeDeleted
    <3>4. ~proc[h].cut
      BY Zenon, <2>0, <2>9 DEF registerStream, leaveStream, closeDeleted, At, ShapeOf
    <3>5. proc'[h].pc \in {"stream", "idle"}
      BY Zenon, <2>0, <3>3, GotoMoves, DoneIdles, IdleType DEF Pcs
    <3>6. LockInv' BY ZenonT(40), <1>0, <2>0, <3>2, <3>3, <3>4, GotoLocks, DoneLocks DEF Pcs
    <3>7. (Counted /\ Emptied /\ QueueInv)' BY Zenon, <1>0, <1>p, <3>1, <3>2, <3>5, OneCounts
    <3> QED BY Zenon, <3>6, <3>7 DEF SubInv
  <2> QED BY Zenon, <1>4, <2>1, <2>2, <2>3, <2>4, <2>6, <2>7, <2>8, <2>9
<1> QED BY Zenon, <1>1, <1>2, <1>3, <1>4, StepKinds

-----------------------------------------------------------------------------
(* The invariant of the whole, and the theorems *)

IInv == StreamInv /\ RouteInv /\ HandshakeInv /\ PipeInv /\ SubInv

LEMMA InitHolds ==
  ASSUME Init
  PROVE  IInv
<1>0. \A h \in Handlers : proc[h] = Idle BY DEF Init
<1>1. HandlerInv
  <2>1. ProcType BY Zenon, IdleType DEF Init, ProcType
  <2>2. present \subseteq Sessions BY ProxyConstants DEF Init
  <2>3. Shape BY Zenon, <1>0, <2>2, IdleType DEF Shape
  <2>4. LeaderInv BY <1>0, IdleType, ProxyConstants DEF Init, LeaderInv
  <2> QED BY Zenon, <2>1, <2>3, <2>4 DEF HandlerInv
<1>2. StreamInv
  <2>1. streams = [s \in Sessions |-> None] /\ stopped = {} /\ panicked = FALSE
    BY Zenon DEF Init, StreamsInit
  <2>2. RegistryIsLive
    BY <1>0, <2>1, IdleType, ProxyConstants DEF RegistryIsLive, At
  <2> QED BY Zenon, <1>1, <2>1, <2>2 DEF StreamInv, StreamsTypeOK, NoDoubleClose
<1>3. RouteInv BY Zenon DEF Init, RouteInv, Reaping
<1>4. HandshakeInv
  <2>1. leader = None /\ excused = 0 /\ handshakes = (IF cached THEN 1 ELSE 0) /\ sent = 0
    BY DEF Init, PipeInit
  <2> QED BY <2>1 DEF HandshakeInv, InTheAir
<1>5. PipeInv
  <2>1. /\ sent = 0 /\ used = [s \in Sessions |-> 0] /\ waiters = <<>>
        /\ chan = [h \in Handlers |-> <<>>] /\ messageCh = <<>> /\ responseCh = <<>>
    BY DEF Init, PipeInit
  <2>2. PipeTypes BY <2>1, SeqEmpty DEF PipeTypes
  <2>3. Carried BY <2>1 DEF Carried
  <2>4. DOMAIN waiters = {} BY <2>1
  <2>5. Waiting BY Zenon, <1>0, <2>4, IdleType DEF Waiting
  <2>6. Inbox BY Zenon, <2>1 DEF Inbox
  <2> QED BY Zenon, <2>2, <2>3, <2>5, <2>6 DEF PipeInv
<1>6. SubInv
  <2>1. /\ uriLock = [u \in Uris |-> None] /\ subs = [u \in Uris |-> {}]
        /\ messageCh = <<>> /\ responseCh = <<>> /\ chan = [h \in Handlers |-> <<>>]
    BY DEF Init, PipeInit
  <2>2. \A h \in Handlers : ~proc[h].cut /\ proc[h].pc = "idle" BY Zenon, <1>0, IdleType
  <2>3. LockInv BY Zenon, <2>1, <2>2, ProxyConstants DEF LockInv, About
  <2>4. Counted BY Zenon, <2>1, <2>2 DEF Counted, Counts, Subscribes
  <2>5. Emptied BY Zenon, <2>2 DEF Emptied, Unsubscribes
  <2>6. QueueInv BY <2>1, <2>2 DEF QueueInv, Sorted, Origin, Behind
  <2> QED BY Zenon, <2>3, <2>4, <2>5, <2>6 DEF SubInv
<1> QED BY Zenon, <1>2, <1>3, <1>4, <1>5, <1>6 DEF IInv

LEMMA NextHolds ==
  ASSUME IInv, [Next]_vars
  PROVE  IInv' /\ [R!Next]_R!rvars
<1>1. HandlerInv /\ sent \in Nat /\ used \in [Sessions -> Nat]
  BY DEF IInv, StreamInv, PipeInv, PipeTypes
<1>2. reaper.stale \subseteq Sessions BY DEF IInv, RouteInv, Reaping
<1>3. StreamInv' BY <1>1, <1>2, StreamNext DEF IInv
<1>4. RouteInv' BY <1>1, RouteNext DEF IInv
<1>5. HandshakeInv' BY <1>1, HandshakeNext DEF IInv
<1>6. PipeInv' /\ (Same \/ R!Next) BY <1>1, PipeNext DEF IInv
<1>7. Same => UNCHANGED R!rvars BY DEF Same, R!rvars
<1>8. SubInv' BY <1>1, SubNext DEF IInv
<1> QED BY Zenon, <1>3, <1>4, <1>5, <1>6, <1>7, <1>8 DEF IInv

LEMMA Invariance == Spec => []IInv
<1>1. Init => IInv BY InitHolds
<1>2. IInv /\ [Next]_vars => IInv' BY NextHolds
<1> QED BY <1>1, <1>2, PTL DEF Spec

(* No stop channel is closed twice, whoever closes streams and in whatever    *)
(* order (register, closeStream, closeAll).                                   *)
THEOREM NothingIsClosedTwice == Spec => []NoDoubleClose
<1>1. IInv => NoDoubleClose BY DEF IInv, StreamInv
<1> QED BY <1>1, Invariance, PTL

(* The registry names, for every session, the GET handler that lives          *)
(* (register, deregister, closeStream, closeAll).                             *)
THEOREM RegistryIsAlwaysLive == Spec => []RegistryIsLive
<1>1. IInv => RegistryIsLive BY DEF IInv, StreamInv
<1> QED BY <1>1, Invariance, PTL

(* The backend is sent one handshake, and one more for each that failed or    *)
(* was not shared (interceptInitialize).                                      *)
THEOREM HandshakeIsShared == Spec => []HandshakeOnce
<1>1. IInv => HandshakeOnce
  <2> SUFFICES ASSUME IInv PROVE HandshakeOnce OBVIOUS
  <2>1. HandshakeInv BY Zenon DEF IInv
  <2> QED BY <2>1 DEF HandshakeInv, HandshakeOnce
<1> QED BY <1>1, Invariance, PTL

(* A recorded subscriber is one the backend knows of, whatever was lost, late *)
(* or given up (interceptSubscribe, interceptUnsubscribe).                    *)
THEOREM RecordedIsAlwaysSubscribed == Spec => []RecordedMeansSubscribed
<1>1. IInv => RecordedMeansSubscribed
  BY DEF IInv, SubInv, Counted, Counts, RecordedMeansSubscribed
<1> QED BY <1>1, Invariance, PTL

(* The proxy implements Rendezvous: what a waiting handler gets is the reply  *)
(* to its own request, once (sendCorrelatedRequest, routeResponseToWaiter).   *)
THEOREM ResponsesReachTheirOwn == Spec => AnswersItsOwn
<1>1. Init => R!Init
  <2> SUFFICES ASSUME Init PROVE R!Init OBVIOUS
  <2>1. /\ \A h \in Handlers : proc[h] = Idle
        /\ sent = 0 /\ chan = [h \in Handlers |-> <<>>]
    BY DEF Init, PipeInit
  <2>2. asked = [h \in Handlers |-> 0] BY <2>1, IdleType DEF asked, At
  <2>3. reply = [h \in Handlers |-> 0] BY <2>1 DEF reply
  <2> QED BY Zenon, <2>1, <2>2, <2>3 DEF R!Init
<1>2. IInv /\ [Next]_vars => [R!Next]_R!rvars BY NextHolds
<1> QED BY <1>1, <1>2, Invariance, PTL DEF Spec, AnswersItsOwn, R!Spec

-----------------------------------------------------------------------------
(* Types and bounds: what the invariants above leave open *)

RestOK ==
  /\ mix \in Mixes /\ cached \in BOOLEAN /\ phase \in Phases
  /\ bypassed \subseteq Uris

LEMMA RestNext ==
  ASSUME HandlerInv, RestOK, [Next]_vars
  PROVE  RestOK'
<1>1. UNCHANGED mix /\ phase' \in {phase} \cup Phases /\ cached' \in BOOLEAN
  <2>1. CASE quiet \/ reapClose \/ StopStreams \/ backendStep \/ dispatchResponses \/ UNCHANGED vars
    BY Zenon, <2>1 DEF quiet, Stop, StopSessions, Shutdown, reapSnapshot, reapSweep, reapEnd,
         expire, reapCheck, reapKey, reapVars, reapClose, StopStreams, backendStep,
         dispatchResponses, outside, routeVars, vars, RestOK, Phases
  <2>2. ASSUME NEW h \in Handlers,
               \/ arrivals(h) \/ posts(h) \/ localStep(h) \/ interceptInitialize(h)
               \/ sendRequest(h) \/ sendFails(h) \/ receive(h) \/ giveUp(h)
               \/ registerStream(h) \/ leaveStream(h) \/ closeDeleted(h)
        PROVE  UNCHANGED <<mix, phase>> /\ cached' \in BOOLEAN
    <3>1. CASE arrivals(h) \/ posts(h) BY Zenon, <3>1, ArriveKeeps DEF routeVars, RestOK
    <3>2. CASE localStep(h)
      BY Zenon, <3>2 DEF localStep, AddWithIDLoad, AddWithIDStore, lockUri, intercept,
           interceptSubscribe, addSubscription, interceptUnsubscribe, deleteSession,
           purgeSession, routeVars, RestOK
    <3>3. CASE interceptInitialize(h) \/ sendRequest(h) \/ registerStream(h) \/ leaveStream(h)
               \/ closeDeleted(h)
      BY Zenon, <3>3 DEF interceptInitialize, sendRequest, registerStream, leaveStream,
           closeDeleted, routeVars, RestOK
    <3>4. CASE sendFails(h) \/ receive(h) \/ giveUp(h)
      BY Zenon, <3>4 DEF sendFails, receive, giveUp, finish, routeVars, RestOK
    <3> QED BY Zenon, <2>2, <3>1, <3>2, <3>3, <3>4
  <2> QED BY Zenon, <2>1, <2>2, StepKinds
<1>2. bypassed' \subseteq Uris
  <2>1. CASE UNCHANGED bypassed BY Zenon, <2>1 DEF RestOK
  <2>2. ASSUME NEW h \in Handlers, sendRequest(h) PROVE bypassed' \subseteq Uris
    <3>1. proc[h].op = "unsubscribe" => proc[h].uri \in Uris
      BY Zenon DEF HandlerInv, Shape, ShapeOf
    <3>2. \/ UNCHANGED bypassed
          \/ proc[h].op = "unsubscribe" /\ bypassed' = bypassed \cup {proc[h].uri}
      BY Zenon, <2>2 DEF sendRequest, noteSent
    <3> QED BY Zenon, <3>1, <3>2 DEF RestOK
  <2>3. ASSUME NEW h \in Handlers,
               \/ arrivals(h) \/ posts(h) \/ localStep(h) \/ interceptInitialize(h)
               \/ sendFails(h) \/ receive(h) \/ giveUp(h)
               \/ registerStream(h) \/ leaveStream(h) \/ closeDeleted(h)
        PROVE  UNCHANGED bypassed
    <3>1. CASE arrivals(h) \/ posts(h) BY Zenon, <3>1, ArriveKeeps DEF history
    <3>2. CASE localStep(h) BY Zenon, <3>2, LocalKeeps DEF history
    <3>3. CASE interceptInitialize(h) BY Zenon, <3>3, FlyKeeps DEF history
    <3>4. CASE registerStream(h) \/ leaveStream(h) \/ closeDeleted(h)
      BY Zenon, <3>4, StreamStepKeeps DEF history
    <3>5. CASE sendFails(h) \/ receive(h) \/ giveUp(h)
      BY Zenon, <3>5 DEF sendFails, receive, giveUp, noteFailure, history
    <3> QED BY Zenon, <2>3, <3>1, <3>2, <3>3, <3>4, <3>5
  <2>4. ASSUME quiet \/ reapClose \/ StopStreams \/ backendStep \/ dispatchResponses \/ UNCHANGED vars
        PROVE  UNCHANGED bypassed
    BY Zenon, <2>4, QuietKeeps DEF reapVars, reapClose, StopStreams, backendStep,
         dispatchResponses, outside, vars, history
  <2> QED BY Zenon, <2>1, <2>2, <2>3, <2>4, StepKinds
<1> QED BY <1>1, <1>2 DEF RestOK

INSTANCE FiniteSetTheorems

(* There is room for the requests under way to be sent. *)
Room == IsFiniteSet(Forwarding) /\ sent + Cardinality(Forwarding) <= MaxRequests

LEMMA Smaller ==
  ASSUME NEW S, IsFiniteSet(S), NEW T, T \subseteq S
  PROVE  /\ IsFiniteSet(T) /\ Cardinality(T) <= Cardinality(S)
         /\ Cardinality(T) \in Nat /\ Cardinality(S) \in Nat
<1>1. IsFiniteSet(T) /\ Cardinality(T) <= Cardinality(S) BY Zenon, FS_Subset
<1> QED BY Zenon, <1>1, FS_CardinalityType

LEMMA OneMore ==
  ASSUME NEW S, IsFiniteSet(S), NEW x
  PROVE  /\ IsFiniteSet(S \cup {x}) /\ Cardinality(S \cup {x}) \in Nat
         /\ Cardinality(S \cup {x}) <= Cardinality(S) + 1
<1>1. /\ IsFiniteSet(S \cup {x})
      /\ \/ Cardinality(S \cup {x}) = Cardinality(S)
         \/ Cardinality(S \cup {x}) = Cardinality(S) + 1
  BY Zenon, FS_AddElement
<1>2. Cardinality(S) \in Nat BY FS_CardinalityType
<1> QED BY <1>1, <1>2

LEMMA RoomToSend ==
  ASSUME HandlerInv, NumberInv, Room, NEW h \in Handlers, sendRequest(h)
  PROVE  h \in Forwarding /\ sent < MaxRequests
<1>1. proc[h].pc = "send" BY Zenon DEF sendRequest, At
<1>2. proc[h].op \in Ops BY Zenon, <1>1 DEF HandlerInv, Shape, ShapeOf
<1>3. proc[h].n = 0 BY Zenon, <1>1 DEF NumberInv, Numbered, Sent
<1>4. h \in Forwarding BY Zenon, <1>2, <1>3 DEF Forwarding
<1>5. Cardinality(Forwarding) # 0 BY Zenon, <1>4, FS_EmptySet DEF Room
<1>6. Cardinality(Forwarding) \in Nat BY FS_CardinalityType DEF Room
<1>7. sent \in 0..MaxRequests /\ MaxRequests \in Nat
  BY Zenon, ProxyConstants DEF NumberInv, Channels, PipeTypeOK
<1> QED BY <1>4, <1>5, <1>6, <1>7 DEF Room

LEMMA RoomNext ==
  ASSUME HandlerInv, RestOK, NumberInv, Room, [Next]_vars
  PROVE  Room'
<1> DEFINE F == Forwarding
           G == Forwarding'
<1>0. /\ IsFiniteSet(F) /\ Cardinality(F) \in Nat /\ sent + Cardinality(F) <= MaxRequests
      /\ sent \in Nat /\ MaxRequests \in Nat /\ used \in [Sessions -> Nat]
  BY FS_CardinalityType, ProxyConstants DEF Room, NumberInv, Channels, PipeTypeOK
<1>1. ASSUME sent' = sent, G \subseteq F PROVE Room'
  <2> HIDE DEF F, G
  <2>1. IsFiniteSet(G) /\ Cardinality(G) <= Cardinality(F) /\ Cardinality(G) \in Nat
    BY Zenon, <1>0, <1>1, Smaller
  <2>2. sent + Cardinality(G) <= MaxRequests BY <1>0, <2>1
  <2> QED BY Zenon, <1>1, <2>1, <2>2 DEF Room, G
<1>2. ASSUME \A g \in Handlers : Follows(proc[g], proc'[g]) PROVE G \subseteq F
  BY Zenon, <1>2, NumberedFollows DEF NumberInv, Forwarding
<1>3. CASE quiet \/ reapClose \/ StopStreams \/ backendStep \/ dispatchResponses \/ UNCHANGED vars
  <2>1. UNCHANGED <<proc, sent>>
    BY Zenon, <1>3, QuietKeeps DEF reapClose, reapVars, StopStreams, vars, pipeVars, backendStep,
         backendAnswers, messageLost, dispatchResponses, routeResponseToWaiter, outside
  <2> QED BY Zenon, <1>1, <2>1 DEF Forwarding
<1>4. ASSUME NEW h \in Handlers,
             \/ arrivals(h) \/ posts(h) \/ localStep(h) \/ interceptInitialize(h)
             \/ sendRequest(h) \/ sendFails(h) \/ receive(h) \/ giveUp(h)
             \/ registerStream(h) \/ leaveStream(h) \/ closeDeleted(h)
      PROVE  Room'
  <2>1. CASE arrivals(h) \/ posts(h)
    <3>1. /\ sent' = sent
          /\ \A g \in Handlers : g # h => proc'[g] = proc[g]
          /\ proc'[h].op \notin Ops \/ sent + Cardinality(F) < mix.requests
      BY Zenon, <2>1, ArriveKeeps, ArrivalNumbered DEF pipeVars
    <3>2. CASE proc'[h].op \notin Ops
      <4>1. G \subseteq F BY Zenon, <3>1, <3>2 DEF Forwarding
      <4> QED BY Zenon, <1>1, <3>1, <4>1
    <3>3. CASE sent + Cardinality(F) < mix.requests
      <4>1. G \subseteq F \cup {h} BY Zenon, <3>1 DEF Forwarding
      <4>2. mix.requests \in 0..MaxRequests BY Zenon, ProxyConstants DEF RestOK
      <4> HIDE DEF F, G
      <4>3. /\ IsFiniteSet(F \cup {h}) /\ Cardinality(F \cup {h}) \in Nat
            /\ Cardinality(F \cup {h}) <= Cardinality(F) + 1
        BY Zenon, <1>0, OneMore
      <4>4. /\ IsFiniteSet(G) /\ Cardinality(G) \in Nat
            /\ Cardinality(G) <= Cardinality(F \cup {h})
        BY <4>1, <4>3, Smaller
      <4>5. sent + Cardinality(G) <= MaxRequests BY <1>0, <3>3, <4>2, <4>3, <4>4
      <4> QED BY Zenon, <3>1, <4>4, <4>5 DEF Room, G
    <3> QED BY Zenon, <3>1, <3>2, <3>3
  <2>2. CASE sendRequest(h)
    <3>1. h \in F BY Zenon, <2>2, RoomToSend
    <3>2. /\ sent' = sent + 1 /\ proc'[h].n = sent + 1
          /\ \A g \in Handlers : g # h => proc'[g] = proc[g]
      BY Zenon, <1>0, <2>2, SendKeeps DEF sendRequest, sendCorrelatedRequest
    <3>3. proc'[h].n # 0 BY <1>0, <3>2
    <3>4. G \subseteq F \ {h} BY Zenon, <3>2, <3>3 DEF Forwarding
    <3> HIDE DEF F, G
    <3>5. IsFiniteSet(F \ {h}) /\ Cardinality(F \ {h}) = Cardinality(F) - 1
      BY Zenon, <1>0, <3>1, FS_RemoveElement
    <3>6. IsFiniteSet(G) /\ Cardinality(G) \in Nat /\ Cardinality(G) <= Cardinality(F \ {h})
      BY Zenon, <3>4, <3>5, Smaller
    <3>7. sent' + Cardinality(G) <= MaxRequests BY <1>0, <3>2, <3>5, <3>6
    <3> QED BY Zenon, <3>6, <3>7 DEF Room, G
  <2>3. CASE \/ localStep(h) \/ interceptInitialize(h) \/ sendFails(h) \/ receive(h) \/ giveUp(h)
             \/ registerStream(h) \/ leaveStream(h) \/ closeDeleted(h)
    <3>1. G \subseteq F BY Zenon, <1>2, <2>3, StepFollows
    <3>2. sent' = sent
      BY Zenon, <2>3, LocalKeeps, FlyKeeps, StreamStepKeeps
         DEF sendFails, receive, giveUp, cleanup, pipeVars
    <3> QED BY Zenon, <1>1, <3>1, <3>2
  <2> QED BY Zenon, <1>4, <2>1, <2>2, <2>3
<1> QED BY Zenon, <1>3, <1>4, StepKinds

BoundInv == IInv /\ RestOK /\ NumberInv /\ Room

LEMMA InitBounds ==
  ASSUME Init
  PROVE  BoundInv
<1>0. proc = [h \in Handlers |-> Idle] BY DEF Init
<1>1. IInv BY InitHolds
<1>2. RestOK BY Zenon DEF Init, RestOK, Phases
<1>3. NumberInv
  <2>1. /\ sent = 0 /\ used = [s \in Sessions |-> 0] /\ waiters = <<>>
        /\ chan = [h \in Handlers |-> <<>>] /\ messageCh = <<>> /\ responseCh = <<>>
        /\ subscribed = {}
    BY DEF Init, PipeInit
  <2>2. waiters \in [{} -> Handlers] BY <2>1
  <2>3. \E K \in SUBSET Keys : waiters \in [K -> Handlers] BY Zenon, <2>2
  <2>4. PipeTypeOK BY <2>1, <2>3, SeqEmpty, ProxyConstants DEF PipeTypeOK
  <2>5. Channels BY <2>1, <2>4 DEF Channels
  <2> QED BY Zenon, <1>0, <2>5, IdleNumbered DEF NumberInv
<1>4. Room
  <2>1. Forwarding = {} BY Zenon, <1>0, IdleNumbered DEF Forwarding
  <2>2. sent = 0 BY DEF Init, PipeInit
  <2> QED BY <2>1, <2>2, FS_EmptySet, ProxyConstants DEF Room
<1> QED BY Zenon, <1>1, <1>2, <1>3, <1>4 DEF BoundInv

LEMMA NextBounds ==
  ASSUME BoundInv, [Next]_vars
  PROVE  BoundInv'
<1>0. IInv /\ HandlerInv /\ RestOK /\ NumberInv /\ Room BY DEF BoundInv, IInv, StreamInv
<1>1. IInv' BY Zenon, <1>0, NextHolds
<1>2. RestOK' BY Zenon, <1>0, RestNext
<1>3. NumberInv' BY Zenon, <1>0, RoomToSend, NumberNext
<1>4. Room' BY Zenon, <1>0, RoomNext
<1> QED BY Zenon, <1>1, <1>2, <1>3, <1>4 DEF BoundInv

LEMMA BoundsMeanTypes ==
  ASSUME BoundInv
  PROVE  ProxyTypeOK
<1>0. IInv /\ HandlerInv /\ RestOK /\ NumberInv BY DEF BoundInv, IInv, StreamInv
<1>1. PipeTypeOK BY <1>0 DEF NumberInv, Channels
<1>2. StreamsTypeOK BY <1>0 DEF IInv, StreamInv
<1>3. present \subseteq Sessions BY Zenon, <1>0 DEF HandlerInv, Shape
<1>4. proc \in [Handlers ->
                [op : Ops \cup {"idle", "get", "delete"}, pc : Pcs,
                 sess : Sessions \cup {NoSession}, uri : Uris \cup {None},
                 cut : BOOLEAN, n : 0..MaxRequests, key : Keys \cup {<<>>}]]
  <2>1. proc \in [Handlers -> Recs] BY Zenon, <1>0 DEF HandlerInv, ProcType
  <2>2. \A h \in Handlers : proc[h].n <= MaxRequests /\ proc[h].key \in Keys \cup {<<>>}
    BY <1>0 DEF NumberInv, Numbered
  <2> QED BY <2>1, <2>2, ProxyConstants DEF Recs
<1>5. uriLock \in [Uris -> Handlers \cup {None}] BY <1>0 DEF IInv, SubInv, LockInv
<1>6. leader \in Handlers \cup {None} BY <1>0 DEF HandlerInv, LeaderInv
<1>7. /\ subs \in [Uris -> SUBSET Sessions]
      /\ reaper \in [pc : {"idle", "check", "keys", "close"}, todo : SUBSET Sessions,
                     stale : SUBSET Sessions]
  BY Zenon, <1>0 DEF IInv, RouteInv, Reaping
<1>8. handshakes \in 0..(MaxRequests + 1) /\ excused \in 0..MaxRequests
  <2>1. /\ handshakes \in Nat /\ excused \in Nat /\ handshakes <= excused + 1
        /\ excused <= sent
    BY <1>0 DEF IInv, HandshakeInv
  <2>2. sent \in 0..MaxRequests /\ MaxRequests \in Nat BY Zenon, <1>1, ProxyConstants DEF PipeTypeOK
  <2> QED BY <2>1, <2>2
<1> QED BY Zenon, <1>0, <1>1, <1>2, <1>3, <1>4, <1>5, <1>6, <1>7, <1>8 DEF ProxyTypeOK, RestOK

(* The channels never hold more than their capacity, and every number, key,   *)
(* waiter and handshake belongs to one of the requests that were accepted: a  *)
(* request is sent once, however often its handler goes back to the start of  *)
(* the handshake and whatever is lost on the way (sendCorrelatedRequest,      *)
(* interceptInitialize, routeResponseToWaiter).                               *)
THEOREM RequestsAreBounded == Spec => []ProxyTypeOK
<1>1. Init => BoundInv BY InitBounds
<1>2. BoundInv /\ [Next]_vars => BoundInv' BY NextBounds
<1>3. BoundInv => ProxyTypeOK BY BoundsMeanTypes
<1> QED BY <1>1, <1>2, <1>3, PTL DEF Spec
==============================================================================
