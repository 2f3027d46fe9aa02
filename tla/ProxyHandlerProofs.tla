-------------------------- MODULE ProxyHandlerProofs -------------------------
(***************************************************************************)
(* The handlers of StreamableProxy, for any sessions, handlers, resources, *)
(* channel capacities and bounds: what each step keeps of                  *)
(*                                                                         *)
(*   Shape         what a handler's place in its request tells of it;      *)
(*   LeaderInv     the leader is the one handler with the handshake;       *)
(*   StreamInv     RegistryIsLive, and nothing was closed twice;           *)
(*   RouteInv      the types of what the reaper and the router keep;       *)
(*   HandshakeInv  every handshake sent is excused, cached or in the air,  *)
(*                 and every excuse is for a request that was sent.        *)
(***************************************************************************)
EXTENDS StreamableProxy, TLAPS

AnyKey == ((Sessions \cup Nat) \X Nat) \cup {<<>>}

Recs == [op : Ops \cup {"idle", "get", "delete"}, pc : Pcs,
         sess : Sessions \cup {NoSession}, uri : Uris \cup {None},
         cut : BOOLEAN, n : Nat, key : AnyKey]

ProcType == proc \in [Handlers -> Recs]

ShapeOf(q) ==
  /\ q.pc \in {"idle", "add", "store", "intercept", "lock", "register", "stream",
               "delete", "purge", "close"} => ~q.cut
  /\ q.pc \in {"add", "store"} => q.op = "initialize" /\ q.sess \in Sessions
  /\ q.pc = "intercept" => q.op \in {"initialize", "call"}
  /\ q.pc = "lock" => q.op \in {"subscribe", "unsubscribe"}
  /\ q.pc \in {"peek", "record"} => q.op = "subscribe" /\ q.cut
  /\ q.pc = "remove" => q.op = "unsubscribe" /\ q.cut
  /\ q.pc \in {"fly", "joined"} => q.op = "initialize" /\ q.cut
  /\ q.pc \in {"send", "wait"} => q.op \in Ops
  /\ q.op \in {"subscribe", "unsubscribe"} => q.uri \in Uris
  /\ q.cut => q.sess \in Sessions
  /\ q.pc \in {"register", "stream", "delete", "purge", "close"} => q.sess \in Sessions

Shape == present \subseteq Sessions /\ \A h \in Handlers : ShapeOf(proc[h])

Leads(q) == q.op = "initialize" /\ q.cut /\ q.pc \in {"send", "wait"}

LeaderInv ==
  /\ leader \in Handlers \cup {None}
  /\ \A h \in Handlers : leader = h <=> Leads(proc[h])

HandlerInv == ProcType /\ Shape /\ LeaderInv

-----------------------------------------------------------------------------
(* What the building blocks of the actions do to the handlers *)

LEMMA GotoMoves ==
  ASSUME ProcType, NEW h \in Handlers, NEW w \in Pcs, goto(h, w)
  PROVE  /\ ProcType'
         /\ proc'[h] = [proc[h] EXCEPT !.pc = w]
         /\ proc'[h].pc = w /\ proc'[h].op = proc[h].op /\ proc'[h].cut = proc[h].cut
         /\ proc'[h].sess = proc[h].sess /\ proc'[h].uri = proc[h].uri
         /\ \A g \in Handlers : g # h => proc'[g] = proc[g]
BY DEF ProcType, Recs, goto

LEMMA IdleType ==
  /\ Idle \in Recs
  /\ Idle.pc = "idle" /\ Idle.op = "idle" /\ Idle.cut = FALSE
  /\ ShapeOf(Idle) /\ ~Leads(Idle)
<1>1. <<>> \in AnyKey BY DEF AnyKey
<1> QED BY <1>1 DEF Idle, Recs, Pcs, ShapeOf, Leads, Ops

LEMMA DoneIdles ==
  ASSUME ProcType, NEW h \in Handlers, done(h)
  PROVE  /\ ProcType'
         /\ proc'[h] = Idle
         /\ \A g \in Handlers : g # h => proc'[g] = proc[g]
BY IdleType DEF ProcType, done

LEMMA FinishIdles ==
  ASSUME ProcType, NEW h \in Handlers, NEW ok, finish(h, ok)
  PROVE  /\ ProcType'
         /\ proc'[h] = Idle
         /\ \A g \in Handlers : \/ proc'[g] = proc[g] /\ g \notin Sharing(h)
                                \/ proc'[g] = Idle /\ g \in Sharing(h)
BY IdleType DEF ProcType, finish, Sharing

LEMMA ArriveStarts ==
  ASSUME ProcType, NEW h \in Handlers, NEW op \in Ops \cup {"get", "delete"},
         NEW s \in Sessions \cup {NoSession}, NEW u \in Uris \cup {None}, NEW w \in Pcs,
         arrive(h, op, s, u, w)
  PROVE  /\ ProcType'
         /\ At(h, "idle")
         /\ proc'[h].op = op /\ proc'[h].sess = s /\ proc'[h].uri = u
         /\ proc'[h].pc = w /\ proc'[h].cut = FALSE
         /\ \A g \in Handlers : g # h => proc'[g] = proc[g]
         /\ UNCHANGED <<routeVars, history, pipeVars, streamVars>>
<1> DEFINE q == [Idle EXCEPT !.op = op, !.sess = s, !.uri = u, !.pc = w]
<1>1. proc' = [proc EXCEPT ![h] = q]
  BY DEF arrive
<1>2. q \in Recs /\ q.op = op /\ q.sess = s /\ q.uri = u /\ q.pc = w /\ q.cut = FALSE
  BY Zenon, IdleType DEF Recs
<1> HIDE DEF q
<1>3. proc'[h] = q /\ ProcType' /\ \A g \in Handlers : g # h => proc'[g] = proc[g]
  BY <1>1, <1>2 DEF ProcType
<1> QED BY Zenon, <1>2, <1>3 DEF arrive

-----------------------------------------------------------------------------
(* Handlers *)

LEMMA OneMoves ==
  ASSUME HandlerInv, NEW h \in Handlers, ProcType', present' \subseteq Sessions,
         \A g \in Handlers : g # h => proc'[g] = proc[g],
         ShapeOf(proc'[h]), leader' = leader, Leads(proc'[h]) <=> Leads(proc[h])
  PROVE  HandlerInv'
<1>1. Shape'
  <2> SUFFICES ASSUME NEW g \in Handlers PROVE ShapeOf(proc'[g]) BY DEF Shape
  <2>1. CASE g = h BY <2>1
  <2>2. CASE g # h BY <2>2, Zenon DEF HandlerInv, Shape
  <2> QED BY <2>1, <2>2
<1>2. LeaderInv'
  <2>1. ASSUME NEW g \in Handlers PROVE leader = g <=> Leads(proc'[g])
    <3>1. CASE g = h BY <3>1, Zenon DEF HandlerInv, LeaderInv
    <3>2. CASE g # h BY <3>2, Zenon DEF HandlerInv, LeaderInv
    <3> QED BY <3>1, <3>2
  <2> QED BY <2>1, Zenon DEF HandlerInv, LeaderInv
<1> QED BY <1>1, <1>2 DEF HandlerInv

LEMMA FinishKeeps ==
  ASSUME HandlerInv, NEW h \in Handlers, NEW ok, finish(h, ok)
  PROVE  HandlerInv'
<1>1. /\ ProcType'
      /\ \A g \in Handlers : \/ proc'[g] = proc[g] /\ g \notin Sharing(h)
                             \/ proc'[g] = Idle /\ g \in Sharing(h)
  BY FinishIdles DEF HandlerInv
<1>2. present' = present /\ leader' = (IF leader = h THEN None ELSE leader)
  BY DEF finish
<1>3. Shape'
  <2> SUFFICES ASSUME NEW g \in Handlers PROVE ShapeOf(proc'[g])
    BY <1>2 DEF Shape, HandlerInv
  <2> QED BY <1>1, IdleType, Zenon DEF HandlerInv, Shape
<1>4. LeaderInv'
  <2>1. leader' \in Handlers \cup {None} BY <1>2 DEF HandlerInv, LeaderInv
  <2>2. ASSUME NEW g \in Handlers PROVE leader' = g <=> Leads(proc'[g])
    <3>0. g # None /\ h \in Sharing(h) BY ProxyConstants DEF Sharing
    <3>1. CASE leader = h
      <4>1. leader' # g BY <1>2, <3>0, <3>1
      <4>2. g # h => ~Leads(proc[g]) BY <3>1, Zenon DEF HandlerInv, LeaderInv
      <4>3. ~Leads(proc'[g]) BY <1>1, <3>0, <4>2, IdleType, Zenon
      <4> QED BY <4>1, <4>3
    <3>2. CASE leader # h
      <4>1. leader' = leader /\ Sharing(h) = {h} BY <1>2, <3>2 DEF Sharing
      <4>2. ~Leads(proc[h]) BY <3>2, Zenon DEF HandlerInv, LeaderInv
      <4>3. CASE g = h
        BY <1>1, <3>2, <4>1, <4>3, IdleType, Zenon
      <4>4. CASE g # h
        <5>1. proc'[g] = proc[g] BY <1>1, <4>1, <4>4
        <5> QED BY <4>1, <5>1, Zenon DEF HandlerInv, LeaderInv
      <4> QED BY <4>3, <4>4
    <3> QED BY <3>1, <3>2
  <2> QED BY <2>1, <2>2, Zenon DEF LeaderInv
<1> QED BY <1>1, <1>3, <1>4 DEF HandlerInv

LEMMA ArriveKeeps ==
  ASSUME HandlerInv, NEW h \in Handlers, arrivals(h) \/ posts(h)
  PROVE  /\ HandlerInv'
         /\ proc[h].pc = "idle"
         /\ proc'[h].pc \in {"add", "intercept", "lock", "register", "delete"}
         /\ \A g \in Handlers : g # h => proc'[g] = proc[g]
         /\ UNCHANGED <<routeVars, history, pipeVars, streamVars>>
<1>1. PICK op \in Ops \cup {"get", "delete"}, s \in Sessions \cup {NoSession},
           u \in Uris \cup {None}, w \in {"add", "intercept", "lock", "register", "delete"} :
        /\ arrive(h, op, s, u, w)
        /\ w \in {"add", "register", "delete"} => s \in Sessions
        /\ w = "add" => op = "initialize"
        /\ w = "intercept" => op \in {"initialize", "call"}
        /\ w = "lock" => op \in {"subscribe", "unsubscribe"}
        /\ op \in {"subscribe", "unsubscribe"} => u \in Uris
  BY DEF arrivals, posts, Initialize, Post, Get, Delete, Ops
<1>2. w \in Pcs BY DEF Pcs
<1>3. /\ ProcType' /\ At(h, "idle")
      /\ proc'[h].op = op /\ proc'[h].sess = s /\ proc'[h].uri = u
      /\ proc'[h].pc = w /\ proc'[h].cut = FALSE
      /\ \A g \in Handlers : g # h => proc'[g] = proc[g]
      /\ UNCHANGED <<routeVars, history, pipeVars, streamVars>>
  BY Zenon, <1>1, <1>2, ArriveStarts DEF HandlerInv
<1>4. ShapeOf(proc'[h]) BY <1>1, <1>3 DEF ShapeOf
<1>5. ~Leads(proc'[h]) /\ ~Leads(proc[h]) BY <1>3 DEF Leads, At
<1>6. present' \subseteq Sessions /\ leader' = leader
  BY <1>3 DEF routeVars, HandlerInv, Shape
<1>7. HandlerInv' BY <1>3, <1>4, <1>5, <1>6, OneMoves
<1> QED BY <1>1, <1>3, <1>7 DEF At

(* The steps that leave alone streams, channels and the handshake: from one
   place to another, neither of them "wait" or "stream".                     *)
Elsewhere == {"wait", "stream"}

localStep(h) ==
  \/ AddWithIDLoad(h) \/ AddWithIDStore(h) \/ lockUri(h) \/ intercept(h)
  \/ interceptSubscribe(h) \/ addSubscription(h) \/ interceptUnsubscribe(h)
  \/ deleteSession(h) \/ purgeSession(h)

LEMMA LocalKeeps ==
  ASSUME HandlerInv, NEW h \in Handlers, localStep(h)
  PROVE  /\ HandlerInv'
         /\ proc[h].pc \notin Elsewhere /\ proc'[h].pc \notin Elsewhere
         /\ \A g \in Handlers : g # h => proc'[g] = proc[g]
         /\ UNCHANGED <<history, pipeVars, streamVars, leader, cached>>
<1> USE DEF Elsewhere
<1>0. /\ ProcType /\ present \subseteq Sessions /\ ShapeOf(proc[h]) /\ proc[h] \in Recs
  BY DEF HandlerInv, Shape, ProcType
<1>1. UNCHANGED <<history, pipeVars, streamVars, leader, cached>>
  BY DEF localStep, AddWithIDLoad, AddWithIDStore, lockUri, intercept, interceptSubscribe,
         addSubscription, interceptUnsubscribe, deleteSession, purgeSession, routeVars
<1>2. ASSUME proc[h].pc \notin Elsewhere, ProcType', present' \subseteq Sessions,
             \A g \in Handlers : g # h => proc'[g] = proc[g],
             ShapeOf(proc'[h]), proc'[h].pc \notin Elsewhere, Leads(proc'[h]) <=> Leads(proc[h])
      PROVE  HandlerInv' /\ proc[h].pc \notin Elsewhere /\ proc'[h].pc \notin Elsewhere
             /\ \A g \in Handlers : g # h => proc'[g] = proc[g]
  BY <1>1, <1>2, OneMoves
<1>3. ASSUME done(h), proc[h].pc \notin Elsewhere, present' \subseteq Sessions, ~Leads(proc[h])
      PROVE  HandlerInv' /\ proc[h].pc \notin Elsewhere /\ proc'[h].pc \notin Elsewhere
             /\ \A g \in Handlers : g # h => proc'[g] = proc[g]
  BY <1>0, <1>2, <1>3, DoneIdles, IdleType
<1>4. CASE AddWithIDLoad(h)
  <2>1. At(h, "add") /\ present' = present BY <1>4 DEF AddWithIDLoad, routeVars
  <2>2. CASE done(h)
    <3>1. present' \subseteq Sessions /\ proc[h].pc \notin Elsewhere /\ ~Leads(proc[h])
      BY <1>0, <2>1 DEF At, Leads
    <3> QED BY <1>1, <1>3, <2>2, <3>1, Zenon
  <2>3. CASE goto(h, "store")
    <3>1. /\ ProcType' /\ proc'[h].pc = "store" /\ proc'[h].op = proc[h].op
          /\ proc'[h].cut = proc[h].cut /\ proc'[h].sess = proc[h].sess /\ proc'[h].uri = proc[h].uri
          /\ \A g \in Handlers : g # h => proc'[g] = proc[g]
      BY Zenon, <1>0, <2>3, GotoMoves DEF Pcs
    <3>2. ShapeOf(proc'[h]) /\ ~Leads(proc'[h]) /\ ~Leads(proc[h])
      BY <1>0, <2>1, <3>1 DEF ShapeOf, Leads, At
    <3> QED BY <1>0, <1>1, <1>2, <2>1, <3>1, <3>2 DEF At
  <2> QED BY <1>4, <2>2, <2>3 DEF AddWithIDLoad
<1>5. CASE AddWithIDStore(h)
  <2>1. At(h, "store") /\ present' = present \cup {proc[h].sess} BY <1>0, <1>5 DEF AddWithIDStore, routeVars
  <2>2. PICK w \in {"intercept"} : goto(h, w) BY <1>5 DEF AddWithIDStore
  <2>3. w \in Pcs BY DEF Pcs
  <2>4. /\ ProcType' /\ proc'[h].pc = w /\ proc'[h].op = proc[h].op
        /\ proc'[h].cut = proc[h].cut /\ proc'[h].sess = proc[h].sess /\ proc'[h].uri = proc[h].uri
        /\ \A g \in Handlers : g # h => proc'[g] = proc[g]
    BY Zenon, <1>0, <2>2, <2>3, GotoMoves
  <2>5. ShapeOf(proc'[h]) /\ (Leads(proc'[h]) <=> Leads(proc[h])) /\ present' \subseteq Sessions
    BY <1>0, <2>1, <2>2, <2>4 DEF ShapeOf, Leads, At, Ops
  <2> QED BY <1>1, <1>2, <2>1, <2>2, <2>4, <2>5 DEF At
<1>6. CASE interceptSubscribe(h)
  <2>1. At(h, "peek") /\ present' = present BY <1>0, <1>6 DEF interceptSubscribe, routeVars
  <2>2. PICK w \in {"record", "send"} : goto(h, w) BY <1>6 DEF interceptSubscribe
  <2>3. w \in Pcs BY DEF Pcs
  <2>4. /\ ProcType' /\ proc'[h].pc = w /\ proc'[h].op = proc[h].op
        /\ proc'[h].cut = proc[h].cut /\ proc'[h].sess = proc[h].sess /\ proc'[h].uri = proc[h].uri
        /\ \A g \in Handlers : g # h => proc'[g] = proc[g]
    BY Zenon, <1>0, <2>2, <2>3, GotoMoves
  <2>5. ShapeOf(proc'[h]) /\ (Leads(proc'[h]) <=> Leads(proc[h])) /\ present' \subseteq Sessions
    BY <1>0, <2>1, <2>2, <2>4 DEF ShapeOf, Leads, At, Ops
  <2> QED BY Zenon, <1>1, <1>2, <2>1, <2>2, <2>4, <2>5 DEF At
<1>7. CASE deleteSession(h)
  <2>1. At(h, "delete") /\ present' \subseteq present BY <1>0, <1>7 DEF deleteSession, routeVars
  <2>2. PICK w \in {"purge"} : goto(h, w) BY <1>7 DEF deleteSession
  <2>3. w \in Pcs BY DEF Pcs
  <2>4. /\ ProcType' /\ proc'[h].pc = w /\ proc'[h].op = proc[h].op
        /\ proc'[h].cut = proc[h].cut /\ proc'[h].sess = proc[h].sess /\ proc'[h].uri = proc[h].uri
        /\ \A g \in Handlers : g # h => proc'[g] = proc[g]
    BY Zenon, <1>0, <2>2, <2>3, GotoMoves
  <2>5. ShapeOf(proc'[h]) /\ (Leads(proc'[h]) <=> Leads(proc[h])) /\ present' \subseteq Sessions
    BY <1>0, <2>1, <2>2, <2>4 DEF ShapeOf, Leads, At, Ops
  <2> QED BY <1>1, <1>2, <2>1, <2>2, <2>4, <2>5 DEF At
<1>8. CASE purgeSession(h)
  <2>1. At(h, "purge") /\ present' = present BY <1>0, <1>8 DEF purgeSession, routeVars
  <2>2. PICK w \in {"close"} : goto(h, w) BY <1>8 DEF purgeSession
  <2>3. w \in Pcs BY DEF Pcs
  <2>4. /\ ProcType' /\ proc'[h].pc = w /\ proc'[h].op = proc[h].op
        /\ proc'[h].cut = proc[h].cut /\ proc'[h].sess = proc[h].sess /\ proc'[h].uri = proc[h].uri
        /\ \A g \in Handlers : g # h => proc'[g] = proc[g]
    BY Zenon, <1>0, <2>2, <2>3, GotoMoves
  <2>5. ShapeOf(proc'[h]) /\ (Leads(proc'[h]) <=> Leads(proc[h])) /\ present' \subseteq Sessions
    BY Zenon, <1>0, <2>1, <2>2, <2>4 DEF ShapeOf, Leads, At, Ops
  <2> QED BY <1>1, <1>2, <2>1, <2>2, <2>4, <2>5 DEF At
<1>9. CASE addSubscription(h)
  BY <1>0, <1>3, <1>9 DEF addSubscription, At, Leads
<1>10. CASE interceptUnsubscribe(h)
  <2>1. At(h, "remove") /\ present' = present BY <1>10 DEF interceptUnsubscribe
  <2>2. CASE done(h)
    <3>1. present' \subseteq Sessions /\ proc[h].pc \notin Elsewhere /\ ~Leads(proc[h])
      BY Zenon, <1>0, <2>1 DEF At, Leads
    <3> QED BY <1>1, <1>3, <2>2, <3>1, Zenon
  <2>3. CASE goto(h, "send")
    <3>1. /\ ProcType' /\ proc'[h].pc = "send" /\ proc'[h].op = proc[h].op
          /\ proc'[h].cut = proc[h].cut /\ proc'[h].sess = proc[h].sess /\ proc'[h].uri = proc[h].uri
          /\ \A g \in Handlers : g # h => proc'[g] = proc[g]
      BY Zenon, <1>0, <2>3, GotoMoves DEF Pcs
    <3>2. ShapeOf(proc'[h]) /\ ~Leads(proc'[h]) /\ ~Leads(proc[h])
      BY <1>0, <2>1, <3>1 DEF ShapeOf, Leads, At, Ops
    <3> QED BY <1>0, <1>1, <1>2, <2>1, <3>1, <3>2 DEF At
  <2> QED BY <1>10, <2>2, <2>3 DEF interceptUnsubscribe
<1>11. CASE lockUri(h)
  <2>1. At(h, "lock") /\ present' = present BY <1>11 DEF lockUri
  <2>2. CASE goto(h, "send")
    <3>1. /\ ProcType' /\ proc'[h].pc = "send" /\ proc'[h].op = proc[h].op
          /\ proc'[h].cut = proc[h].cut /\ proc'[h].sess = proc[h].sess /\ proc'[h].uri = proc[h].uri
          /\ \A g \in Handlers : g # h => proc'[g] = proc[g]
      BY Zenon, <1>0, <2>2, GotoMoves DEF Pcs
    <3>2. ShapeOf(proc'[h]) /\ ~Leads(proc'[h]) /\ ~Leads(proc[h])
      BY <1>0, <2>1, <3>1 DEF ShapeOf, Leads, At, Ops
    <3> QED BY <1>0, <1>1, <1>2, <2>1, <3>1, <3>2 DEF At
  <2>3. CASE ~goto(h, "send")
    <3>1. PICK w \in {"peek", "remove"} :
            /\ proc' = [proc EXCEPT ![h].cut = TRUE, ![h].pc = w]
            /\ w = "peek" <=> proc[h].op = "subscribe"
            /\ proc[h].sess \in present
      BY Zenon, <1>11, <2>3 DEF lockUri
    <3>2. /\ ProcType' /\ proc'[h].pc = w /\ proc'[h].op = proc[h].op
          /\ proc'[h].cut = TRUE /\ proc'[h].sess = proc[h].sess /\ proc'[h].uri = proc[h].uri
          /\ \A g \in Handlers : g # h => proc'[g] = proc[g]
      BY Zenon, <1>0, <3>1 DEF ProcType, Recs, Pcs
    <3>3. ShapeOf(proc'[h]) /\ ~Leads(proc'[h]) /\ ~Leads(proc[h])
      BY <1>0, <2>1, <3>1, <3>2 DEF ShapeOf, Leads, At
    <3> QED BY Zenon, <1>0, <1>1, <1>2, <2>1, <3>1, <3>2, <3>3 DEF At
  <2> QED BY <2>2, <2>3
<1>12. CASE intercept(h)
  <2>1. At(h, "intercept") /\ present' = present BY <1>12 DEF intercept, routeVars
  <2>2. CASE goto(h, "send")
    <3>1. /\ ProcType' /\ proc'[h].pc = "send" /\ proc'[h].op = proc[h].op
          /\ proc'[h].cut = proc[h].cut /\ proc'[h].sess = proc[h].sess /\ proc'[h].uri = proc[h].uri
          /\ \A g \in Handlers : g # h => proc'[g] = proc[g]
      BY Zenon, <1>0, <2>2, GotoMoves DEF Pcs
    <3>2. ShapeOf(proc'[h]) /\ ~Leads(proc'[h]) /\ ~Leads(proc[h])
      BY <1>0, <2>1, <3>1 DEF ShapeOf, Leads, At, Ops
    <3> QED BY Zenon, <1>0, <1>1, <1>2, <2>1, <3>1, <3>2 DEF At
  <2>3. CASE ~goto(h, "send")
    <3>1. /\ proc' = [proc EXCEPT ![h].cut = TRUE, ![h].pc = "fly"]
          /\ proc[h].op = "initialize" /\ proc[h].sess \in present
      BY Zenon, <1>12, <2>3 DEF intercept
    <3>2. /\ ProcType' /\ proc'[h].pc = "fly" /\ proc'[h].op = proc[h].op
          /\ proc'[h].cut = TRUE /\ proc'[h].sess = proc[h].sess /\ proc'[h].uri = proc[h].uri
          /\ \A g \in Handlers : g # h => proc'[g] = proc[g]
      BY Zenon, <1>0, <3>1 DEF ProcType, Recs, Pcs
    <3>3. ShapeOf(proc'[h]) /\ ~Leads(proc'[h]) /\ ~Leads(proc[h])
      BY <1>0, <2>1, <3>1, <3>2 DEF ShapeOf, Leads, At
    <3> QED BY Zenon, <1>0, <1>1, <1>2, <2>1, <3>1, <3>2, <3>3 DEF At
  <2> QED BY <2>2, <2>3
<1> QED BY <1>1, <1>4, <1>5, <1>6, <1>7, <1>8, <1>9, <1>10, <1>11, <1>12 DEF localStep

LEMMA FlyKeeps ==
  ASSUME HandlerInv, NEW h \in Handlers, interceptInitialize(h)
  PROVE  /\ HandlerInv'
         /\ proc[h].pc = "fly" /\ proc'[h].pc \in {"idle", "joined", "send"}
         /\ \A g \in Handlers : g # h => proc'[g] = proc[g]
         /\ UNCHANGED <<history, pipeVars, streamVars, cached>>
         /\ \/ leader' = leader
            \/ leader = None /\ ~cached /\ leader' = h /\ proc'[h].pc = "send"
<1>0. /\ ProcType /\ present \subseteq Sessions /\ ShapeOf(proc[h]) /\ proc[h] \in Recs
      /\ h # None
  BY ProxyConstants DEF HandlerInv, Shape, ProcType
<1>1. UNCHANGED <<history, pipeVars, streamVars, cached>> /\ present' = present
      /\ proc[h].pc = "fly" /\ At(h, "fly")
  BY DEF interceptInitialize, At
<1>2. proc[h].op = "initialize" /\ proc[h].cut /\ ~Leads(proc[h]) /\ proc[h].sess \in Sessions
  BY <1>0, <1>1 DEF ShapeOf, Leads
<1>3. CASE leader # None
  <2>1. goto(h, "joined") /\ leader' = leader BY <1>3 DEF interceptInitialize
  <2>2. /\ ProcType' /\ proc'[h].pc = "joined" /\ proc'[h].op = proc[h].op
        /\ proc'[h].cut = proc[h].cut /\ proc'[h].sess = proc[h].sess /\ proc'[h].uri = proc[h].uri
        /\ \A g \in Handlers : g # h => proc'[g] = proc[g]
    BY Zenon, <1>0, <2>1, GotoMoves DEF Pcs
  <2>3. ShapeOf(proc'[h]) /\ ~Leads(proc'[h]) BY <1>0, <1>2, <2>2 DEF ShapeOf, Leads
  <2>4. HandlerInv' BY <1>0, <1>1, <1>2, <2>1, <2>2, <2>3, OneMoves
  <2> QED BY <1>1, <2>1, <2>2, <2>4
<1>4. CASE leader = None /\ cached
  <2>1. done(h) /\ leader' = leader BY <1>4 DEF interceptInitialize
  <2>2. ProcType' /\ proc'[h] = Idle /\ \A g \in Handlers : g # h => proc'[g] = proc[g]
    BY Zenon, <1>0, <2>1, DoneIdles
  <2>3. HandlerInv' BY <1>0, <1>1, <1>2, <2>1, <2>2, IdleType, OneMoves
  <2> QED BY <1>1, <2>1, <2>2, <2>3, IdleType
<1>5. CASE leader = None /\ ~cached
  <2>1. goto(h, "send") /\ leader' = h BY <1>5 DEF interceptInitialize
  <2>2. /\ ProcType' /\ proc'[h].pc = "send" /\ proc'[h].op = proc[h].op
        /\ proc'[h].cut = proc[h].cut /\ proc'[h].sess = proc[h].sess /\ proc'[h].uri = proc[h].uri
        /\ \A g \in Handlers : g # h => proc'[g] = proc[g]
    BY Zenon, <1>0, <2>1, GotoMoves DEF Pcs
  <2>3. ShapeOf(proc'[h]) /\ Leads(proc'[h])
    BY <1>0, <1>2, <2>2 DEF ShapeOf, Leads, Ops
  <2>4. Shape'
    <3> SUFFICES ASSUME NEW g \in Handlers PROVE ShapeOf(proc'[g])
      BY <1>0, <1>1 DEF Shape
    <3>1. CASE g = h BY <2>3, <3>1
    <3>2. CASE g # h BY <2>2, <3>2, Zenon DEF HandlerInv, Shape
    <3> QED BY <3>1, <3>2
  <2>5. LeaderInv'
    <3>1. ASSUME NEW g \in Handlers PROVE h = g <=> Leads(proc'[g])
      <4>1. CASE g = h BY <2>3, <4>1
      <4>2. CASE g # h
        <5>1. leader # g BY <1>5, ProxyConstants
        <5>2. ~Leads(proc[g]) BY <5>1, Zenon DEF HandlerInv, LeaderInv
        <5> QED BY <2>2, <4>2, <5>2, Zenon
      <4> QED BY <4>1, <4>2
    <3> QED BY <2>1, <3>1 DEF LeaderInv
  <2> QED BY <1>1, <1>5, <2>1, <2>2, <2>4, <2>5 DEF HandlerInv
<1> QED BY <1>3, <1>4, <1>5

(* compositeKey is a key, and sendRequest takes the handler to "wait" with it. *)
Key == (Sessions \cup Nat) \X Nat

LEMMA KeyType ==
  ASSUME sent \in Nat, used \in [Sessions -> Nat], NEW s \in Sessions \cup {NoSession}
  PROVE  compositeKey(s) \in Key /\ compositeKey(s) \in AnyKey
BY DEF compositeKey, Key, AnyKey

Moved(r, w, m, k) == [r EXCEPT !.pc = w, !.n = m, !.key = k]

LEMMA MovedRecord ==
  ASSUME NEW r \in Recs, NEW w \in Pcs, NEW m \in Nat, NEW k \in AnyKey
  PROVE  LET q == Moved(r, w, m, k) IN
         /\ q \in Recs /\ q.pc = w /\ q.n = m /\ q.key = k /\ q.op = r.op
         /\ q.cut = r.cut /\ q.sess = r.sess /\ q.uri = r.uri
BY Zenon DEF Recs, Moved

LEMMA SendKeeps ==
  ASSUME HandlerInv, sent \in Nat, used \in [Sessions -> Nat], NEW h \in Handlers,
         sendRequest(h)
  PROVE  /\ HandlerInv'
         /\ proc[h].pc = "send" /\ proc'[h].pc = "wait"
         /\ proc'[h].n = sent + 1 /\ proc'[h].key = compositeKey(proc[h].sess)
         /\ proc'[h].op = proc[h].op /\ proc'[h].cut = proc[h].cut
         /\ \A g \in Handlers : g # h => proc'[g] = proc[g]
         /\ UNCHANGED <<streamVars, routeVars>>
<1>0. /\ ProcType /\ present \subseteq Sessions /\ ShapeOf(proc[h]) /\ proc[h] \in Recs
  BY DEF HandlerInv, Shape, ProcType
<1> DEFINE k == compositeKey(proc[h].sess)
<1>1. k \in AnyKey BY <1>0, KeyType DEF Recs
<1>2. /\ proc' = [proc EXCEPT ![h].pc = "wait", ![h].n = sent + 1, ![h].key = k]
      /\ UNCHANGED <<streamVars, routeVars>> /\ proc[h].pc = "send"
  BY DEF sendRequest, At
<1> DEFINE q == Moved(proc[h], "wait", sent + 1, k)
<1> HIDE DEF k
<1>q. /\ q \in Recs /\ q.pc = "wait" /\ q.n = sent + 1 /\ q.key = k
      /\ q.op = proc[h].op /\ q.cut = proc[h].cut
      /\ q.sess = proc[h].sess /\ q.uri = proc[h].uri
  <2>1. "wait" \in Pcs /\ sent + 1 \in Nat BY DEF Pcs
  <2> QED BY <1>0, <1>1, <2>1, MovedRecord
<1>p. proc' = [proc EXCEPT ![h] = q]
  BY Zenon, <1>0, <1>2 DEF ProcType, Moved
<1> HIDE DEF q
<1>3. /\ ProcType' /\ proc'[h] = q
      /\ \A g \in Handlers : g # h => proc'[g] = proc[g]
  BY <1>0, <1>q, <1>p DEF ProcType
<1>4. ShapeOf(proc'[h]) /\ (Leads(proc'[h]) <=> Leads(proc[h]))
  BY <1>0, <1>2, <1>3, <1>q DEF ShapeOf, Leads
<1>5. present' \subseteq Sessions /\ leader' = leader BY <1>0, <1>2 DEF routeVars
<1>6. HandlerInv' BY <1>3, <1>4, <1>5, OneMoves
<1> QED BY Zenon, <1>2, <1>3, <1>6, <1>q DEF k

LEMMA ReceiveKeeps ==
  ASSUME HandlerInv, NEW h \in Handlers, receive(h)
  PROVE  /\ HandlerInv'
         /\ proc[h].pc = "wait" /\ UNCHANGED streamVars /\ noteFailure(h, chan[h][1].ok)
         /\ \/ finish(h, chan[h][1].ok)
            \/ /\ proc[h].op = "subscribe" /\ proc'[h].pc = "record"
               /\ \A g \in Handlers : g # h => proc'[g] = proc[g]
               /\ UNCHANGED routeVars
<1>0. /\ ProcType /\ present \subseteq Sessions /\ ShapeOf(proc[h]) /\ proc[h] \in Recs
  BY DEF HandlerInv, Shape, ProcType
<1>1. proc[h].pc = "wait" /\ UNCHANGED streamVars /\ noteFailure(h, chan[h][1].ok)
  BY Zenon DEF receive, At
<1>2. CASE finish(h, chan[h][1].ok) BY <1>1, <1>2, FinishKeeps
<1>3. CASE ~finish(h, chan[h][1].ok)
  <2>1. /\ proc[h].op = "subscribe" /\ proc[h].cut /\ goto(h, "record")
        /\ UNCHANGED routeVars
    BY <1>3, Zenon DEF receive
  <2>2. /\ ProcType' /\ proc'[h].pc = "record" /\ proc'[h].op = proc[h].op
        /\ proc'[h].cut = proc[h].cut /\ proc'[h].sess = proc[h].sess /\ proc'[h].uri = proc[h].uri
        /\ \A g \in Handlers : g # h => proc'[g] = proc[g]
    BY Zenon, <1>0, <2>1, GotoMoves DEF Pcs
  <2>3. ShapeOf(proc'[h]) /\ ~Leads(proc'[h]) /\ ~Leads(proc[h])
    BY <1>0, <2>1, <2>2 DEF ShapeOf, Leads
  <2>4. present' \subseteq Sessions /\ leader' = leader BY <1>0, <2>1 DEF routeVars
  <2>5. HandlerInv' BY Zenon, <2>2, <2>3, <2>4, OneMoves
  <2> QED BY <1>1, <2>1, <2>2, <2>5
<1> QED BY <1>2, <1>3

(* Steps of a stream's handler, and of everyone else. *)
LEMMA StreamStepKeeps ==
  ASSUME HandlerInv, NEW h \in Handlers,
         registerStream(h) \/ leaveStream(h) \/ closeDeleted(h)
  PROVE  /\ HandlerInv'
         /\ proc[h].pc # "wait" /\ proc'[h].pc # "wait"
         /\ registerStream(h) => proc'[h].pc = "stream" /\ proc'[h].sess = proc[h].sess
         /\ \A g \in Handlers : g # h => proc'[g] = proc[g]
         /\ UNCHANGED <<routeVars, history, pipeVars>>
<1>0. /\ ProcType /\ present \subseteq Sessions /\ ShapeOf(proc[h]) /\ proc[h] \in Recs
  BY DEF HandlerInv, Shape, ProcType
<1>1. UNCHANGED <<routeVars, history, pipeVars>> /\ proc[h].pc \in {"register", "stream", "close"}
      /\ (registerStream(h) => proc[h].pc = "register")
  BY DEF registerStream, leaveStream, closeDeleted, At
<1>2. present' = present /\ leader' = leader BY <1>1 DEF routeVars
<1>3. CASE registerStream(h)
  <2>1. goto(h, "stream") BY <1>3 DEF registerStream
  <2>2. /\ ProcType' /\ proc'[h].pc = "stream" /\ proc'[h].op = proc[h].op
        /\ proc'[h].cut = proc[h].cut /\ proc'[h].sess = proc[h].sess /\ proc'[h].uri = proc[h].uri
        /\ \A g \in Handlers : g # h => proc'[g] = proc[g]
    BY Zenon, <1>0, <2>1, GotoMoves DEF Pcs
  <2>3. ShapeOf(proc'[h]) /\ ~Leads(proc'[h]) /\ ~Leads(proc[h])
    BY Zenon, <1>0, <1>1, <1>3, <2>2 DEF ShapeOf, Leads
  <2>4. HandlerInv' BY Zenon, <1>0, <1>2, <2>2, <2>3, OneMoves
  <2> QED BY <1>1, <2>2, <2>4
<1>4. CASE ~registerStream(h)
  <2>1. done(h) BY <1>4 DEF leaveStream, closeDeleted
  <2>2. ProcType' /\ proc'[h] = Idle /\ \A g \in Handlers : g # h => proc'[g] = proc[g]
    BY <1>0, <2>1, DoneIdles
  <2>3. ~Leads(proc[h]) BY <1>1 DEF Leads
  <2>4. HandlerInv' BY <1>0, <1>2, <2>2, <2>3, IdleType, OneMoves
  <2> QED BY <1>1, <1>4, <2>2, <2>4, IdleType
<1> QED BY <1>3, <1>4

LEMMA OthersKeep ==
  ASSUME HandlerInv, UNCHANGED <<proc, leader>>, present' \subseteq present
  PROVE  HandlerInv'
BY DEF HandlerInv, ProcType, Shape, LeaderInv

(* What a step can be, for the invariants below. *)
quiet ==
  \/ Stop \/ StopSessions \/ Shutdown \/ reapSnapshot \/ reapSweep \/ reapEnd
  \/ \E s \in Sessions : expire(s) \/ reapCheck(s) \/ reapKey(s)

LEMMA QuietKeeps ==
  ASSUME quiet
  PROVE  /\ UNCHANGED <<proc, leader, cached, history, pipeVars, streamVars>>
         /\ present' \subseteq present
BY Zenon DEF quiet, Stop, StopSessions, Shutdown, reapSnapshot, reapSweep, reapEnd, expire,
  reapCheck, reapKey, reapVars

LEMMA StepKinds ==
  ASSUME Next
  PROVE  \/ backendStep \/ dispatchResponses \/ quiet \/ reapClose \/ StopStreams
         \/ \E h \in Handlers :
              \/ arrivals(h) \/ posts(h) \/ localStep(h) \/ interceptInitialize(h)
              \/ sendRequest(h) \/ sendFails(h) \/ receive(h) \/ giveUp(h)
              \/ registerStream(h) \/ leaveStream(h) \/ closeDeleted(h)
<1>1. CASE \E h \in Handlers : arrivals(h) \/ posts(h) \/ lockUri(h) \/ handlerStep(h) \/ leaveStream(h)
  BY <1>1, Zenon DEF handlerStep, localStep
<1>2. CASE reap \/ Stop \/ StopSessions \/ Shutdown \/ \E s \in Sessions : expire(s)
  BY <1>2, Zenon DEF reap, quiet
<1> QED BY <1>1, <1>2, Zenon DEF Next

-----------------------------------------------------------------------------
(* Streams *)

StreamInv == HandlerInv /\ StreamsTypeOK /\ RegistryIsLive /\ NoDoubleClose

(* Nobody enters or leaves a stream, and the registry is left alone. *)
LEMMA StreamsRest ==
  ASSUME StreamInv, HandlerInv', UNCHANGED streamVars,
         \A g \in Handlers : \/ proc'[g] = proc[g]
                             \/ proc[g].pc # "stream" /\ proc'[g].pc # "stream"
  PROVE  StreamInv'
<1>1. streams' = streams /\ stopped' = stopped /\ panicked' = panicked BY DEF streamVars
<1>2. RegistryIsLive'
  <2> SUFFICES ASSUME NEW s \in Sessions, NEW g \in Handlers
               PROVE  (streams[s] = g) <=>
                        (proc'[g].pc = "stream" /\ proc'[g].sess = s /\ g \notin stopped)
    BY <1>1 DEF RegistryIsLive, At
  <2>1. (streams[s] = g) <=> (proc[g].pc = "stream" /\ proc[g].sess = s /\ g \notin stopped)
    BY DEF StreamInv, RegistryIsLive, At
  <2> QED BY <2>1
<1> QED BY <1>1, <1>2, Zenon DEF StreamInv, StreamsTypeOK, NoDoubleClose

(* The stream of one session is closed and forgotten. *)
LEMMA CloseKeeps ==
  ASSUME StreamInv, HandlerInv', NEW s \in Sessions, closeStream(s),
         \A g \in Handlers : \/ proc'[g] = proc[g]
                             \/ proc[g].pc # "stream" /\ proc'[g].pc # "stream"
  PROVE  StreamInv'
<1>0. /\ streams \in [Sessions -> Handlers \cup {None}] /\ stopped \subseteq Handlers
      /\ panicked = FALSE
      /\ \A t \in Sessions, g \in Handlers :
           (streams[t] = g) <=> (proc[g].pc = "stream" /\ proc[g].sess = t /\ g \notin stopped)
  BY DEF StreamInv, StreamsTypeOK, RegistryIsLive, NoDoubleClose, At
<1>1. /\ stopped' = stopped \cup ({streams[s]} \ {None})
      /\ panicked' = (panicked \/ ({streams[s]} \ {None}) \cap stopped # {})
      /\ streams' = [streams EXCEPT ![s] = None]
  BY DEF closeStream, Close, Registered
<1>2. ({streams[s]} \ {None}) \cap stopped = {} BY <1>0
<1>3. panicked' = FALSE BY Zenon, <1>0, <1>1, <1>2
<1>4. StreamsTypeOK'
  <2>1. streams' \in [Sessions -> Handlers \cup {None}] BY <1>0, <1>1
  <2>2. stopped' \subseteq Handlers BY <1>0, <1>1
  <2> QED BY Zenon, <1>3, <2>1, <2>2 DEF StreamsTypeOK
<1>5. RegistryIsLive'
  <2> SUFFICES ASSUME NEW t \in Sessions, NEW g \in Handlers
               PROVE  (streams'[t] = g) <=>
                        (proc'[g].pc = "stream" /\ proc'[g].sess = t /\ g \notin stopped')
    BY DEF RegistryIsLive, At
  <2>0. g # None BY ProxyConstants
  <2>1. (streams[t] = g) <=> (proc[g].pc = "stream" /\ proc[g].sess = t /\ g \notin stopped)
    BY <1>0
  <2>2. (streams[s] = g) <=> (proc[g].pc = "stream" /\ proc[g].sess = s /\ g \notin stopped)
    BY <1>0
  <2>3. g \in stopped' <=> g \in stopped \/ streams[s] = g BY <1>1, <2>0
  <2>4. CASE t = s
    <3>1. streams'[t] # g BY <1>0, <1>1, <2>0, <2>4
    <3> QED BY <2>2, <2>3, <2>4, <3>1
  <2>5. CASE t # s
    <3>1. streams'[t] = streams[t] BY <1>0, <1>1, <2>5
    <3> QED BY <2>1, <2>2, <2>3, <2>5, <3>1
  <2> QED BY <2>4, <2>5
<1> QED BY <1>3, <1>4, <1>5 DEF StreamInv, NoDoubleClose

LEMMA CloseAllKeeps ==
  ASSUME StreamInv, HandlerInv', closeAll, UNCHANGED proc
  PROVE  StreamInv'
<1>0. /\ streams \in [Sessions -> Handlers \cup {None}] /\ stopped \subseteq Handlers
      /\ panicked = FALSE
      /\ \A t \in Sessions, g \in Handlers :
           (streams[t] = g) <=> (proc[g].pc = "stream" /\ proc[g].sess = t /\ g \notin stopped)
  BY DEF StreamInv, StreamsTypeOK, RegistryIsLive, NoDoubleClose, At
<1> DEFINE H == UNION {Registered(s) : s \in Sessions}
<1>1. /\ stopped' = stopped \cup H /\ panicked' = (panicked \/ H \cap stopped # {})
      /\ streams' = [s \in Sessions |-> None]
  BY DEF closeAll, Close
<1>2. \A g : g \in H <=> \E s \in Sessions : streams[s] = g /\ g # None
  BY DEF Registered
<1> HIDE DEF H
<1>3. H \cap stopped = {} BY <1>0, <1>2
<1>4. panicked' = FALSE BY Zenon, <1>0, <1>1, <1>3
<1>5. StreamsTypeOK'
  <2>1. streams' \in [Sessions -> Handlers \cup {None}] BY <1>1
  <2>2. stopped' \subseteq Handlers BY <1>0, <1>1, <1>2
  <2> QED BY Zenon, <1>4, <2>1, <2>2 DEF StreamsTypeOK
<1>6. RegistryIsLive'
  <2> SUFFICES ASSUME NEW t \in Sessions, NEW g \in Handlers
               PROVE  (streams'[t] = g) <=>
                        (proc[g].pc = "stream" /\ proc[g].sess = t /\ g \notin stopped')
    BY DEF RegistryIsLive, At
  <2>1. streams'[t] # g BY <1>1, ProxyConstants
  <2>2. streams[t] = g => g \in stopped' BY <1>1, <1>2, ProxyConstants
  <2> QED BY <1>0, <1>1, <2>1, <2>2
<1> QED BY <1>4, <1>5, <1>6 DEF StreamInv, NoDoubleClose

LEMMA RegisterKeeps ==
  ASSUME StreamInv, HandlerInv', NEW h \in Handlers, registerStream(h)
  PROVE  StreamInv'
<1> DEFINE s == proc[h].sess
<1>0. /\ streams \in [Sessions -> Handlers \cup {None}] /\ stopped \subseteq Handlers
      /\ panicked = FALSE
      /\ \A t \in Sessions, g \in Handlers :
           (streams[t] = g) <=> (proc[g].pc = "stream" /\ proc[g].sess = t /\ g \notin stopped)
  BY DEF StreamInv, StreamsTypeOK, RegistryIsLive, NoDoubleClose, At
<1>1. /\ stopped' = (stopped \cup ({streams[s]} \ {None})) \ {h}
      /\ panicked' = (panicked \/ ({streams[s]} \ {None}) \cap stopped # {})
      /\ streams' = [streams EXCEPT ![s] = h]
      /\ proc[h].pc = "register"
  BY Zenon DEF registerStream, register, Registered, At
<1>2. /\ proc'[h].pc = "stream" /\ proc'[h].sess = s
      /\ \A g \in Handlers : g # h => proc'[g] = proc[g]
  BY Zenon, StreamStepKeeps DEF StreamInv
<1>3. s \in Sessions BY <1>1 DEF StreamInv, HandlerInv, Shape, ShapeOf
<1> HIDE DEF s
<1>4. ({streams[s]} \ {None}) \cap stopped = {} BY <1>0, <1>3
<1>5. panicked' = FALSE BY Zenon, <1>0, <1>1, <1>4
<1>6. StreamsTypeOK'
  <2>1. streams' \in [Sessions -> Handlers \cup {None}] BY <1>0, <1>1, <1>3
  <2>2. stopped' \subseteq Handlers BY <1>0, <1>1, <1>3
  <2> QED BY Zenon, <1>5, <2>1, <2>2 DEF StreamsTypeOK
<1>7. RegistryIsLive'
  <2> SUFFICES ASSUME NEW t \in Sessions, NEW g \in Handlers
               PROVE  (streams'[t] = g) <=>
                        (proc'[g].pc = "stream" /\ proc'[g].sess = t /\ g \notin stopped')
    BY DEF RegistryIsLive, At
  <2>0. g # None BY ProxyConstants
  <2>1. (streams[t] = g) <=> (proc[g].pc = "stream" /\ proc[g].sess = t /\ g \notin stopped)
    BY <1>0
  <2>2. (streams[s] = g) <=> (proc[g].pc = "stream" /\ proc[g].sess = s /\ g \notin stopped)
    BY <1>0, <1>3
  <2>3. g # h => (g \in stopped' <=> g \in stopped \/ streams[s] = g) BY <1>1, <2>0
  <2>4. h \notin stopped' BY <1>1
  <2>5. CASE t = s
    <3>1. streams'[t] = h BY <1>0, <1>1, <1>3, <2>5
    <3>2. CASE g = h BY <1>2, <2>4, <2>5, <3>1, <3>2
    <3>3. CASE g # h BY <1>2, <2>2, <2>3, <2>5, <3>1, <3>3
    <3> QED BY <3>2, <3>3
  <2>6. CASE t # s
    <3>1. streams'[t] = streams[t] BY <1>0, <1>1, <1>3, <2>6
    <3>2. CASE g = h BY Zenon, <1>1, <1>2, <2>1, <2>6, <3>1, <3>2
    <3>3. CASE g # h BY Zenon, <1>2, <2>1, <2>2, <2>3, <2>6, <3>1, <3>3
    <3> QED BY <3>2, <3>3
  <2> QED BY <2>5, <2>6
<1> QED BY <1>5, <1>6, <1>7 DEF StreamInv, NoDoubleClose

LEMMA LeaveKeeps ==
  ASSUME StreamInv, HandlerInv', NEW h \in Handlers, leaveStream(h)
  PROVE  StreamInv'
<1> DEFINE s == proc[h].sess
<1>0. /\ streams \in [Sessions -> Handlers \cup {None}] /\ stopped \subseteq Handlers
      /\ panicked = FALSE
      /\ \A t \in Sessions, g \in Handlers :
           (streams[t] = g) <=> (proc[g].pc = "stream" /\ proc[g].sess = t /\ g \notin stopped)
  BY DEF StreamInv, StreamsTypeOK, RegistryIsLive, NoDoubleClose, At
<1>1. /\ stopped' = stopped \ {h} /\ panicked' = panicked
      /\ streams' = [streams EXCEPT ![s] = IF @ = h THEN None ELSE @]
      /\ proc[h].pc = "stream"
  BY DEF leaveStream, deregister, At
<1>2. proc'[h].pc = "idle" /\ \A g \in Handlers : g # h => proc'[g] = proc[g]
  BY Zenon, DoneIdles, IdleType DEF leaveStream, StreamInv, HandlerInv
<1>3. s \in Sessions BY <1>1 DEF StreamInv, HandlerInv, Shape, ShapeOf
<1>s. s = proc[h].sess OBVIOUS
<1> HIDE DEF s
<1>4. StreamsTypeOK'
  <2>1. streams' \in [Sessions -> Handlers \cup {None}] BY <1>0, <1>1, <1>3
  <2>2. stopped' \subseteq Handlers BY <1>0, <1>1, <1>3
  <2> QED BY Zenon, <1>0, <1>1, <2>1, <2>2 DEF StreamsTypeOK
<1>5. RegistryIsLive'
  <2> SUFFICES ASSUME NEW t \in Sessions, NEW g \in Handlers
               PROVE  (streams'[t] = g) <=>
                        (proc'[g].pc = "stream" /\ proc'[g].sess = t /\ g \notin stopped')
    BY DEF RegistryIsLive, At
  <2>0. g # None BY ProxyConstants
  <2>1. (streams[t] = g) <=> (proc[g].pc = "stream" /\ proc[g].sess = t /\ g \notin stopped)
    BY <1>0
  <2>2. (streams[t] = h) => t = s BY <1>0, <1>s
  <2>3. streams'[t] = g <=> g # h /\ streams[t] = g
    <3>1. CASE t = s BY <1>0, <1>1, <1>3, <2>0, <3>1
    <3>2. CASE t # s BY Zenon, <1>0, <1>1, <1>3, <2>2, <3>2
    <3> QED BY <3>1, <3>2
  <2> QED BY Zenon, <1>1, <1>2, <2>1, <2>3
<1> QED BY <1>0, <1>1, <1>4, <1>5 DEF StreamInv, NoDoubleClose

LEMMA StreamNext ==
  ASSUME StreamInv, sent \in Nat, used \in [Sessions -> Nat], reaper.stale \subseteq Sessions,
         [Next]_vars
  PROVE  StreamInv'
<1>0. HandlerInv BY DEF StreamInv
<1>1. CASE backendStep \/ dispatchResponses \/ quiet \/ UNCHANGED vars
  <2>1. UNCHANGED <<proc, leader, streamVars>> /\ present' \subseteq present
    BY <1>1, QuietKeeps DEF backendStep, dispatchResponses, outside, routeVars, vars
  <2>2. HandlerInv' BY <1>0, <2>1, OthersKeep
  <2> QED BY Zenon, <2>1, <2>2, StreamsRest
<1>2. CASE reapClose
  <2>1. UNCHANGED <<proc, leader, present>> BY <1>2 DEF reapClose, reapVars
  <2>2. HandlerInv' BY <1>0, <2>1, OthersKeep
  <2>3. PICK s \in Sessions : closeStream(s) BY <1>2 DEF reapClose
  <2> QED BY <2>1, <2>2, <2>3, CloseKeeps
<1>3. CASE StopStreams
  <2>1. UNCHANGED <<proc, leader, present>> BY Zenon, <1>3 DEF StopStreams
  <2>2. HandlerInv' BY <1>0, <2>1, OthersKeep
  <2> QED BY <1>3, <2>1, <2>2, CloseAllKeeps DEF StopStreams
<1>4. ASSUME NEW h \in Handlers,
             \/ arrivals(h) \/ posts(h) \/ localStep(h) \/ interceptInitialize(h)
             \/ sendRequest(h) \/ sendFails(h) \/ receive(h) \/ giveUp(h)
             \/ registerStream(h) \/ leaveStream(h) \/ closeDeleted(h)
      PROVE  StreamInv'
  <2>1. CASE arrivals(h) \/ posts(h)
    <3>1. /\ HandlerInv' /\ UNCHANGED streamVars /\ proc[h].pc # "stream" /\ proc'[h].pc # "stream"
          /\ \A g \in Handlers : g # h => proc'[g] = proc[g]
      BY Zenon, <1>0, <2>1, ArriveKeeps
    <3> QED BY Zenon, <3>1, StreamsRest
  <2>2. CASE localStep(h)
    <3>1. /\ HandlerInv' /\ UNCHANGED streamVars /\ proc[h].pc # "stream" /\ proc'[h].pc # "stream"
          /\ \A g \in Handlers : g # h => proc'[g] = proc[g]
      BY <1>0, <2>2, LocalKeeps DEF Elsewhere
    <3> QED BY <3>1, StreamsRest
  <2>3. CASE interceptInitialize(h)
    <3>1. /\ HandlerInv' /\ UNCHANGED streamVars /\ proc[h].pc # "stream" /\ proc'[h].pc # "stream"
          /\ \A g \in Handlers : g # h => proc'[g] = proc[g]
      BY Zenon, <1>0, <2>3, FlyKeeps
    <3> QED BY <3>1, StreamsRest
  <2>4. CASE sendRequest(h)
    <3>1. /\ HandlerInv' /\ UNCHANGED streamVars /\ proc[h].pc # "stream" /\ proc'[h].pc # "stream"
          /\ \A g \in Handlers : g # h => proc'[g] = proc[g]
      BY <1>0, <2>4, SendKeeps
    <3> QED BY <3>1, StreamsRest
  <2>5. ASSUME NEW ok, finish(h, ok), UNCHANGED streamVars, proc[h].pc # "stream"
        PROVE  StreamInv'
    <3>1. HandlerInv' BY <1>0, <2>5, FinishKeeps
    <3>2. ASSUME NEW g \in Handlers
          PROVE  proc'[g] = proc[g] \/ (proc[g].pc # "stream" /\ proc'[g].pc # "stream")
      <4>1. \/ proc'[g] = proc[g]
            \/ proc'[g] = Idle /\ g \in Sharing(h)
        BY <1>0, <2>5, FinishIdles DEF HandlerInv
      <4>2. g \in Sharing(h) => proc[g].pc # "stream" BY <2>5 DEF Sharing, At
      <4> QED BY Zenon, <4>1, <4>2, IdleType
    <3> QED BY <2>5, <3>1, <3>2, StreamsRest
  <2>6. CASE sendFails(h) BY Zenon, <2>5, <2>6 DEF sendFails, At
  <2>7. CASE giveUp(h) BY Zenon, <2>5, <2>7 DEF giveUp, At
  <2>8. CASE receive(h)
    <3>1. HandlerInv' /\ proc[h].pc = "wait" /\ UNCHANGED streamVars
      BY <1>0, <2>8, ReceiveKeeps
    <3>2. CASE finish(h, chan[h][1].ok) BY <2>5, <3>1, <3>2
    <3>3. CASE ~finish(h, chan[h][1].ok)
      <4>1. proc'[h].pc = "record" /\ \A g \in Handlers : g # h => proc'[g] = proc[g]
        BY <1>0, <2>8, <3>3, ReceiveKeeps
      <4> QED BY <3>1, <4>1, StreamsRest
    <3> QED BY <3>2, <3>3
  <2>9. CASE registerStream(h) BY <1>0, <2>9, StreamStepKeeps, RegisterKeeps
  <2>10. CASE leaveStream(h) BY <1>0, <2>10, StreamStepKeeps, LeaveKeeps
  <2>11. CASE closeDeleted(h)
    <3>1. /\ HandlerInv' /\ proc[h].pc = "close" /\ closeStream(proc[h].sess)
          /\ \A g \in Handlers : g # h => proc'[g] = proc[g]
      BY <1>0, <2>11, StreamStepKeeps DEF closeDeleted, At
    <3>2. proc'[h].pc # "stream"
      BY Zenon, <1>0, <2>11, DoneIdles, IdleType DEF closeDeleted, HandlerInv
    <3>3. proc[h].sess \in Sessions BY <1>0, <3>1 DEF HandlerInv, Shape, ShapeOf
    <3> QED BY Zenon, <3>1, <3>2, <3>3, CloseKeeps
  <2> QED BY Zenon, <1>4, <2>1, <2>2, <2>3, <2>4, <2>6, <2>7, <2>8, <2>9, <2>10, <2>11
<1> QED BY <1>1, <1>2, <1>3, <1>4, StepKinds

(* The reaper's lists and the recorded subscribers are sessions. *)
Reaping == [pc : {"idle", "check", "keys", "close"}, todo : SUBSET Sessions,
            stale : SUBSET Sessions]

RouteInv == subs \in [Uris -> SUBSET Sessions] /\ reaper \in Reaping

LEMMA RouteNext ==
  ASSUME HandlerInv, RouteInv, [Next]_vars
  PROVE  RouteInv'
<1> USE DEF RouteInv
<1>1. CASE UNCHANGED vars BY Zenon, <1>1 DEF vars, routeVars
<1>2. CASE \/ backendStep \/ dispatchResponses \/ Stop \/ StopStreams \/ StopSessions \/ Shutdown
           \/ \E s \in Sessions : expire(s)
  BY <1>2 DEF backendStep, dispatchResponses, outside, routeVars, Stop, StopStreams,
              StopSessions, Shutdown, expire
<1>3. CASE reap
  <2>1. CASE reapSnapshot BY <2>1 DEF reapSnapshot, Reaping
  <2>2. CASE reapSweep BY <2>2 DEF reapSweep, Reaping
  <2>3. CASE reapClose BY Zenon, <2>3 DEF reapClose, Reaping
  <2>4. CASE reapEnd BY <2>4 DEF reapEnd, Reaping
  <2>5. ASSUME NEW s \in Sessions, reapCheck(s) PROVE RouteInv'
    BY Zenon, <2>5 DEF reapCheck, Reaping
  <2>6. ASSUME NEW s \in Sessions, reapKey(s) PROVE RouteInv'
    BY <2>6 DEF reapKey, Reaping
  <2> QED BY Zenon, <1>3, <2>1, <2>2, <2>3, <2>4, <2>5, <2>6 DEF reap
<1>4. ASSUME NEW h \in Handlers,
             arrivals(h) \/ posts(h) \/ lockUri(h) \/ handlerStep(h) \/ leaveStream(h)
      PROVE  RouteInv'
  <2>1. CASE arrivals(h) \/ posts(h)
    BY Zenon, <2>1, ArriveKeeps DEF routeVars
  <2>2. CASE addSubscription(h)
    <3>1. proc[h].sess \in Sessions
      BY <2>2 DEF addSubscription, At, HandlerInv, Shape, ShapeOf
    <3> QED BY Zenon, <2>2, <3>1 DEF addSubscription
  <2>3. CASE interceptUnsubscribe(h) BY Zenon, <2>3 DEF interceptUnsubscribe
  <2>4. CASE purgeSession(h) BY Zenon, <2>4 DEF purgeSession
  <2>5. CASE \/ AddWithIDLoad(h) \/ AddWithIDStore(h) \/ lockUri(h) \/ intercept(h)
             \/ interceptSubscribe(h) \/ interceptInitialize(h) \/ sendRequest(h)
             \/ deleteSession(h) \/ registerStream(h) \/ leaveStream(h) \/ closeDeleted(h)
    BY <2>5 DEF AddWithIDLoad, AddWithIDStore, lockUri, intercept, interceptSubscribe,
         interceptInitialize, sendRequest, deleteSession, registerStream, leaveStream,
         closeDeleted, routeVars
  <2>6. CASE sendFails(h) \/ receive(h) \/ giveUp(h)
    BY Zenon, <2>6 DEF sendFails, receive, giveUp, finish, routeVars
  <2> QED BY <1>4, <2>1, <2>2, <2>3, <2>4, <2>5, <2>6 DEF handlerStep
<1> QED BY <1>1, <1>2, <1>3, <1>4 DEF Next

-----------------------------------------------------------------------------
(* The shared handshake *)

InTheAir == leader # None /\ proc[leader].pc = "wait"

HandshakeInv ==
  /\ handshakes \in Nat /\ excused \in Nat
  /\ cached => leader = None
  /\ cached \/ InTheAir => handshakes <= excused + 1
  /\ ~cached /\ ~InTheAir => handshakes <= excused
  /\ excused <= sent /\ (InTheAir => excused < sent)

(* Nobody starts or ends a wait, and nothing is counted. *)
LEMMA HandshakeRests ==
  ASSUME HandlerInv, HandshakeInv, UNCHANGED <<history, leader, cached, sent>>,
         \A g \in Handlers : proc'[g] = proc[g] \/ (proc[g].pc # "wait" /\ proc'[g].pc # "wait")
  PROVE  HandshakeInv'
<1>1. leader = None \/ leader \in Handlers BY DEF HandlerInv, LeaderInv
<1>2. InTheAir' <=> InTheAir BY <1>1 DEF InTheAir
<1>3. UNCHANGED <<handshakes, excused, leader, cached, sent>> BY DEF history
<1> QED BY <1>2, <1>3 DEF HandshakeInv

LEMMA HandshakeEnds ==
  ASSUME HandlerInv, HandshakeInv, sent \in Nat, sent' = sent,
         NEW h \in Handlers, NEW ok, finish(h, ok),
         \/ proc[h].pc = "wait" /\ noteFailure(h, ok)
         \/ proc[h].pc = "send" /\ ~ok /\ UNCHANGED history
  PROVE  HandshakeInv'
<1>0. h # None /\ (leader = None \/ leader \in Handlers)
  BY ProxyConstants DEF HandlerInv, LeaderInv
<1>1. /\ leader' = (IF leader = h THEN None ELSE leader)
      /\ cached' = (cached \/ (leader = h /\ ok))
  BY Zenon DEF finish
<1>2. handshakes' = handshakes BY DEF noteFailure, history
<1>3. CASE leader = h
  <2>1. leader' = None /\ ~InTheAir' BY <1>1, <1>3 DEF InTheAir
  <2>2. ~cached BY <1>0, <1>3 DEF HandshakeInv
  <2>3. CASE ok
    <3>1. proc[h].pc = "wait" /\ noteFailure(h, ok) BY Zenon, <2>3
    <3>2. excused' = excused BY <2>3, <3>1 DEF noteFailure, HandshakeInv
    <3>3. cached' BY <1>1, <1>3, <2>3, Zenon
    <3>4. InTheAir BY <1>0, <1>3, <3>1 DEF InTheAir
    <3> QED BY <1>2, <2>1, <3>2, <3>3, <3>4 DEF HandshakeInv
  <2>4. CASE ~ok
    <3>1. ~cached' BY <1>1, <2>2, <2>4, Zenon
    <3>2. CASE proc[h].pc = "wait"
      <4>1. excused' = excused + 1 BY <1>3, <2>4, <3>2 DEF noteFailure
      <4> QED BY <1>0, <1>2, <1>3, <2>1, <2>2, <3>1, <3>2, <4>1 DEF HandshakeInv, InTheAir
    <3>3. CASE proc[h].pc = "send"
      <4>1. excused' = excused BY <3>3 DEF history
      <4> QED BY Zenon, <1>0, <1>2, <1>3, <2>1, <2>2, <3>1, <3>3, <4>1 DEF HandshakeInv, InTheAir
    <3> QED BY <3>2, <3>3
  <2> QED BY <2>3, <2>4
<1>4. CASE leader # h
  <2>1. leader' = leader /\ (cached' <=> cached) /\ excused' = excused
    <3>1. excused' = excused BY <1>4 DEF noteFailure, history, HandshakeInv
    <3>2. leader' = leader BY <1>1, <1>4
    <3>3. cached' <=> cached BY <1>1, <1>4, Zenon
    <3> QED BY <3>1, <3>2, <3>3
  <2>2. leader # None => proc'[leader] = proc[leader]
    BY Zenon, <1>0, <1>4, FinishIdles DEF Sharing, HandlerInv
  <2>3. InTheAir' <=> InTheAir BY <2>1, <2>2 DEF InTheAir
  <2> QED BY Zenon, <1>2, <2>1, <2>3 DEF HandshakeInv
<1> QED BY Zenon, <1>3, <1>4

LEMMA HandshakeSent ==
  ASSUME HandlerInv, HandshakeInv, sent \in Nat, used \in [Sessions -> Nat],
         NEW h \in Handlers, sendRequest(h)
  PROVE  HandshakeInv'
<1>1. /\ proc[h].pc = "send" /\ proc'[h].pc = "wait" /\ h # None
      /\ \A g \in Handlers : g # h => proc'[g] = proc[g]
      /\ leader' = leader /\ cached' = cached
  BY Zenon, SendKeeps, ProxyConstants DEF routeVars
<1>2. noteSent(h) /\ sent' = sent + 1 BY DEF sendRequest, sendCorrelatedRequest
<1>3. leader = h <=> Leads(proc[h]) BY DEF HandlerInv, LeaderInv
<1>4. leader = None \/ leader \in Handlers BY DEF HandlerInv, LeaderInv
<1>5. CASE leader = h
  <2>1. proc[h].op = "initialize" /\ proc[h].cut BY <1>3, <1>5 DEF Leads
  <2>2. handshakes' = handshakes + 1 /\ excused' = excused
    BY <1>2, <2>1 DEF noteSent, HandshakeInv
  <2>3. InTheAir' /\ ~InTheAir BY Zenon, <1>1, <1>5 DEF InTheAir
  <2> QED BY <1>1, <1>2, <1>5, <2>2, <2>3 DEF HandshakeInv
<1>6. CASE leader # h
  <2>1. ~(proc[h].op = "initialize" /\ proc[h].cut) BY <1>1, <1>3, <1>6 DEF Leads
  <2>2. \/ handshakes' = handshakes + 1 /\ excused' = excused + 1
        \/ handshakes' = handshakes /\ excused' = excused
    BY <1>2, <2>1 DEF noteSent, HandshakeInv
  <2>3. InTheAir' <=> InTheAir BY <1>1, <1>4, <1>6 DEF InTheAir
  <2> QED BY <1>1, <1>2, <2>2, <2>3 DEF HandshakeInv
<1> QED BY Zenon, <1>5, <1>6

LEMMA HandshakeNext ==
  ASSUME HandlerInv, HandshakeInv, sent \in Nat, used \in [Sessions -> Nat], [Next]_vars
  PROVE  HandshakeInv'
<1>1. CASE backendStep \/ dispatchResponses \/ quiet \/ reapClose \/ StopStreams \/ UNCHANGED vars
  <2>1. UNCHANGED <<proc, leader, cached, history, sent>>
    BY Zenon, <1>1, QuietKeeps DEF backendStep, backendAnswers, messageLost, dispatchResponses,
         routeResponseToWaiter, outside, routeVars, reapClose, reapVars, StopStreams, vars,
         pipeVars
  <2> QED BY <2>1, HandshakeRests
<1>2. ASSUME NEW h \in Handlers,
             \/ arrivals(h) \/ posts(h) \/ localStep(h) \/ interceptInitialize(h)
             \/ sendRequest(h) \/ sendFails(h) \/ receive(h) \/ giveUp(h)
             \/ registerStream(h) \/ leaveStream(h) \/ closeDeleted(h)
      PROVE  HandshakeInv'
  <2>1. CASE arrivals(h) \/ posts(h)
    <3>1. /\ UNCHANGED <<history, leader, cached, sent>> /\ proc[h].pc # "wait" /\ proc'[h].pc # "wait"
          /\ \A g \in Handlers : g # h => proc'[g] = proc[g]
      BY Zenon, <2>1, ArriveKeeps DEF routeVars, pipeVars
    <3> QED BY <3>1, HandshakeRests
  <2>2. CASE localStep(h)
    <3>1. /\ UNCHANGED <<history, leader, cached, sent>> /\ proc[h].pc # "wait" /\ proc'[h].pc # "wait"
          /\ \A g \in Handlers : g # h => proc'[g] = proc[g]
      BY Zenon, <2>2, LocalKeeps DEF Elsewhere, pipeVars
    <3> QED BY <3>1, HandshakeRests
  <2>3. CASE registerStream(h) \/ leaveStream(h) \/ closeDeleted(h)
    <3>1. /\ UNCHANGED <<history, leader, cached, sent>> /\ proc[h].pc # "wait" /\ proc'[h].pc # "wait"
          /\ \A g \in Handlers : g # h => proc'[g] = proc[g]
      BY <2>3, StreamStepKeeps DEF routeVars, pipeVars
    <3> QED BY <3>1, HandshakeRests
  <2>4. CASE interceptInitialize(h)
    <3>1. /\ UNCHANGED <<history, cached, sent>> /\ proc[h].pc # "wait" /\ proc'[h].pc # "wait"
          /\ \A g \in Handlers : g # h => proc'[g] = proc[g]
          /\ \/ leader' = leader
             \/ leader = None /\ ~cached /\ leader' = h
      BY Zenon, <2>4, FlyKeeps DEF pipeVars
    <3>2. CASE leader' = leader BY <3>1, <3>2, HandshakeRests
    <3>3. CASE leader = None /\ ~cached /\ leader' = h
      <4>1. ~InTheAir /\ ~InTheAir' BY <3>1, <3>3 DEF InTheAir
      <4>2. ~cached' /\ handshakes' = handshakes /\ excused' = excused /\ sent' = sent
        BY <3>1, <3>3 DEF history
      <4> QED BY <3>3, <4>1, <4>2 DEF HandshakeInv
    <3> QED BY Zenon, <3>1, <3>2, <3>3
  <2>5. CASE sendRequest(h) BY <2>5, HandshakeSent
  <2>6. CASE sendFails(h)
    <3>1. finish(h, FALSE) /\ proc[h].pc = "send" /\ UNCHANGED history /\ sent' = sent
      BY Zenon, <2>6 DEF sendFails, At, pipeVars
    <3> QED BY Zenon, <3>1, HandshakeEnds
  <2>7. CASE giveUp(h)
    <3>1. finish(h, FALSE) /\ proc[h].pc = "wait" /\ noteFailure(h, FALSE) /\ sent' = sent
      BY Zenon, <2>7 DEF giveUp, At, cleanup
    <3> QED BY Zenon, <3>1, HandshakeEnds
  <2>8. CASE receive(h)
    <3>0. sent' = sent BY Zenon, <2>8 DEF receive, cleanup
    <3>1. proc[h].pc = "wait" /\ noteFailure(h, chan[h][1].ok)
      BY <2>8, ReceiveKeeps
    <3>2. CASE finish(h, chan[h][1].ok) BY Zenon, <3>0, <3>1, <3>2, HandshakeEnds
    <3>3. CASE ~finish(h, chan[h][1].ok)
      <4>1. /\ proc[h].op = "subscribe" /\ UNCHANGED routeVars
            /\ \A g \in Handlers : g # h => proc'[g] = proc[g]
        BY Zenon, <2>8, <3>3, ReceiveKeeps
      <4>2. leader # h /\ UNCHANGED <<leader, cached>>
        BY <4>1 DEF HandlerInv, LeaderInv, Leads, routeVars
      <4>3. handshakes' = handshakes /\ excused' = excused
        BY <3>1, <4>2 DEF noteFailure, HandshakeInv
      <4>4. InTheAir' <=> InTheAir
        BY <4>1, <4>2 DEF InTheAir, HandlerInv, LeaderInv
      <4> QED BY <3>0, <4>2, <4>3, <4>4 DEF HandshakeInv
    <3> QED BY <3>2, <3>3
  <2> QED BY Zenon, <1>2, <2>1, <2>2, <2>3, <2>4, <2>5, <2>6, <2>7, <2>8
<1> QED BY <1>1, <1>2, StepKinds
==============================================================================
