--------------------------- MODULE StreamableProxy ---------------------------
(***************************************************************************)
(* The streamable HTTP proxy in front of a stdio backend                   *)
(* (pkg/transport/proxy/streamable). Many client sessions share one        *)
(* backend process, so the proxy                                           *)
(*                                                                         *)
(*   - correlates each forwarded request with its response (Correlation);  *)
(*   - answers every initialize after the first from one shared handshake; *)
(*   - counts the subscribers of a resource and forwards only the first    *)
(*     subscribe and the last unsubscribe, under a lock per resource;      *)
(*   - keeps one stream per session (ServerStreams), torn down on DELETE,  *)
(*     on a second GET, on Stop and by the reaper.                         *)
(*                                                                         *)
(* A handler is the goroutine that serves one HTTP request; it is idle     *)
(* again when that request is done.                                        *)
(***************************************************************************)
EXTENDS Correlation

CONSTANT Mixes   \* bounds: what clients, the clock and the operator may do

ASSUME ProxyConstants ==
  /\ NoSession \notin Sessions
  /\ None \notin Handlers \cup Uris
  /\ \A s \in Sessions : s \notin Nat
  /\ MessageCap \in Nat
  /\ ResponseCap \in Nat
  /\ MaxRequests \in Nat
  /\ \A m \in Mixes : m.sessions \subseteq Sessions /\ m.requests \in 0..MaxRequests

VARIABLES
  mix,          \* the bound of this behaviour, one of Mixes
  present,      \* sessions the session manager's storage holds
  proc,         \* the request each handler serves and how far it is
  subs,         \* sessionRouter.subs: resource -> recorded sessions
  uriLock,      \* HTTPProxy.uriLocks: resource -> handler or None
  leader,       \* the handler that runs the initialize flight, or None
  cached,       \* initializeCache.result is set
  reaper,       \* the reaper's place in one pass of reapRoutingState
  phase,        \* how far Stop has come, one of Phases
  handshakes,   \* history: initialize requests forwarded
  excused,      \* history: forwards that did not complete the handshake
  bypassed      \* history: resources unsubscribed outside the intercept

routeVars == <<mix, present, subs, uriLock, leader, cached, reaper, phase>>
history   == <<handshakes, excused, bypassed>>
vars      == <<proc, routeVars, history, pipeVars, streamVars>>

Idle == [op |-> "idle", sess |-> NoSession, uri |-> None, pc |-> "idle",
         cut |-> FALSE, n |-> 0, key |-> <<>>]

Pcs == {"idle", "add", "store", "lock", "intercept", "peek", "remove", "send",
        "wait", "record", "fly", "joined", "register", "stream", "delete",
        "purge", "close"}

Phases == {"up", "closing", "streams closed", "sessions cleared", "down"}

ProxyTypeOK ==
  /\ PipeTypeOK
  /\ StreamsTypeOK
  /\ mix \in Mixes
  /\ present \subseteq Sessions
  /\ proc \in [Handlers ->
                [op : Ops \cup {"idle", "get", "delete"}, pc : Pcs,
                 sess : Sessions \cup {NoSession}, uri : Uris \cup {None},
                 cut : BOOLEAN, n : 0..MaxRequests, key : Keys \cup {<<>>}]]
  /\ subs \in [Uris -> SUBSET Sessions]
  /\ uriLock \in [Uris -> Handlers \cup {None}]
  /\ leader \in Handlers \cup {None}
  /\ cached \in BOOLEAN
  /\ reaper \in [pc : {"idle", "check", "keys", "close"}, todo : SUBSET Sessions,
                 stale : SUBSET Sessions]
  /\ phase \in Phases
  /\ handshakes \in 0..(MaxRequests + 1)
  /\ excused \in 0..MaxRequests
  /\ bypassed \subseteq Uris

Init ==
  /\ PipeInit
  /\ StreamsInit
  /\ mix \in Mixes
  /\ present \in {{}, mix.sessions}
  /\ proc = [h \in Handlers |-> Idle]
  /\ subs = [u \in Uris |-> {}]
  /\ uriLock = [u \in Uris |-> None]
  /\ leader = None
  /\ cached = (present # {})
  /\ reaper = [pc |-> "idle", todo |-> {}, stale |-> {}]
  /\ phase = "up"
  /\ handshakes = IF cached THEN 1 ELSE 0
  /\ excused = 0
  /\ bypassed = {}

At(h, pc) == proc[h].pc = pc

goto(h, pc) == proc' = [proc EXCEPT ![h].pc = pc]

done(h) == proc' = [proc EXCEPT ![h] = Idle]

unlock(h) ==
  uriLock' = [u \in Uris |-> IF uriLock[u] = h THEN None ELSE uriLock[u]]

\* Requests forwarded, or that may still be: the bound on MaxRequests counts
\* them when they arrive.
Forwarding == {h \in Handlers : proc[h].op \in Ops /\ proc[h].n = 0}

-----------------------------------------------------------------------------
(* A request arrives and resolveSessionForRequest looks its session up:    *)
(* an initialize creates the session it names, any other request needs it  *)
(* to exist, a request without a session gets a routing token.             *)

arrive(h, op, s, u, pc) ==
  /\ op \in mix.verbs[s]
  /\ At(h, "idle")
  /\ phase # "down"
  /\ proc' = [proc EXCEPT ![h] = [Idle EXCEPT !.op = op, !.sess = s,
                                              !.uri = u, !.pc = pc]]
  /\ UNCHANGED <<routeVars, history, pipeVars, streamVars>>

Initialize(h, s) ==
  /\ sent + Cardinality(Forwarding) < mix.requests
  /\ arrive(h, "initialize", s, None, IF s \in present THEN "intercept" ELSE "add")

Post(h, op, s, u) ==
  /\ sent + Cardinality(Forwarding) < mix.requests
  /\ s \in present \cup {NoSession}
  /\ arrive(h, op, s, u, IF op = "call" THEN "intercept" ELSE "lock")

Get(h, s)    == s \in present /\ arrive(h, "get", s, None, "register")
Delete(h, s) == s \in present /\ arrive(h, "delete", s, None, "delete")

\* AddWithID, first half: Load. An ID that exists by now is an error (500).
AddWithIDLoad(h) ==
  /\ At(h, "add")
  /\ IF proc[h].sess \in present THEN done(h) ELSE goto(h, "store")
  /\ UNCHANGED <<routeVars, history, pipeVars, streamVars>>

\* AddWithID, second half: Store.
AddWithIDStore(h) ==
  /\ At(h, "store")
  /\ present' = present \cup {proc[h].sess}
  /\ goto(h, "intercept")
  /\ UNCHANGED <<mix, subs, uriLock, leader, cached, reaper, phase, history, pipeVars,
                 streamVars>>

-----------------------------------------------------------------------------
(* interceptSessionScopedRequest, under uriLocks for a (un)subscribe. A    *)
(* request whose session is not (or no longer) stored is not intercepted:  *)
(* the lock is released and the request forwarded as it is.                *)

lockUri(h) ==
  /\ At(h, "lock")
  /\ uriLock[proc[h].uri] = None
  /\ IF proc[h].sess \in present
     THEN /\ uriLock' = [uriLock EXCEPT ![proc[h].uri] = h]
          /\ proc' = [proc EXCEPT ![h].cut = TRUE,
                        ![h].pc = IF proc[h].op = "subscribe"
                                  THEN "peek" ELSE "remove"]
     ELSE /\ goto(h, "send")
          /\ UNCHANGED uriLock
  /\ UNCHANGED <<mix, present, subs, leader, cached, reaper, phase, history, pipeVars,
                 streamVars>>

intercept(h) ==
  /\ At(h, "intercept")
  /\ IF proc[h].op = "initialize" /\ proc[h].sess \in present
     THEN proc' = [proc EXCEPT ![h].cut = TRUE, ![h].pc = "fly"]
     ELSE goto(h, "send")
  /\ UNCHANGED <<routeVars, history, pipeVars, streamVars>>

\* interceptSubscribe: with a recorded subscriber there is nothing to forward.
interceptSubscribe(h) ==
  /\ At(h, "peek")
  /\ goto(h, IF subs[proc[h].uri] # {} THEN "record" ELSE "send")
  /\ UNCHANGED <<routeVars, history, pipeVars, streamVars>>

\* addSubscription, and the return that releases the lock.
addSubscription(h) ==
  /\ At(h, "record")
  /\ subs' = [subs EXCEPT ![proc[h].uri] = @ \cup {proc[h].sess}]
  /\ unlock(h)
  /\ done(h)
  /\ UNCHANGED <<mix, present, leader, cached, reaper, phase, history, pipeVars,
                 streamVars>>

\* The lock is released before the unsubscribe is forwarded.
unsubscribeUnlocked(h) ==
  /\ At(h, "remove")
  /\ LET u == proc[h].uri  s == proc[h].sess IN
     /\ subs' = [subs EXCEPT ![u] = @ \ {s}]
     /\ unlock(h)
     /\ IF subs[u] = {s} THEN goto(h, "send") ELSE done(h)
  /\ UNCHANGED <<mix, present, leader, cached, reaper, phase, history, pipeVars,
                 streamVars>>

\* interceptUnsubscribe: only the last subscriber's request is forwarded;
\* removeSubscription says FALSE for a session that was not recorded.
interceptUnsubscribe(h) ==
  /\ At(h, "remove")
  /\ LET u == proc[h].uri  s == proc[h].sess IN
     /\ subs' = [subs EXCEPT ![u] = @ \ {s}]
     /\ IF subs[u] = {s} THEN goto(h, "send") /\ UNCHANGED uriLock
                         ELSE done(h) /\ unlock(h)
  /\ UNCHANGED <<mix, present, leader, cached, reaper, phase, history, pipeVars,
                 streamVars>>

\* The callback does not look at the cached result.
initializeForwards(h) ==
  /\ At(h, "fly")
  /\ IF leader # None THEN goto(h, "joined") /\ UNCHANGED leader
                      ELSE goto(h, "send") /\ leader' = h
  /\ UNCHANGED <<mix, present, subs, uriLock, cached, reaper, phase, history,
                 pipeVars, streamVars>>

\* interceptInitialize: singleflight.Do joins the flight in the air; else the
\* callback runs, which replays the cached handshake or forwards.
interceptInitialize(h) ==
  /\ At(h, "fly")
  /\ CASE leader # None -> goto(h, "joined") /\ UNCHANGED leader
       [] leader = None /\ cached -> done(h) /\ UNCHANGED leader
       [] OTHER -> goto(h, "send") /\ leader' = h
  /\ UNCHANGED <<mix, present, subs, uriLock, cached, reaper, phase, history, pipeVars,
                 streamVars>>

-----------------------------------------------------------------------------
(* doRequest: send, then wait for the response, for the request timeout,   *)
(* for the client to go away or for the shutdown.                          *)

\* What the history variables note of a request that is sent.
noteSent(h) ==
  /\ handshakes' = handshakes + (IF proc[h].op = "initialize" THEN 1 ELSE 0)
  /\ excused' = excused + (IF proc[h].op = "initialize" /\ ~proc[h].cut THEN 1 ELSE 0)
  /\ bypassed' = IF proc[h].op = "unsubscribe" /\ ~proc[h].cut
                 THEN bypassed \cup {proc[h].uri} ELSE bypassed

sendRequest(h) ==
  /\ At(h, "send")
  /\ sendCorrelatedRequest(h, proc[h].sess, proc[h].op, proc[h].uri)
  /\ proc' = [proc EXCEPT ![h].pc = "wait", ![h].n = sent + 1,
                          ![h].key = compositeKey(proc[h].sess)]
  /\ noteSent(h)
  /\ UNCHANGED <<routeVars, streamVars>>

\* The handlers that share the outcome of h: the flight's waiters with it.
Sharing(h) == IF leader = h THEN {h} \cup {g \in Handlers : At(g, "joined")} ELSE {h}

\* A failed round trip leaves the lock of the resource taken.
finishKeepsLock(h, ok) ==
  /\ proc' = [g \in Handlers |-> IF g \in Sharing(h) THEN Idle ELSE proc[g]]
  /\ leader' = IF leader = h THEN None ELSE leader
  /\ cached' = (cached \/ (leader = h /\ ok))
  /\ IF ok THEN unlock(h) ELSE UNCHANGED uriLock
  /\ UNCHANGED <<mix, present, subs, reaper, phase>>

\* The request ends without a recorded effect: the caller gets the backend's
\* answer or an error, and what the intercept holds is released.
finish(h, ok) ==
  /\ proc' = [g \in Handlers |-> IF g \in Sharing(h) THEN Idle ELSE proc[g]]
  /\ leader' = IF leader = h THEN None ELSE leader
  /\ cached' = (cached \/ (leader = h /\ ok))
  /\ unlock(h)
  /\ UNCHANGED <<mix, present, subs, reaper, phase>>

\* messageCh is full.
sendFails(h) ==
  /\ At(h, "send")
  /\ Len(messageCh) = MessageCap
  /\ finish(h, FALSE)
  /\ UNCHANGED <<history, pipeVars, streamVars>>

\* A failed handshake is not cached, and the next client's is forwarded again.
noteFailure(h, ok) ==
  /\ excused' = excused + (IF leader = h /\ ~ok THEN 1 ELSE 0)
  /\ UNCHANGED <<handshakes, bypassed>>

\* The response arrives: a granted first subscribe is to be recorded.
receive(h) ==
  /\ At(h, "wait")
  /\ chan[h] # <<>>
  /\ cleanup(h, proc[h].key)
  /\ LET ok == chan[h][1].ok IN
     /\ IF proc[h].op = "subscribe" /\ proc[h].cut /\ ok
        THEN goto(h, "record") /\ UNCHANGED routeVars
        ELSE finish(h, ok)
     /\ noteFailure(h, ok)
  /\ UNCHANGED streamVars

\* A request that timed out is sent again, once more than its client asked.
giveUpRetries(h) ==
  /\ At(h, "wait")
  /\ cleanup(h, proc[h].key)
  /\ goto(h, "send")
  /\ UNCHANGED <<routeVars, history, streamVars>>

\* The request timeout, the shutdown or the client's disconnection (not that
\* of a handshake's leader, whose upstream call is detached from its client).
giveUp(h) ==
  /\ At(h, "wait")
  /\ cleanup(h, proc[h].key)
  /\ finish(h, FALSE)
  /\ noteFailure(h, FALSE)
  /\ UNCHANGED streamVars

-----------------------------------------------------------------------------
(* handleGet, handleDelete, Stop, the expiry of a session and the reaper.  *)

registerStream(h) ==
  /\ At(h, "register")
  /\ register(h, proc[h].sess)
  /\ goto(h, "stream")
  /\ UNCHANGED <<routeVars, history, pipeVars>>

\* The stream ends: stop, shutdown, disconnection or a failed write.
leaveStream(h) ==
  /\ At(h, "stream")
  /\ deregister(h, proc[h].sess)
  /\ done(h)
  /\ UNCHANGED <<routeVars, history, pipeVars>>

deleteSession(h) ==
  /\ At(h, "delete")
  /\ present' = present \ {proc[h].sess}
  /\ goto(h, "purge")
  /\ UNCHANGED <<mix, subs, uriLock, leader, cached, reaper, phase, history, pipeVars,
                 streamVars>>

purgeSession(h) ==
  /\ At(h, "purge")
  /\ subs' = [u \in Uris |-> subs[u] \ {proc[h].sess}]
  /\ goto(h, "close")
  /\ UNCHANGED <<mix, present, uriLock, leader, cached, reaper, phase, history, pipeVars,
                 streamVars>>

closeDeleted(h) ==
  /\ At(h, "close")
  /\ closeStream(proc[h].sess)
  /\ done(h)
  /\ UNCHANGED <<routeVars, history, pipeVars>>

\* The session manager's cleanup deletes a session that was not used for the
\* TTL. When that is depends on the clock; here it may be at any time.
expire(s) ==
  /\ "expire" \in mix.verbs[s]
  /\ s \in present
  /\ present' = present \ {s}
  /\ UNCHANGED <<mix, proc, subs, uriLock, leader, cached, reaper, phase, history,
                 pipeVars, streamVars>>

\* shutdownCh is closed; the rest of Stop follows step by step, and requests
\* are accepted until the HTTP server is shut down.
Stop ==
  /\ "stop" \in mix.verbs[NoSession]
  /\ phase = "up"
  /\ phase' = "closing"
  /\ UNCHANGED <<mix, proc, present, subs, uriLock, leader, cached, reaper, history,
                 pipeVars, streamVars>>

StopStreams ==
  /\ phase = "closing"
  /\ phase' = "streams closed"
  /\ closeAll
  /\ UNCHANGED <<mix, proc, present, subs, uriLock, leader, cached, reaper, history,
                 pipeVars>>

\* Manager.Stop closes the local storage, which forgets every session.
StopSessions ==
  /\ phase = "streams closed"
  /\ phase' = "sessions cleared"
  /\ present' = {}
  /\ UNCHANGED <<mix, proc, subs, uriLock, leader, cached, reaper, history, pipeVars,
                 streamVars>>

Shutdown ==
  /\ phase = "sessions cleared"
  /\ phase' = "down"
  /\ UNCHANGED <<mix, proc, present, subs, uriLock, leader, cached, reaper, history,
                 pipeVars, streamVars>>

-----------------------------------------------------------------------------
(* reapRoutingState, one pass per tick: sessionRouter.reap snapshots the   *)
(* recorded sessions, asks for each whether it is stored, and sweeps the   *)
(* ones that were not; reapServerStreams does the same for streams, one at *)
(* a time. No lock is held between asking and sweeping.                    *)

reapVars == <<mix, proc, present, uriLock, leader, cached, phase, history, pipeVars>>

reapSnapshot ==
  /\ reaper.pc = "idle"
  /\ phase = "up"
  /\ reaper' = [pc |-> "check", stale |-> {}, todo |-> UNION {subs[u] : u \in Uris}]
  /\ UNCHANGED <<reapVars, subs, streamVars>>

isActive(s) == s \in present

reapCheck(s) ==
  /\ reaper.pc = "check"
  /\ s \in reaper.todo
  /\ reaper' = [reaper EXCEPT !.todo = @ \ {s},
                              !.stale = IF isActive(s) THEN @ ELSE @ \cup {s}]
  /\ UNCHANGED <<reapVars, subs, streamVars>>

\* The sweep keeps the sessions that were found stale.
sweepKeepsStale ==
  /\ reaper.pc = "check"
  /\ reaper.todo = {}
  /\ subs' = [u \in Uris |-> IF reaper.stale = {} THEN subs[u] ELSE subs[u] \cap reaper.stale]
  /\ reaper' = [pc |-> "keys", stale |-> {},
                todo |-> {s \in Sessions : streams[s] # None}]
  /\ UNCHANGED <<reapVars, streamVars>>

reapSweep ==
  /\ reaper.pc = "check"
  /\ reaper.todo = {}
  /\ subs' = [u \in Uris |-> subs[u] \ reaper.stale]
  /\ reaper' = [pc |-> "keys", stale |-> {},
                todo |-> {s \in Sessions : streams[s] # None}]
  /\ UNCHANGED <<reapVars, streamVars>>

reapKey(s) ==
  /\ reaper.pc = "keys"
  /\ s \in reaper.todo
  /\ reaper' = IF isActive(s) THEN [reaper EXCEPT !.todo = @ \ {s}]
               ELSE [pc |-> "close", stale |-> {s}, todo |-> reaper.todo \ {s}]
  /\ UNCHANGED <<reapVars, subs, streamVars>>

reapClose ==
  /\ reaper.pc = "close"
  /\ \E s \in reaper.stale : closeStream(s)
  /\ reaper' = [reaper EXCEPT !.pc = "keys", !.stale = {}]
  /\ UNCHANGED <<reapVars, subs>>

reapEnd ==
  /\ reaper.pc = "keys"
  /\ reaper.todo = {}
  /\ reaper' = [reaper EXCEPT !.pc = "idle"]
  /\ UNCHANGED <<reapVars, subs, streamVars>>

reap ==
  \/ reapSnapshot \/ reapSweep \/ reapClose \/ reapEnd
  \/ \E s \in Sessions : reapCheck(s) \/ reapKey(s)

-----------------------------------------------------------------------------
outside == <<proc, routeVars, history, streamVars>>

backendStep ==
  /\ (\E i \in 1..MessageCap, ok \in BOOLEAN : backendAnswers(i, ok)) \/ messageLost
  /\ UNCHANGED outside

dispatchResponses == routeResponseToWaiter /\ UNCHANGED outside

arrivals(h) ==
  \E s \in Sessions :
    \/ Initialize(h, s) \/ Get(h, s) \/ Delete(h, s)

posts(h) ==
  \E s \in Sessions \cup {NoSession} :
    \/ Post(h, "call", s, None)
    \/ \E u \in Uris : Post(h, "subscribe", s, u) \/ Post(h, "unsubscribe", s, u)

\* The steps a handler takes by itself once its request has arrived.
handlerStep(h) ==
  \/ AddWithIDLoad(h) \/ AddWithIDStore(h)
  \/ intercept(h) \/ interceptSubscribe(h) \/ addSubscription(h)
  \/ interceptUnsubscribe(h) \/ interceptInitialize(h)
  \/ sendRequest(h) \/ sendFails(h) \/ receive(h) \/ giveUp(h)
  \/ registerStream(h) \/ deleteSession(h) \/ purgeSession(h) \/ closeDeleted(h)

Next ==
  \/ backendStep \/ dispatchResponses \/ reap \/ Stop \/ StopStreams \/ StopSessions \/ Shutdown
  \/ \E s \in Sessions : expire(s)
  \/ \E h \in Handlers :
       arrivals(h) \/ posts(h) \/ lockUri(h) \/ handlerStep(h) \/ leaveStream(h)

Spec == Init /\ [][Next]_vars

\* Goroutines are scheduled, the request timeout fires, a mutex does not starve
\* its waiters, the reaper ticks, and a stopped stream's handler returns.
Fairness ==
  /\ \A h \in Handlers : /\ WF_vars(handlerStep(h))
                         /\ SF_vars(lockUri(h))
                         /\ WF_vars(leaveStream(h) /\ (h \in stopped \/ phase # "up"))
  /\ WF_vars(reap)

FairSpec == Spec /\ Fairness

-----------------------------------------------------------------------------
(* Correlation: the detailed specification implements Rendezvous. *)
asked == [h \in Handlers |-> IF At(h, "wait") THEN proc[h].n ELSE 0]
reply == [h \in Handlers |-> IF chan[h] = <<>> THEN 0 ELSE chan[h][1].n]

R == INSTANCE Rendezvous WITH last <- sent

\* A handler that waits gets the response to its own request, once, or leaves
\* without one (sendCorrelatedRequest, routeResponseToWaiter, doRequest): no
\* response of another session or of an earlier, timed-out request reaches it,
\* although clients choose equal ids and responses come late or out of order.
AnswersItsOwn == R!Spec

\* A resource with a recorded subscriber is one the backend sends updates for
\* (interceptSubscribe dedups against "a call that is known to have
\* succeeded"), unless an unsubscribe went past the intercept: through
\* timeouts, lost messages, late answers, DELETE, expiry and the reaper.
RecordedMeansSubscribed ==
  \A u \in Uris \ bypassed : subs[u] # {} => u \in subscribed

\* The backend is sent one initialize, and one more only for each that failed
\* or went past the shared handshake (interceptInitialize).
HandshakeOnce == handshakes <= 1 + excused

\* No stop channel is closed twice, by eviction, DELETE, the reaper and Stop
\* in any order: closing a closed channel would panic.
NoDoubleClose == ~panicked

\* The registered stream of a session is the one GET handler of that session
\* that was not told to stop: an evicted handler that returns late does not
\* remove its successor, and no handler lives on unregistered.
RegistryIsLive ==
  \A s \in Sessions, h \in Handlers :
    (streams[s] = h) <=> (At(h, "stream") /\ proc[h].sess = s /\ h \notin stopped)

\* Every POST is answered: the per-resource lock and the shared flight are
\* always released, because the request timeout bounds the round trip.
PostEnds == \A h \in Handlers : (proc[h].op \in Ops) ~> (proc[h].op \notin Ops)

\* What is recorded for a session that is gone (a subscribe in flight when it
\* was deleted, a stream nobody closed) is reclaimed by the reaper.
GoneSessionForgotten ==
  \A s \in Sessions :
    (s \notin present) ~>
      \/ s \in present
      \/ phase # "up"
      \/ streams[s] = None /\ \A u \in Uris : s \notin subs[u]
==============================================================================
