------------------------- MODULE LiveSessionProofs -------------------------
(***************************************************************************)
(* One live session of the vMCP server: its admission queue (MultiSession) *)
(* and its list-changed workers (ListChanged), which share no state.       *)
(***************************************************************************)
EXTENDS MultiSession, ListChanged, TLAPS

-----------------------------------------------------------------------------
(* The admission queue, for any calls, connections and numbers of Close    *)


OneCloser == \A c, d \in Closers : c = d

Past(c) == closer[c].pc \in {"drain", "closing", "closed"}

\* The queue is closed exactly when the one Close is past its critical section;
\* then nobody is between the check and the Add, and once it has drained, nobody
\* is between Add and Done.
QInv ==
  /\ QueueTypeOK
  /\ closed => \E c \in Closers : Past(c)
  /\ \A c \in Closers : Past(c) => closed
  /\ closed => \A r \in Calls : request[r].pc # "checked"
  /\ \A c \in Closers : closer[c].pc \in {"closing", "closed"} => wg = {}
  /\ (\A c \in Closers : closer[c].pc \notin {"closing", "closed"}) => open = Backends
  /\ \A r \in Calls : request[r].pc = "calling" => request[r].conn \in Backends

LEMMA InitQInv == QueueInit => QInv
  <1> SUFFICES ASSUME QueueInit
               PROVE  QInv
    OBVIOUS
  <1>1. /\ \A r \in Calls : request[r] = NoRequest
        /\ \A c \in Closers : closer[c] = [pc |-> "idle", todo |-> {}]
    BY DEF QueueInit
  <1>2. QueueTypeOK
    BY Zenon, <1>1 DEF QueueInit, QueueTypeOK, NoRequest
  <1> QED
    BY Zenon, <1>1, <1>2 DEF QueueInit, QInv, NoRequest, Past

\* A step of a request.
LEMMA RequestPreserves ==
  ASSUME QInv, NEW r \in Calls, Arrive(r) \/ TryAdmit(r) \/ Call(r)
  PROVE  QInv'
  <1>1. CASE Arrive(r)
    BY <1>1 DEF QInv, QueueTypeOK, Past, Arrive, RequestIs
  <1>2. CASE RLock(r)
    BY <1>2 DEF QInv, QueueTypeOK, Past, RLock, RequestIs
  <1>3. CASE CheckClosed(r)
    BY SMTT(30), <1>3 DEF QInv, QueueTypeOK, Past, CheckClosed, RequestIs
  <1>4. CASE Admit(r)
    <2>1. ~closed /\ \A c \in Closers : ~Past(c)
      BY <1>4 DEF QInv, Admit
    <2> QED
      BY <1>4, <2>1 DEF QInv, QueueTypeOK, Past, Admit, RequestIs
  <1>5. CASE lookupBackend(r)
    BY <1>5 DEF QInv, QueueTypeOK, Past, lookupBackend, Done, RequestIs
  <1>6. CASE CallReturns(r)
    BY <1>6 DEF QInv, QueueTypeOK, Past, CallReturns, Done, RequestIs
  <1> QED
    BY Zenon, <1>1, <1>2, <1>3, <1>4, <1>5, <1>6 DEF TryAdmit, Call

\* A step of the one Close.
LEMMA ClosePreserves ==
  ASSUME QInv, OneCloser, NEW c \in Closers, BeginClose(c) \/ Close(c)
  PROVE  QInv'
  <1>1. CASE BeginClose(c)
    BY <1>1 DEF QInv, QueueTypeOK, Past, OneCloser, BeginClose, CloserIs
  <1>2. CASE Lock(c)
    <2>1. ~closed
      BY <1>2 DEF QInv, Past, OneCloser, Lock
    <2> QED
      BY <1>2, <2>1 DEF QInv, QueueTypeOK, Past, OneCloser, Lock, CloserIs, Reading
  <1>3. CASE Drained(c)
    BY <1>3 DEF QInv, QueueTypeOK, Past, OneCloser, Drained, CloserIs
  <1>4. CASE CloseConnection(c)
    BY <1>4 DEF QInv, QueueTypeOK, Past, OneCloser, CloseConnection, CloserIs
  <1> QED
    BY Zenon, <1>1, <1>2, <1>3, <1>4 DEF Close

\* The invariant of the admission queue and its one Close.
THEOREM QueueInvariant == OneCloser => (QueueSpec => []QInv)
  <1> SUFFICES ASSUME OneCloser
               PROVE  QueueSpec => []QInv
    OBVIOUS
  <1>1. QueueInit => QInv
    BY InitQInv
  <1>2. QInv /\ [QueueNext]_queueVars => QInv'
    <2> SUFFICES ASSUME QInv, [QueueNext]_queueVars
                 PROVE  QInv'
      OBVIOUS
    <2>1. CASE UNCHANGED queueVars
      BY <2>1 DEF QInv, QueueTypeOK, Past, queueVars
    <2> QED
      BY Zenon, <2>1, RequestPreserves, ClosePreserves DEF QueueNext
  <1> QED
    BY <1>1, <1>2, PTL DEF QueueSpec

\* A session that is closed by one Close is never used on a connection that has
\* been closed: CloseAndDrain sets the flag under the write lock, so every
\* request either is counted by the wait group it waits for or sees the flag.
THEOREM CallsUseOpenConnections == OneCloser => (QueueSpec => []NoCallOnClosed)
  <1>1. QInv => NoCallOnClosed
    BY DEF QInv, QueueTypeOK, NoCallOnClosed
  <1> QED
    BY <1>1, QueueInvariant, PTL

\* Whoever closes the session, and however often: the wait group counts exactly
\* the requests between Add and Done (TryAdmit, CallReturns).
THEOREM WaitGroupCounts == QueueSpec => []QueueTypeOK
  <1>1. QueueInit => QueueTypeOK
    <2> SUFFICES ASSUME QueueInit
                 PROVE  QueueTypeOK
      OBVIOUS
    <2>1. \A r \in Calls : request[r] = NoRequest
      BY DEF QueueInit
    <2> QED
      BY Zenon, <2>1 DEF QueueInit, QueueTypeOK, NoRequest
  <1>2. QueueTypeOK /\ [QueueNext]_queueVars => QueueTypeOK'
    <2> SUFFICES ASSUME QueueTypeOK, [QueueNext]_queueVars
                 PROVE  QueueTypeOK'
      OBVIOUS
    <2>1. CASE UNCHANGED queueVars
      BY <2>1 DEF QueueTypeOK, queueVars
    <2>2. ASSUME NEW r \in Calls, Arrive(r) \/ TryAdmit(r) \/ Call(r)
          PROVE  QueueTypeOK'
      <3>1. CASE Arrive(r) \/ RLock(r)
        BY <3>1 DEF QueueTypeOK, Arrive, RLock, RequestIs
      <3>2. CASE CheckClosed(r)
        <4>1. PICK where \in {"idle", "checked"} : RequestIs(r, where, "none")
          BY Zenon, <3>2 DEF CheckClosed
        <4>2. r \notin wg /\ UNCHANGED <<closer, closed, wg, open>>
          BY <3>2 DEF QueueTypeOK, CheckClosed
        <4> QED
          BY <4>1, <4>2 DEF QueueTypeOK, RequestIs
      <3>3. CASE Admit(r)
        BY <3>3 DEF QueueTypeOK, Admit, RequestIs
      <3>4. CASE lookupBackend(r)
        BY <3>4 DEF QueueTypeOK, lookupBackend, Done, RequestIs
      <3>5. CASE CallReturns(r)
        BY <3>5 DEF QueueTypeOK, CallReturns, Done, RequestIs
      <3> QED
        BY Zenon, <2>2, <3>1, <3>2, <3>3, <3>4, <3>5 DEF TryAdmit, Call
    <2>3. ASSUME NEW c \in Closers, BeginClose(c) \/ Close(c)
          PROVE  QueueTypeOK'
      <3>1. CASE BeginClose(c)
        BY <3>1 DEF QueueTypeOK, BeginClose, CloserIs
      <3>4. CASE Lock(c)
        <4>1. closer'[c].pc = "drain" \/ closer'[c].pc = "closing"
          BY <3>4 DEF QueueTypeOK, Lock, CloserIs
        <4> QED
          BY <3>4, <4>1 DEF QueueTypeOK, Lock, CloserIs
      <3>2. CASE Drained(c)
        BY <3>2 DEF QueueTypeOK, Drained, CloserIs
      <3>3. CASE CloseConnection(c)
        BY <3>3 DEF QueueTypeOK, CloseConnection, CloserIs
      <3> QED
        BY Zenon, <2>3, <3>1, <3>2, <3>3, <3>4 DEF Close
    <2> QED
      BY Zenon, <2>1, <2>2, <2>3 DEF QueueNext
  <1> QED
    BY <1>1, <1>2, PTL DEF QueueSpec

-----------------------------------------------------------------------------
(* The coalescing worker, for any kinds, goroutines, callers and changes:  *)
(* one run at a time, and no notification lost.                            *)


Busy(g) == routine[g].pc # "idle"

Routines ==
  /\ routine = [g \in Goroutines |-> routine[g]]
  /\ \A g \in Goroutines : routine[g].pc \in {"idle", "run", "list", "ran"}

Flags ==
  /\ running \in [Kinds -> BOOLEAN]
  /\ dirty \in [Kinds -> BOOLEAN]
  /\ owed \in [Kinds -> BOOLEAN]

\* running is TRUE exactly while a goroutine works for the kind.
RunningIsBusy ==
  /\ \A g \in Goroutines : Busy(g) => routine[g].kind \in Kinds /\ running[routine[g].kind]
  /\ \A k \in Kinds : running[k] => \E g \in Goroutines : Busy(g) /\ routine[g].kind = k

WInv == Routines /\ Flags /\ RunningIsBusy /\ AtMostOneRun /\ NoLostNotification

LEMMA InitWInv ==
  ASSUME Init
  PROVE  WInv
  <1>1. /\ routine = [g \in Goroutines |-> Idle]
        /\ \A g \in Goroutines : routine[g].pc = "idle"
        /\ running = [k \in Kinds |-> FALSE]
        /\ dirty = [k \in Kinds |-> FALSE]
        /\ owed = [k \in Kinds |-> FALSE]
    BY DEF Init, Idle
  <1> QED
    BY <1>1 DEF WInv, Routines, Flags, RunningIsBusy, Busy, AtMostOneRun, NoLostNotification

\* What a step of RoutineIs makes of the goroutines.
LEMMA RoutineStep ==
  ASSUME WInv, NEW g \in Goroutines, NEW pc \in {"run", "list", "ran"}, NEW k, NEW todo,
         RoutineIs(g, pc, k, todo)
  PROVE  /\ Routines'
         /\ routine'[g].pc = pc /\ routine'[g].kind = k
         /\ \A h \in Goroutines : h # g => routine'[h] = routine[h]
  BY DEF WInv, Routines, RoutineIs

\* A goroutine that stays busy for its kind disturbs nothing, as long as it
\* does not leave "run" with a notification still owed.
LEMMA StaysBusy ==
  ASSUME WInv, NEW g \in Goroutines, NEW k \in Kinds, NEW pc \in {"run", "list", "ran"},
         NEW todo,
         Busy(g), routine[g].kind = k, RoutineIs(g, pc, k, todo),
         UNCHANGED running, dirty' \in [Kinds -> BOOLEAN], owed' \in [Kinds -> BOOLEAN],
         \A j \in Kinds : j # k => dirty'[j] = dirty[j] /\ owed'[j] = owed[j],
         owed'[k] => pc = "run" \/ dirty'[k]
  PROVE  WInv'
  <1>1. /\ Routines'
        /\ routine'[g].pc = pc /\ routine'[g].kind = k
        /\ \A h \in Goroutines : h # g => routine'[h] = routine[h]
    BY DEF WInv, Routines, RoutineIs
  <1>2. Flags'
    BY Zenon DEF WInv, Flags
  <1>3. RunningIsBusy'
    <2>1. \A h \in Goroutines : Busy(h)' =>
            routine'[h].kind \in Kinds /\ running'[routine'[h].kind]
      BY <1>1 DEF WInv, RunningIsBusy, Busy
    <2>2. ASSUME NEW j \in Kinds, running'[j]
          PROVE  \E h \in Goroutines : Busy(h)' /\ routine'[h].kind = j
      <3>1. PICK h \in Goroutines : Busy(h) /\ routine[h].kind = j
        BY Zenon, <2>2 DEF WInv, RunningIsBusy
      <3>2. CASE h = g
        BY <1>1, <3>1, <3>2 DEF Busy
      <3>3. CASE h # g
        BY Zenon, <1>1, <3>1, <3>3 DEF Busy
      <3> QED
        BY Zenon, <3>2, <3>3
    <2> QED
      BY Zenon, <2>1, <2>2 DEF RunningIsBusy
  <1>4. AtMostOneRun'
    BY <1>1 DEF WInv, AtMostOneRun, Busy
  <1>5. NoLostNotification'
    <2> SUFFICES ASSUME NEW j \in Kinds, owed'[j]
                 PROVE  \E h \in Goroutines :
                          /\ routine'[h].kind = j
                          /\ routine'[h].pc = "run" \/ (routine'[h].pc # "idle" /\ dirty'[j])
      BY Zenon DEF NoLostNotification
    <2>1. CASE j = k
      BY <1>1, <2>1
    <2>2. CASE j # k
      BY <1>1, <2>2 DEF WInv, NoLostNotification, Busy
    <2> QED
      BY Zenon, <2>1, <2>2
  <1> QED
    BY Zenon, <1>1, <1>2, <1>3, <1>4, <1>5 DEF WInv

LEMMA StartsOne ==
  ASSUME NEW k, Starts(k)
  PROVE  \E g \in Goroutines : /\ routine[g].pc = "idle"
                               /\ RoutineIs(g, "run", k, << >>)
                               /\ running' = [running EXCEPT ![k] = TRUE]
                               /\ UNCHANGED dirty
  BY Zenon DEF Starts

LEMMA TriggerPreserves ==
  ASSUME WInv, NEW k \in Kinds, trigger(k)
  PROVE  WInv'
  <1>1. /\ owed' \in [Kinds -> BOOLEAN]
        /\ \A j \in Kinds : j # k => owed'[j] = owed[j]
    BY DEF trigger, Delivered, WInv, Flags
  <1>2. CASE running[k]
    <2>1. /\ dirty' = [dirty EXCEPT ![k] = TRUE] /\ UNCHANGED <<running, routine>>
      BY Zenon, <1>2 DEF trigger
    <2>2. dirty' \in [Kinds -> BOOLEAN] /\ dirty'[k] /\ \A j \in Kinds : dirty[j] => dirty'[j]
      BY <2>1 DEF WInv, Flags
    <2>3. NoLostNotification'
      <3> SUFFICES ASSUME NEW j \in Kinds, owed'[j]
                   PROVE  \E h \in Goroutines :
                            /\ routine[h].kind = j
                            /\ routine[h].pc = "run" \/ (routine[h].pc # "idle" /\ dirty'[j])
        BY Zenon, <2>1 DEF NoLostNotification
      <3>1. CASE j = k
        BY Zenon, <1>2, <2>2, <3>1 DEF WInv, RunningIsBusy, Busy
      <3>2. CASE j # k
        BY Zenon, <1>1, <2>2, <3>2 DEF WInv, NoLostNotification
      <3> QED
        BY Zenon, <3>1, <3>2
    <2> QED
      BY Zenon, <1>1, <2>1, <2>2, <2>3 DEF WInv, Routines, Flags, RunningIsBusy, Busy, AtMostOneRun
  <1>3. CASE ~running[k]
    <2>1. PICK g \in Goroutines : /\ routine[g].pc = "idle"
                                  /\ RoutineIs(g, "run", k, << >>)
                                  /\ running' = [running EXCEPT ![k] = TRUE]
                                  /\ UNCHANGED dirty
      BY Zenon, <1>3, StartsOne DEF trigger
    <2>2. /\ Routines'
          /\ routine'[g].pc = "run" /\ routine'[g].kind = k
          /\ \A h \in Goroutines : h # g => routine'[h] = routine[h]
      BY Zenon, <2>1, RoutineStep
    <2>3. /\ running' \in [Kinds -> BOOLEAN] /\ running'[k]
          /\ \A j \in Kinds : j # k => running'[j] = running[j]
      BY <2>1 DEF WInv, Flags
    <2>4. \A h \in Goroutines : Busy(h) => routine[h].kind # k /\ h # g
      BY Zenon, <1>3, <2>1 DEF WInv, RunningIsBusy, Busy
    <2>5. Flags'
      BY Zenon, <1>1, <2>1, <2>3 DEF WInv, Flags
    <2>6. RunningIsBusy'
      BY <2>2, <2>3, <2>4 DEF WInv, RunningIsBusy, Busy
    <2>7. AtMostOneRun'
      BY <2>2, <2>4 DEF WInv, AtMostOneRun, Busy
    <2>8. NoLostNotification'
      BY <1>1, <2>1, <2>2, <2>4 DEF WInv, NoLostNotification, Busy
    <2> QED
      BY Zenon, <2>2, <2>5, <2>6, <2>7, <2>8 DEF WInv
  <1> QED
    BY Zenon, <1>2, <1>3 DEF WInv, Flags

LEMMA LoopPreserves ==
  ASSUME WInv, NEW g \in Goroutines, loop(g)
  PROVE  WInv'
  <1>1. PICK k \in Kinds : k = routine[g].kind /\ Busy(g) /\ routine[g].pc = "ran"
    BY DEF loop, WInv, RunningIsBusy, Busy
  <1>2. owed' = owed
    BY Zenon DEF loop
  <1>3. CASE dirty[k]
    <2>1. /\ dirty' = [dirty EXCEPT ![k] = FALSE]
          /\ RoutineIs(g, "run", k, << >>)
          /\ UNCHANGED running
      BY Zenon, <1>1, <1>3 DEF loop
    <2>2. dirty' \in [Kinds -> BOOLEAN] /\ \A j \in Kinds : j # k => dirty'[j] = dirty[j]
      BY <2>1 DEF WInv, Flags
    <2>3. owed' \in [Kinds -> BOOLEAN]
      BY Zenon, <1>2 DEF WInv, Flags
    <2> QED
      BY Zenon, <1>1, <1>2, <2>1, <2>2, <2>3, StaysBusy
  <1>4. CASE ~dirty[k]
    <2>1. /\ running' = [running EXCEPT ![k] = FALSE]
          /\ routine' = [routine EXCEPT ![g] = Idle]
          /\ UNCHANGED dirty
      BY Zenon, <1>1, <1>4 DEF loop
    <2>2. /\ Routines' /\ routine'[g].pc = "idle"
          /\ \A h \in Goroutines : h # g => routine'[h] = routine[h]
      BY <2>1 DEF WInv, Routines, Idle
    <2>3. /\ running' \in [Kinds -> BOOLEAN] /\ ~running'[k]
          /\ \A j \in Kinds : j # k => running'[j] = running[j]
      BY <2>1 DEF WInv, Flags
    <2>4. \A h \in Goroutines : Busy(h) /\ h # g => routine[h].kind # k
      BY Zenon, <1>1 DEF WInv, AtMostOneRun, Busy
    <2>5. Flags'
      BY Zenon, <1>2, <2>1, <2>3 DEF WInv, Flags
    <2>6. RunningIsBusy'
      BY <1>1, <2>2, <2>3, <2>4 DEF WInv, RunningIsBusy, Busy
    <2>7. AtMostOneRun'
      BY <2>2 DEF WInv, AtMostOneRun, Busy
    <2>8. ~owed[k]
      BY <1>1, <1>4, <2>4 DEF WInv, NoLostNotification, Busy
    <2>9. NoLostNotification'
      BY <1>1, <1>2, <2>1, <2>2, <2>8 DEF WInv, NoLostNotification, Busy
    <2> QED
      BY Zenon, <2>2, <2>5, <2>6, <2>7, <2>9 DEF WInv
  <1> QED
    BY Zenon, <1>3, <1>4 DEF WInv, Flags

LEMMA ResyncPreserves ==
  ASSUME WInv, NEW g \in Goroutines, runListChangedResync(g) \/ resyncSession(g)
  PROVE  WInv'
  <1>1. PICK k \in Kinds : k = routine[g].kind /\ Busy(g)
    BY DEF runListChangedResync, resyncSession, WInv, RunningIsBusy, Busy
  <1>2. UNCHANGED <<running, dirty>>
    BY Zenon DEF runListChangedResync, resyncSession
  <1>3. dirty' \in [Kinds -> BOOLEAN] /\ \A j \in Kinds : dirty'[j] = dirty[j]
    BY Zenon, <1>2 DEF WInv, Flags
  <1>4. CASE runListChangedResync(g)
    <2>1. owed' = [owed EXCEPT ![k] = FALSE]
      BY Zenon, <1>1, <1>4 DEF runListChangedResync
    <2>2. /\ owed' \in [Kinds -> BOOLEAN] /\ ~owed'[k]
          /\ \A j \in Kinds : j # k => owed'[j] = owed[j]
      BY <2>1 DEF WInv, Flags
    <2>3. RoutineIs(g, "list", k, ListsOf[k]) \/ RoutineIs(g, "ran", k, << >>)
      BY Zenon, <1>1, <1>4 DEF runListChangedResync
    <2> QED
      BY Zenon, <1>1, <1>2, <1>3, <2>2, <2>3, StaysBusy
  <1>5. CASE resyncSession(g)
    <2>1. owed' = owed /\ routine[g].pc = "list"
      BY Zenon, <1>5 DEF resyncSession
    <2>2. owed' \in [Kinds -> BOOLEAN] /\ \A j \in Kinds : owed'[j] = owed[j]
      BY Zenon, <2>1 DEF WInv, Flags
    <2>3. \/ RoutineIs(g, "list", k, Tail(routine[g].todo))
          \/ RoutineIs(g, "ran", k, << >>)
      BY Zenon, <1>1, <1>5 DEF resyncSession, Replace
    <2>4. owed[k] => dirty[k]
      <3> SUFFICES ASSUME owed[k]
                   PROVE  dirty[k]
        BY Zenon
      <3>1. PICK h \in Goroutines :
              /\ routine[h].kind = k
              /\ routine[h].pc = "run" \/ (routine[h].pc # "idle" /\ dirty[k])
        BY Zenon DEF WInv, NoLostNotification
      <3>2. h = g
        BY <1>1, <3>1 DEF WInv, AtMostOneRun, Busy
      <3> QED
        BY <2>1, <3>1, <3>2
    <2> QED
      BY Zenon, <1>1, <1>2, <1>3, <2>2, <2>3, <2>4, StaysBusy
  <1> QED
    BY Zenon, <1>4, <1>5

LEMMA NextWInv ==
  ASSUME WInv, [Next]_vars
  PROVE  WInv'
  <1>1. CASE UNCHANGED <<running, dirty, routine, owed>>
    BY Zenon, <1>1 DEF WInv, Routines, Flags, RunningIsBusy, Busy, AtMostOneRun, NoLostNotification
  <1>2. ASSUME NEW k \in Kinds, trigger(k)
        PROVE  WInv'
    BY Zenon, <1>2, TriggerPreserves
  <1>3. ASSUME NEW g \in Goroutines, Worker(g)
        PROVE  WInv'
    BY Zenon, <1>3, ResyncPreserves, LoopPreserves DEF Worker
  <1>4. ASSUME NEW c \in Callers, AggregateCapabilities(c)
        PROVE  WInv'
    BY Zenon, <1>1, <1>4 DEF AggregateCapabilities
  <1>5. ASSUME (\E asked \in SUBSET Registry : EntryExpires(asked))
               \/ injectCoreSessionCapabilities \/ Terminate
        PROVE  WInv'
    BY Zenon, <1>1, <1>5 DEF EntryExpires, injectCoreSessionCapabilities, ListDerived,
       ListNotDerived, ExistingRead, MergedSet, Terminate
  <1>6. ASSUME NEW b \in Registry, NEW k \in Kinds, BackendChanges(b, k)
        PROVE  WInv'
    BY Zenon, <1>1, <1>6 DEF BackendChanges
  <1>7. ASSUME NEW r \in Requests, RequestStarts(r) \/ RequestEnds(r)
        PROVE  WInv'
    BY Zenon, <1>1, <1>7 DEF RequestStarts, RequestEnds
  <1>8. CASE UNCHANGED vars
    BY Zenon, <1>1, <1>8 DEF vars
  <1> QED
    BY Zenon, <1>2, <1>3, <1>4, <1>5, <1>6, <1>7, <1>8 DEF Next

\* The inductive invariant of the workers holds in every reachable state.
THEOREM WorkersInvariant == Spec => []WInv
  <1>1. Init => WInv
    BY InitWInv
  <1>2. WInv /\ [Next]_vars => WInv'
    BY NextWInv
  <1> QED
    BY <1>1, <1>2, PTL DEF Spec

\* At most one resync of a kind is in flight, however fast notifications come:
\* listChangedResyncWorker starts a goroutine only when none works for it.
THEOREM OneRunAtATime == Spec => []AtMostOneRun
  <1>1. WInv => AtMostOneRun
    BY DEF WInv
  <1> QED
    BY <1>1, WorkersInvariant, PTL

\* No notification is lost between trigger and the exit of loop: a run that
\* begins after it is pending for as long as it is owed.
THEOREM NotificationsAreKept == Spec => []NoLostNotification
  <1>1. WInv => NoLostNotification
    BY DEF WInv
  <1> QED
    BY <1>1, WorkersInvariant, PTL

-----------------------------------------------------------------------------
(* What the variables of the list-changed workers hold.                    *)

Among(l, s) == \E i \in DOMAIN s : s[i] = l

Versions ==
  /\ bound \in Bounds
  /\ backend \in [Registry -> [Kinds -> Version]] /\ begun \in [Kinds -> [Registry -> Version]]
  /\ notified \in [Kinds -> Nat]

CallPcs == {"none", "get", "sweep", "ok", "error"}

CallStates == [Callers -> [pc : CallPcs, view : View]]

CallsOK ==
  /\ cache \in [SUBSET Registry -> View]
  /\ call \in CallStates
  /\ \A c \in Callers : call[c].pc = "ok" => call[c].view # NoView

\* The lists that a run still has to replace are of its kind.
TodoOK ==
  \A g \in Goroutines : routine[g].pc = "list" =>
    /\ routine[g].todo \in Seq(Lists) /\ routine[g].todo # << >>
    /\ \A i \in DOMAIN routine[g].todo : KindOf(routine[g].todo[i]) = routine[g].kind

\* What the store of a list may hold.
Stores == [Registry -> SUBSET Version]

RegisterPcs == {"list", "existing", "set", "done", "failed"}

\* By the time the registration installs a list it has derived all of them.
RegisterOK ==
  /\ register \in [pc : RegisterPcs, todo : Seq(Lists), got : Seq(View),
                   existing : Stores]
  /\ register.pc = "list" =>
       register.todo # << >> /\ Len(register.got) + Len(register.todo) = Len(Derived)
  /\ register.pc \in {"existing", "set"} =>
       register.todo # << >> /\ Len(register.got) = Len(Derived)

OthersOK ==
  /\ overlay \in [Lists -> Stores]
  /\ alive \in BOOLEAN
  /\ spoilt \in [Kinds -> SUBSET Registry]

LInv == WInv /\ Versions /\ CallsOK /\ TodoOK /\ RegisterOK /\ OthersOK

LEMMA ListKind ==
  /\ \A l \in Lists : KindOf(l) \in Kinds /\ Among(l, ListsOf[KindOf(l)])
  /\ \A k \in Kinds : \A i \in DOMAIN ListsOf[k] : KindOf(ListsOf[k][i]) = k
  <1>1. ASSUME NEW l \in Lists
        PROVE  KindOf(l) \in Kinds /\ \E i \in DOMAIN ListsOf[KindOf(l)] : ListsOf[KindOf(l)][i] = l
    BY Zenon, ListsAssumption DEF KindOf
  <1>2. ASSUME NEW k \in Kinds, NEW i \in DOMAIN ListsOf[k]
        PROVE  KindOf(ListsOf[k][i]) = k
    <2>1. ListsOf[k][i] \in Lists
      <3>1. ListsOf[k] \in Seq(Lists)
        BY Zenon, ListsAssumption
      <3> QED
        BY <3>1
    <2>2. PICK j \in Kinds : j = KindOf(ListsOf[k][i])
                            /\ \E h \in DOMAIN ListsOf[j] : ListsOf[j][h] = ListsOf[k][i]
      BY Zenon, <1>1, <2>1
    <2>3. PICK h \in DOMAIN ListsOf[j] : ListsOf[j][h] = ListsOf[k][i]
      BY Zenon, <2>2
    <2>4. j = k
      BY ListsAssumption, <2>3
    <2> QED
      BY Zenon, <2>2, <2>4
  <1> QED
    BY Zenon, <1>1, <1>2 DEF Among

\* What is left of a list of lists after its first one.
LEMMA TailOf ==
  ASSUME NEW S, NEW s \in Seq(S), s # << >>
  PROVE  /\ Head(s) \in S /\ Tail(s) \in Seq(S) /\ Len(Tail(s)) = Len(s) - 1
         /\ Among(Head(s), s)
         /\ \A i \in DOMAIN Tail(s) : Among(Tail(s)[i], s)
         /\ \A l : Among(l, s) => l = Head(s) \/ Among(l, Tail(s))
         /\ Tail(s) = << >> => Len(s) = 1 /\ \A l : Among(l, s) => l = Head(s)
  <1>1. /\ Len(s) \in Nat \ {0} /\ DOMAIN s = 1 .. Len(s) /\ s[1] = Head(s) /\ s[1] \in S
        /\ Tail(s) \in Seq(S) /\ Len(Tail(s)) = Len(s) - 1
        /\ DOMAIN Tail(s) = 1 .. Len(s) - 1
        /\ \A i \in 1 .. Len(s) - 1 : Tail(s)[i] = s[i + 1]
    OBVIOUS
  <1>2. \A i \in DOMAIN Tail(s) : Among(Tail(s)[i], s)
    BY <1>1 DEF Among
  <1>3. ASSUME NEW l, Among(l, s), l # Head(s) PROVE Among(l, Tail(s))
    <2>1. PICK i \in 1 .. Len(s) : s[i] = l /\ i # 1
      BY Zenon, <1>1, <1>3 DEF Among
    <2>2. i - 1 \in 1 .. Len(s) - 1 /\ Tail(s)[i - 1] = s[i]
      BY <1>1, <2>1
    <2> QED
      BY Zenon, <1>1, <2>1, <2>2 DEF Among
  <1>4. Tail(s) = << >> => \A l : ~Among(l, Tail(s))
    BY DEF Among
  <1>5. Among(Head(s), s)
    BY <1>1 DEF Among
  <1>6. Tail(s) = << >> => Len(s) = 1
    <2>1. 1 \in DOMAIN Tail(s) => Among(Tail(s)[1], Tail(s))
      BY Zenon DEF Among
    <2>2. Tail(s) = << >> => 1 \notin DOMAIN Tail(s)
      BY Zenon, <1>4, <2>1
    <2> QED
      BY <1>1, <2>2
  <1> QED
    BY Zenon, <1>1, <1>2, <1>3, <1>4, <1>5, <1>6

\* A view is a function on the backends that answered.
LEMMA ViewFacts ==
  ASSUME NEW v \in View
  PROVE  /\ DOMAIN v \subseteq Registry
         /\ v = [b \in DOMAIN v |-> v[b]]
         /\ \A b \in DOMAIN v : v[b] \in [Kinds -> Version]
         /\ \A b \in DOMAIN v, k \in Kinds : v[b][k] \in Version
         /\ v # NoView => DOMAIN v # {}
  <1>1. PICK answered \in SUBSET Registry : v \in [answered -> [Kinds -> Version]]
    BY Zenon DEF View
  <1>2. DOMAIN v = answered /\ v = [b \in DOMAIN v |-> v[b]]
        /\ \A b \in answered : v[b] \in [Kinds -> Version]
    BY Zenon, <1>1
  <1>3. \A b \in answered, k \in Kinds : v[b][k] \in Version
    BY Zenon, <1>2
  <1>4. DOMAIN v = {} => v = NoView
    BY <1>2 DEF NoView
  <1> QED
    BY Zenon, <1>2, <1>3, <1>4

LEMMA ViewIs ==
  ASSUME NEW answered \in SUBSET Registry, NEW v \in [answered -> [Kinds -> Version]]
  PROVE  v \in View
  BY Zenon DEF View

LEMMA NoViewIs ==
  NoView \in View /\ DOMAIN NoView = {} /\ ColdCache \in [SUBSET Registry -> View]
  <1>1. {} \in SUBSET Registry /\ NoView \in [{} -> [Kinds -> Version]] /\ DOMAIN NoView = {}
    BY DEF NoView
  <1>2. NoView \in View
    BY Zenon, <1>1, ViewIs
  <1> QED
    BY Zenon, <1>1, <1>2 DEF ColdCache

\* What a list derived from a view holds.
LEMMA ItemsFacts ==
  ASSUME NEW v \in View, NEW k \in Kinds
  PROVE  /\ Items(v, k) \in Stores
         /\ \A b \in Registry : /\ b \in DOMAIN v => Items(v, k)[b] = {v[b][k]}
                                /\ b \notin DOMAIN v => Items(v, k)[b] = {}
  <1>1. \A b \in DOMAIN v : v[b][k] \in Version
    BY Zenon, ViewFacts
  <1>2. \A b \in Registry : (IF b \in DOMAIN v THEN {v[b][k]} ELSE {}) \in SUBSET Version
    BY <1>1
  <1> QED
    BY Zenon, <1>2 DEF Items, Stores

LEMMA InitLInv ==
  ASSUME Init
  PROVE  LInv
  <1>1. 0 \in Version /\ 1 \in Version
    BY ListChangedAssumption DEF Version
  <1>2. Versions
    <2>1. 0 \in Nat
      OBVIOUS
    <2> QED
      BY Zenon, <1>1, <2>1 DEF Init, Versions
  <1>3. CallsOK
    <2>1. Asked \in [pc : CallPcs, view : View] /\ Asked.pc = "get"
      BY NoViewIs DEF Asked, CallPcs
    <2>2. NoCall \in [pc : CallPcs, view : View] /\ NoCall.pc = "none"
      BY NoViewIs DEF NoCall, CallPcs
    <2>3. bound.healthy \subseteq SUBSET Registry
      BY ListChangedAssumption DEF Init, Bound
    <2>4. ASSUME NEW s \in SweepingSince
          PROVE  s \in [pc : CallPcs, view : View] /\ s.pc = "sweep"
      <3>1. PICK asked \in SUBSET Registry :
              s = [pc |-> "sweep", view |-> [b \in asked |-> [k \in Kinds |-> 0]]]
        BY Zenon, <2>3, <2>4 DEF SweepingSince
      <3>2. [b \in asked |-> [k \in Kinds |-> 0]] \in View
        <4>1. [b \in asked |-> [k \in Kinds |-> 0]] \in [asked -> [Kinds -> Version]]
          BY Zenon, <1>1
        <4> QED
          BY Zenon, <4>1, ViewIs
      <3>3. "sweep" \in CallPcs
        BY DEF CallPcs
      <3> QED
        BY Zenon, <3>1, <3>2, <3>3
    <2>5. PICK others \in [bound.requests -> {NoCall} \cup IF bound.warm THEN SweepingSince ELSE {}] :
            call = [c \in Callers |-> IF c = Registration THEN Asked
                                      ELSE IF c \in bound.requests THEN others[c] ELSE NoCall]
      BY Zenon DEF Init
    <2>6. \A r \in bound.requests : others[r] = NoCall \/ others[r] \in SweepingSince
      BY <2>5
    <2>7. \A c \in Callers : call[c] \in [pc : CallPcs, view : View] /\ call[c].pc # "ok"
      <3> SUFFICES ASSUME NEW c \in Callers
                   PROVE  call[c] \in [pc : CallPcs, view : View] /\ call[c].pc # "ok"
        BY Zenon
      <3>1. call[c] = Asked \/ call[c] = NoCall \/ call[c] \in SweepingSince
        BY Zenon, <2>5, <2>6
      <3>2. CASE call[c] = Asked
        BY <2>1, <3>2
      <3>3. CASE call[c] = NoCall
        BY <2>2, <3>3
      <3>4. CASE call[c] \in SweepingSince
        <4>1. PICK s \in SweepingSince : call[c] = s
          BY Zenon, <3>4
        <4>2. s \in [pc : CallPcs, view : View] /\ s.pc = "sweep"
          BY Zenon, <2>4
        <4> QED
          BY <4>1, <4>2
      <3> QED
        BY Zenon, <3>1, <3>2, <3>3, <3>4
    <2>8. call \in CallStates
      BY Zenon, <2>5, <2>7 DEF CallStates
    <2>9. cache \in [SUBSET Registry -> View]
      <3>1. CASE cache = ColdCache
        BY Zenon, <3>1, NoViewIs
      <3>2. CASE cache \in WarmCaches
        <4>1. UNION {[S -> [Kinds -> {0, 1}]] : S \in SUBSET Registry} \subseteq View
          <5> SUFFICES ASSUME NEW S \in SUBSET Registry, NEW v \in [S -> [Kinds -> {0, 1}]]
                       PROVE  v \in View
            BY Zenon
          <5>1. v \in [S -> [Kinds -> Version]]
            BY <1>1
          <5> QED
            BY Zenon, <5>1, ViewIs
        <4>2. cache \in [SUBSET Registry -> UNION {[S -> [Kinds -> {0, 1}]] : S \in SUBSET Registry}]
          BY Zenon, <3>2 DEF WarmCaches
        <4> HIDE DEF View
        <4>3. PICK vs : vs = UNION {[S -> [Kinds -> {0, 1}]] : S \in SUBSET Registry}
          BY Zenon
        <4>4. cache \in [SUBSET Registry -> vs] /\ vs \subseteq View
          BY Zenon, <4>1, <4>2, <4>3
        <4> QED
          BY Zenon, <4>4
      <3> QED
        BY Zenon, <3>1, <3>2 DEF Init
    <2> QED
      BY Zenon, <2>7, <2>8, <2>9 DEF CallsOK
  <1>4. TodoOK
    BY DEF Init, TodoOK, Idle
  <1>0. NoItems \in Stores
    BY DEF NoItems, Stores
  <1>5. RegisterOK
    <2>1. register = [pc |-> "list", todo |-> Derived, got |-> << >>, existing |-> NoItems]
      BY DEF Init
    <2>2. Installed \in Seq(Lists) /\ Installed # << >> /\ Derived \in Seq(Lists)
      BY ListsAssumption
    <2>3. PICK l \in Lists : l = Installed[1]
      BY <2>2
    <2>4. Derived # << >>
      BY ListsAssumption
    <2> QED
      BY <1>0, <2>1, <2>2, <2>4 DEF RegisterOK, RegisterPcs
  <1>6. OthersOK
    BY Zenon, <1>0 DEF Init, OthersOK
  <1> QED
    BY Zenon, InitWInv, <1>2, <1>3, <1>4, <1>5, <1>6 DEF LInv

\* A call moves on.
LEMMA CallMoves ==
  ASSUME CallsOK, NEW c \in Callers, NEW pc \in CallPcs, NEW view \in View,
         CallIs(c, pc, view)
  PROVE  /\ call' \in CallStates
         /\ call'[c].pc = pc /\ call'[c].view = view
         /\ \A d \in Callers : d # c => call'[d] = call[d]
  BY DEF CallsOK, CallStates, CallIs

LEMMA CallKeepsOK ==
  ASSUME CallsOK, NEW c \in Callers, NEW pc \in CallPcs, NEW view \in View,
         CallIs(c, pc, view), pc = "ok" => view # NoView,
         cache' \in [SUBSET Registry -> View]
  PROVE  CallsOK'
  <1>1. /\ call' \in CallStates
        /\ call'[c].pc = pc /\ call'[c].view = view
        /\ \A d \in Callers : d # c => call'[d] = call[d]
    BY Zenon, CallMoves
  <1>2. \A d \in Callers : call'[d].pc = "ok" => call'[d].view # NoView
    BY Zenon, <1>1 DEF CallsOK
  <1> QED
    BY Zenon, <1>1, <1>2 DEF CallsOK

\* What a sweep returns, and what it makes of the cache.
LEMMA SweepFacts ==
  ASSUME CallsOK, NEW c \in Callers, SweepReturns(c)
  PROVE  \E view \in View :
           /\ view # NoView /\ DOMAIN view \subseteq DOMAIN call[c].view
           /\ \A b \in DOMAIN view, k \in Kinds :
                call[c].view[b][k] <= view[b][k] /\ view[b][k] <= backend[b][k]
           /\ CallIs(c, "ok", view)
           /\ cache' = IF Caching THEN [cache EXCEPT ![DOMAIN call[c].view] = view] ELSE cache
           /\ spoilt' = [k \in Kinds |-> spoilt[k] \cup Misses(c, view, k)]
  <1>1. PICK asked \in SUBSET Registry : asked = DOMAIN call[c].view
    BY Zenon, ViewFacts DEF CallsOK, CallStates
  <1>0. PICK answered \in Answered(asked) : \E view \in [answered -> [Kinds -> Version]] :
          /\ \A b \in answered, k \in Kinds :
               call[c].view[b][k] <= view[b][k] /\ view[b][k] <= backend[b][k]
          /\ CallIs(c, "ok", view)
          /\ cache' = IF Caching THEN [cache EXCEPT ![asked] = view] ELSE cache
          /\ spoilt' = [k \in Kinds |-> spoilt[k] \cup Misses(c, view, k)]
    BY Zenon, <1>1 DEF SweepReturns
  <1>2. PICK view \in [answered -> [Kinds -> Version]] :
          /\ \A b \in answered, k \in Kinds :
               call[c].view[b][k] <= view[b][k] /\ view[b][k] <= backend[b][k]
          /\ CallIs(c, "ok", view)
          /\ cache' = IF Caching THEN [cache EXCEPT ![asked] = view] ELSE cache
          /\ spoilt' = [k \in Kinds |-> spoilt[k] \cup Misses(c, view, k)]
    BY Zenon, <1>0
  <1>3. answered \subseteq asked /\ answered # {}
    BY Zenon DEF Answered
  <1>4. DOMAIN view = answered
    BY Zenon
  <1>5. view \in View /\ view # NoView
    BY Zenon, <1>3, <1>4, ViewIs, NoViewIs
  <1> QED
    BY Zenon, <1>1, <1>2, <1>3, <1>4, <1>5

\* The four steps of a call, with what it returns.
LEMMA AggregateTypes ==
  ASSUME LInv, NEW c \in Callers, AggregateCapabilities(c)
  PROVE  CallsOK'
  <1>1. CallsOK /\ {"ok", "sweep", "error"} \subseteq CallPcs
    BY DEF LInv, CallPcs
  <1>0. bound.healthy \subseteq SUBSET Registry
    BY ListChangedAssumption DEF LInv, Versions, Bound
  <1>2. CASE GetHits(c)
    <2>1. PICK asked \in SUBSET Registry : cached(asked) /\ CallIs(c, "ok", cache[asked])
      BY Zenon, <1>0, <1>2 DEF GetHits
    <2>2. cache[asked] \in View /\ cache[asked] # NoView /\ cache' \in [SUBSET Registry -> View]
      BY Zenon, <1>1, <1>2, <2>1 DEF GetHits, cached, CallsOK
    <2> QED
      BY Zenon, <1>1, <2>1, <2>2, CallKeepsOK
  <1>3. CASE GetMisses(c)
    <2>1. PICK asked \in SUBSET Registry : CallIs(c, "sweep", [b \in asked |-> backend[b]])
      BY Zenon, <1>0, <1>3 DEF GetMisses
    <2>2. [b \in asked |-> backend[b]] \in View
      <3>1. [b \in asked |-> backend[b]] \in [asked -> [Kinds -> Version]]
        BY Zenon DEF LInv, Versions
      <3> QED
        BY Zenon, <3>1, ViewIs
    <2>3. cache' \in [SUBSET Registry -> View] /\ ~("sweep" = "ok")
      BY Zenon, <1>1, <1>3 DEF GetMisses, CallsOK
    <2> QED
      BY Zenon, <1>1, <2>1, <2>2, <2>3, CallKeepsOK
  <1>4. CASE SweepReturns(c)
    <2>1. PICK view \in View :
            /\ view # NoView /\ CallIs(c, "ok", view)
            /\ cache' = IF Caching THEN [cache EXCEPT ![DOMAIN call[c].view] = view] ELSE cache
      BY Zenon, <1>1, <1>4, SweepFacts
    <2>2. cache' \in [SUBSET Registry -> View]
      BY Zenon, <1>1, <2>1 DEF CallsOK
    <2> QED
      BY Zenon, <1>1, <2>1, <2>2, CallKeepsOK
  <1>5. CASE SweepFails(c)
    <2>1. CallIs(c, "error", NoView) /\ cache' \in [SUBSET Registry -> View]
      BY Zenon, <1>1, <1>5 DEF SweepFails, CallsOK
    <2>2. ~("error" = "ok")
      OBVIOUS
    <2> QED
      BY Zenon, <1>1, <2>1, <2>2, NoViewIs, CallKeepsOK
  <1> QED
    BY Zenon, <1>2, <1>3, <1>4, <1>5 DEF AggregateCapabilities

\* Entries leave the cache.
Forgets == \A asked \in SUBSET Registry : cache'[asked] \in {cache[asked], NoView}

LEMMA ForgetTypes ==
  ASSUME CallsOK,
         \/ UNCHANGED cache \/ InvalidateAll
         \/ \E asked \in SUBSET Registry : cache' = [cache EXCEPT ![asked] = NoView]
  PROVE  cache' \in [SUBSET Registry -> View] /\ Forgets
  <1>1. CASE UNCHANGED cache
    BY Zenon, <1>1 DEF CallsOK, Forgets
  <1>2. CASE InvalidateAll
    BY Zenon, <1>2, NoViewIs DEF InvalidateAll, Forgets, ColdCache
  <1>3. ASSUME NEW asked \in SUBSET Registry, cache' = [cache EXCEPT ![asked] = NoView]
        PROVE  cache' \in [SUBSET Registry -> View] /\ Forgets
    BY Zenon, <1>3, NoViewIs DEF CallsOK, Forgets
  <1> QED
    BY Zenon, <1>1, <1>2, <1>3

\* A step that at most asks for a list, or drops an answer.
LEMMA AskingTypes ==
  ASSUME CallsOK,
         \/ UNCHANGED cache \/ InvalidateAll
         \/ \E asked \in SUBSET Registry : cache' = [cache EXCEPT ![asked] = NoView],
         \/ UNCHANGED call
         \/ \E c \in Callers, pc \in {"none", "get"} : CallIs(c, pc, NoView)
  PROVE  CallsOK'
  <1>1. cache' \in [SUBSET Registry -> View]
    BY Zenon, ForgetTypes
  <1>2. CASE UNCHANGED call
    BY Zenon, <1>1, <1>2 DEF CallsOK
  <1>3. ASSUME NEW c \in Callers, NEW pc \in {"none", "get"}, CallIs(c, pc, NoView)
        PROVE  CallsOK'
    <2>1. pc \in CallPcs /\ pc # "ok"
      BY DEF CallPcs
    <2> QED
      BY Zenon, <1>1, <1>3, <2>1, NoViewIs, CallKeepsOK
  <1> QED
    BY Zenon, <1>2, <1>3

LEMMA VersionsChange ==
  ASSUME LInv, NEW b \in Registry, NEW k \in Kinds, BackendChanges(b, k)
  PROVE  Versions'
  <1>1. /\ backend[b][k] <= bound.changes[b]
        /\ backend' = [backend EXCEPT ![b][k] = @ + 1]
        /\ notified' \in {notified, [notified EXCEPT ![k] = @ + 1]} /\ UNCHANGED <<bound, begun>>
    BY Zenon DEF BackendChanges
  <1>2. bound.changes \in [Registry -> 0 .. MaxChanges] /\ MaxChanges \in Nat
    BY ListChangedAssumption DEF LInv, Versions, Bound
  <1>3. backend[b][k] + 1 \in Version
    <2>1. bound.changes[b] \in 0 .. MaxChanges /\ backend[b][k] \in Version
      BY Zenon, <1>2 DEF LInv, Versions
    <2> QED
      BY <1>1, <1>2, <2>1 DEF Version
  <1>4. backend' \in [Registry -> [Kinds -> Version]]
    <2>1. backend[b] \in [Kinds -> Version]
      BY Zenon DEF LInv, Versions
    <2>2. [backend[b] EXCEPT ![k] = @ + 1] \in [Kinds -> Version]
      BY Zenon, <1>3, <2>1
    <2> QED
      BY <1>1, <2>2 DEF LInv, Versions
  <1>5. notified' \in [Kinds -> Nat]
    BY <1>1 DEF LInv, Versions
  <1> QED
    BY Zenon, <1>1, <1>4, <1>5 DEF LInv, Versions

LEMMA DeliveredTypes ==
  ASSUME LInv, NEW k \in Kinds, Delivered(k)
  PROVE  Versions'
  <1>1. /\ notified[k] > 0
        /\ notified' = [notified EXCEPT ![k] = @ - 1] /\ UNCHANGED <<bound, backend, begun>>
    BY Zenon DEF Delivered
  <1>2. notified' \in [Kinds -> Nat]
    BY <1>1 DEF LInv, Versions
  <1> QED
    BY Zenon, <1>1, <1>2 DEF LInv, Versions

\* A run replaces lists of its kind only.
LEMMA RunTypes ==
  ASSUME LInv, NEW g \in Goroutines, Worker(g)
  PROVE  TodoOK' /\ CallsOK' /\ OthersOK'
  <1>1. g \in Callers
    BY Zenon DEF Callers
  <1>2. CASE runListChangedResync(g)
    <2>1. PICK k \in Kinds : k = routine[g].kind
      BY <1>2 DEF runListChangedResync, LInv, WInv, RunningIsBusy, Busy
    <2>2. \/ RoutineIs(g, "list", k, ListsOf[k])
          \/ RoutineIs(g, "ran", k, << >>)
      BY Zenon, <1>2, <2>1 DEF runListChangedResync
    <2>3. ListsOf[k] \in Seq(Lists) /\ ListsOf[k] # << >>
          /\ \A i \in DOMAIN ListsOf[k] : KindOf(ListsOf[k][i]) = k
      BY Zenon, ListsAssumption, ListKind
    <2>4. TodoOK'
      <3>1. \A h \in Goroutines : h # g => routine'[h] = routine[h]
        BY Zenon, <2>2 DEF LInv, WInv, Routines, RoutineIs
      <3>2. \/ routine'[g] = [pc |-> "list", kind |-> k, todo |-> ListsOf[k]]
            \/ routine'[g] = [pc |-> "ran", kind |-> k, todo |-> << >>]
        BY Zenon, <2>2 DEF LInv, WInv, Routines, RoutineIs
      <3>3. routine'[g].pc = "list" =>
              routine'[g].todo = ListsOf[k] /\ routine'[g].kind = k
        BY <3>2
      <3> QED
        BY Zenon, <2>3, <3>1, <3>3 DEF LInv, TodoOK
    <2>5. CallsOK'
      BY Zenon, <1>1, <1>2, AskingTypes DEF runListChangedResync, LInv
    <2>6. OthersOK'
      BY Zenon, <1>2, <2>1 DEF runListChangedResync, LInv, OthersOK
    <2> QED
      BY Zenon, <2>4, <2>5, <2>6
  <1>3. CASE resyncSession(g)
    <2>1. PICK k \in Kinds : k = routine[g].kind /\ routine[g].pc = "list"
      BY <1>3 DEF resyncSession, LInv, WInv, RunningIsBusy, Busy
    <2>2. PICK todo \in Seq(Lists) :
            /\ todo = routine[g].todo /\ todo # << >>
            /\ \A i \in DOMAIN todo : KindOf(todo[i]) = k
      BY Zenon, <2>1 DEF LInv, TodoOK
    <2>3. /\ Head(todo) \in Lists /\ Tail(todo) \in Seq(Lists)
          /\ \A i \in DOMAIN Tail(todo) : KindOf(Tail(todo)[i]) = k
      <3>1. /\ Head(todo) \in Lists /\ Tail(todo) \in Seq(Lists)
            /\ \A i \in DOMAIN Tail(todo) : Among(Tail(todo)[i], todo)
        BY Zenon, <2>2, TailOf
      <3> QED
        BY Zenon, <2>2, <3>1 DEF Among
    <2>4. \/ RoutineIs(g, "list", k, Tail(todo)) /\ Tail(todo) # << >>
          \/ RoutineIs(g, "ran", k, << >>)
      BY Zenon, <1>3, <2>1, <2>2 DEF resyncSession, Replace
    <2>5. TodoOK'
      <3>1. \A h \in Goroutines : h # g => routine'[h] = routine[h]
        BY Zenon, <2>4 DEF LInv, WInv, Routines, RoutineIs
      <3>2. \/ routine'[g] = [pc |-> "list", kind |-> k, todo |-> Tail(todo)]
               /\ Tail(todo) # << >>
            \/ routine'[g] = [pc |-> "ran", kind |-> k, todo |-> << >>]
        BY Zenon, <2>4 DEF LInv, WInv, Routines, RoutineIs
      <3>3. routine'[g].pc = "list" =>
              /\ routine'[g].todo = Tail(todo) /\ Tail(todo) # << >>
              /\ routine'[g].kind = k
        BY <3>2
      <3> QED
        BY Zenon, <2>3, <3>1, <3>3 DEF LInv, TodoOK
    <2>6. CallsOK'
      BY Zenon, <1>1, <1>3, AskingTypes DEF resyncSession, Replace, LInv
    <2>7. spoilt' \in [Kinds -> SUBSET Registry] /\ alive' \in BOOLEAN
      BY Zenon, <1>3, <2>1 DEF resyncSession, LInv, OthersOK
    <2>8. overlay' \in [Lists -> Stores]
      <3>1. CASE UNCHANGED overlay
        BY Zenon, <3>1 DEF LInv, OthersOK
      <3>2. CASE call[g].pc = "ok" /\ Replace(g)
        <4>1. call[g].view \in View
          BY Zenon, <1>1 DEF LInv, CallsOK, CallStates
        <4>2. overlay' = [overlay EXCEPT ![Head(todo)] = Items(call[g].view, k)]
          BY Zenon, <2>1, <2>2, <3>2 DEF Replace
        <4>3. Items(call[g].view, k) \in Stores
          BY Zenon, <4>1, ItemsFacts
        <4> QED
          BY Zenon, <4>2, <4>3 DEF LInv, OthersOK
      <3> QED
        BY Zenon, <1>3, <3>1, <3>2 DEF resyncSession
    <2> QED
      BY Zenon, <2>5, <2>6, <2>7, <2>8 DEF OthersOK
  <1>4. CASE loop(g)
    <2>1. \/ \E k : RoutineIs(g, "run", k, << >>)
          \/ routine' = [routine EXCEPT ![g] = Idle]
      BY Zenon, <1>4 DEF loop
    <2>2. TodoOK'
      BY <2>1 DEF LInv, WInv, Routines, TodoOK, RoutineIs, Idle
    <2>3. CallsOK'
      BY Zenon, <1>4, AskingTypes DEF loop, LInv
    <2> QED
      BY Zenon, <1>4, <2>2, <2>3 DEF loop, LInv, OthersOK
  <1> QED
    BY Zenon, <1>2, <1>3, <1>4 DEF Worker

\* The registration has derived every list it installs.
LEMMA GotType ==
  ASSUME RegisterOK, register.pc \in {"existing", "set"}, NEW l \in Lists
  PROVE  /\ \E i \in DOMAIN register.got :
              register.got[i] \in View /\ GotOf(l) = Items(register.got[i], KindOf(l))
         /\ GotOf(l) \in Stores
  <1> DEFINE i == CHOOSE i \in DOMAIN Derived : Derived[i] = l
  <1>1. i \in DOMAIN Derived
    BY Zenon, ListsAssumption
  <1>2. GotOf(l) = Items(register.got[i], KindOf(l))
    BY Zenon DEF GotOf
  <1> HIDE DEF i
  <1>3. register.got \in Seq(View) /\ Len(register.got) = Len(Derived) /\ Derived \in Seq(Lists)
    BY ListsAssumption DEF RegisterOK
  <1>4. i \in DOMAIN register.got /\ register.got[i] \in View
    BY <1>1, <1>3
  <1>5. KindOf(l) \in Kinds
    BY Zenon, ListKind
  <1>6. Items(register.got[i], KindOf(l)) \in Stores
    BY Zenon, <1>4, <1>5, ItemsFacts
  <1> QED
    BY Zenon, <1>2, <1>4, <1>6

RegisterRecord == [pc : RegisterPcs, todo : Seq(Lists), got : Seq(View),
                   existing : Stores]

LEMMA RegisterGoes ==
  ASSUME NEW pc \in RegisterPcs, NEW todo \in Seq(Lists), NEW got \in Seq(View),
         register' \in RegisterRecord, register'.pc = pc, register'.todo = todo,
         register'.got = got,
         pc = "list" => todo # << >> /\ Len(got) + Len(todo) = Len(Derived),
         pc \in {"existing", "set"} => todo # << >> /\ Len(got) = Len(Derived)
  PROVE  RegisterOK'
  BY Zenon DEF RegisterOK, RegisterRecord

LEMMA RegistrationTypes ==
  ASSUME LInv, injectCoreSessionCapabilities
  PROVE  RegisterOK' /\ CallsOK' /\ OthersOK'
  <1>1. Registration \in Callers
    BY Zenon DEF Callers
  <1>2. PICK r \in RegisterRecord : r = register
    BY Zenon DEF LInv, RegisterOK, RegisterRecord
  <1>3. /\ r.pc = "list" => r.todo # << >> /\ Len(r.got) + Len(r.todo) = Len(Derived)
        /\ r.pc \in {"existing", "set"} => r.todo # << >> /\ Len(r.got) = Len(Derived)
    BY Zenon, <1>2 DEF LInv, RegisterOK
  <1>0. /\ r.pc \in RegisterPcs /\ r.todo \in Seq(Lists) /\ r.got \in Seq(View)
        /\ r.existing \in Stores
        /\ {"list", "existing", "set", "done", "failed"} \subseteq RegisterPcs
    BY Zenon, <1>2 DEF RegisterRecord, RegisterPcs
  <1>4. r.pc \in {"list", "existing", "set"} =>
          /\ Head(r.todo) \in Lists /\ Tail(r.todo) \in Seq(Lists)
          /\ Len(Tail(r.todo)) = Len(r.todo) - 1
    BY Zenon, <1>0, <1>3, TailOf
  <1>5. CASE ListDerived
    <2>1. PICK view \in View : view = call[Registration].view
      BY Zenon, <1>1, <1>5 DEF ListDerived, LInv, CallsOK, CallStates
    <2> DEFINE got == Append(r.got, view)
    <2>2. r.pc = "list"
      BY Zenon, <1>2, <1>5 DEF ListDerived
    <2>3. /\ got \in Seq(View)
          /\ Tail(r.todo) = << >> => Len(got) = Len(Derived)
          /\ Len(got) + Len(Tail(r.todo)) = Len(Derived)
      <3>1. PICK n \in Nat : n = Len(Derived)
        BY ListsAssumption
      <3>2. PICK t \in Seq(Lists), u \in Seq(View) :
              t = r.todo /\ u = r.got /\ t # << >> /\ Len(u) + Len(t) = n
        BY Zenon, <1>0, <1>3, <2>2, <3>1
      <3>3. Append(u, view) \in Seq(View) /\ Len(Append(u, view)) = Len(u) + 1
        OBVIOUS
      <3>4. /\ Len(Tail(t)) = Len(t) - 1 /\ (Tail(t) = << >> => Len(t) = 1)
            /\ Len(u) \in Nat /\ Len(t) \in Nat
        <4>1. Len(Tail(t)) = Len(t) - 1 /\ (Tail(t) = << >> => Len(t) = 1)
          BY Zenon, <3>2, TailOf
        <4>2. Len(u) \in Nat /\ Len(t) \in Nat
          OBVIOUS
        <4> QED
          BY Zenon, <4>1, <4>2
      <3>5. \A a, b \in Nat : a + b = n => (b = 1 => a + 1 = n) /\ (a + 1) + (b - 1) = n
        OBVIOUS
      <3>6. (Tail(t) = << >> => Len(u) + 1 = n) /\ (Len(u) + 1) + (Len(t) - 1) = n
        BY Zenon, <3>2, <3>4, <3>5
      <3> QED
        BY Zenon, <3>1, <3>2, <3>3, <3>4, <3>6
    <2>4. \/ /\ Tail(r.todo) = << >>
             /\ register' = [r EXCEPT !.pc = "existing", !.todo = Installed, !.got = got]
          \/ /\ Tail(r.todo) # << >>
             /\ register' = [r EXCEPT !.todo = Tail(r.todo), !.got = got]
      BY Zenon, <1>2, <1>5, <2>1 DEF ListDerived
    <2> HIDE DEF got
    <2>5. ASSUME Tail(r.todo) = << >>,
                 register' = [r EXCEPT !.pc = "existing", !.todo = Installed, !.got = got]
          PROVE  RegisterOK'
      <3>2. Installed \in Seq(Lists) /\ Installed # << >>
        BY Zenon, ListsAssumption
      <3>8. /\ register' \in RegisterRecord /\ register'.pc = "existing"
            /\ register'.todo = Installed /\ register'.got = got
        BY Zenon, <1>0, <2>3, <2>5, <3>2 DEF RegisterRecord
      <3> QED
        BY Zenon, <1>0, <3>8, <2>3, <2>5, <3>2, RegisterGoes
    <2>6. ASSUME Tail(r.todo) # << >>,
                 register' = [r EXCEPT !.todo = Tail(r.todo), !.got = got]
          PROVE  RegisterOK'
      <3>8. /\ register' \in RegisterRecord /\ register'.pc = "list"
            /\ register'.todo = Tail(r.todo) /\ register'.got = got
        BY Zenon, <1>0, <1>4, <2>2, <2>3, <2>6 DEF RegisterRecord
      <3> QED
        BY Zenon, <1>0, <3>8, <1>4, <2>2, <2>3, <2>6, RegisterGoes
    <2>7. CallsOK'
      BY Zenon, <1>1, <1>5, AskingTypes DEF ListDerived, LInv
    <2> QED
      BY Zenon, <1>5, <2>4, <2>5, <2>6, <2>7 DEF ListDerived, LInv, OthersOK
  <1>6. CASE ListNotDerived
    <2>1. register' = [r EXCEPT !.pc = "failed", !.todo = << >>]
      BY Zenon, <1>2, <1>6 DEF ListNotDerived
    <2>2. RegisterOK'
      <3>1. << >> \in Seq(Lists)
        OBVIOUS
      <3>8. /\ register' \in RegisterRecord /\ register'.pc = "failed"
            /\ register'.todo = << >> /\ register'.got = r.got
        BY Zenon, <1>0, <2>1, <3>1 DEF RegisterRecord
      <3> QED
        BY Zenon, <1>0, <3>8, <2>1, <3>1, RegisterGoes
    <2>3. CallsOK'
      BY Zenon, <1>1, <1>6, AskingTypes DEF ListNotDerived, LInv
    <2> QED
      BY Zenon, <1>6, <2>2, <2>3 DEF ListNotDerived, LInv, OthersOK
  <1>7. CASE ExistingRead
    <2>1. r.pc = "existing" /\ register' = [r EXCEPT !.pc = "set",
                                                     !.existing = overlay[Head(r.todo)]]
      BY Zenon, <1>2, <1>7 DEF ExistingRead
    <2>2. overlay[Head(r.todo)] \in Stores
      BY Zenon, <1>4, <2>1 DEF LInv, OthersOK
    <2>3. RegisterOK'
      <3>8. /\ register' \in RegisterRecord /\ register'.pc = "set"
            /\ register'.todo = r.todo /\ register'.got = r.got
        BY Zenon, <1>0, <2>1, <2>2 DEF RegisterRecord
      <3> QED
        BY Zenon, <1>0, <3>8, <2>1, <2>2, <1>3, RegisterGoes
    <2>4. CallsOK'
      BY Zenon, <1>7, AskingTypes DEF ExistingRead, LInv
    <2> QED
      BY Zenon, <1>7, <2>3, <2>4 DEF ExistingRead, LInv, OthersOK
  <1>8. CASE MergedSet
    <2> DEFINE l == Head(r.todo)
               rest == Tail(r.todo)
               merged == [b \in Registry |-> r.existing[b] \cup GotOf(l)[b]]
    <2>1. /\ r.pc = "set"
          /\ overlay' = [overlay EXCEPT ![l] = merged]
          /\ spoilt' = [spoilt EXCEPT ![KindOf(l)] =
                          @ \cup {b \in Registry : ~Settled(merged, b, KindOf(l))}]
          /\ alive' = alive
      BY Zenon, <1>2, <1>8 DEF MergedSet
    <2>2. register' = [r EXCEPT !.pc = IF rest = << >> THEN "done" ELSE "existing",
                                !.todo = rest, !.existing = NoItems,
                                !.got = IF rest = << >> THEN << >> ELSE @]
      BY Zenon, <1>2, <1>8 DEF MergedSet
    <2>3. l \in Lists /\ rest \in Seq(Lists)
      BY Zenon, <1>4, <2>1
    <2> HIDE DEF l, rest
    <2>4. ASSUME rest = << >> PROVE RegisterOK'
      <3>1. register' = [r EXCEPT !.pc = "done", !.todo = << >>, !.existing = NoItems, !.got = << >>]
        BY Zenon, <2>2, <2>4
      <3>2. << >> \in Seq(Lists) /\ << >> \in Seq(View) /\ NoItems \in Stores
        BY DEF NoItems, Stores
      <3>8. /\ register' \in RegisterRecord /\ register'.pc = "done"
            /\ register'.todo = << >> /\ register'.got = << >>
        BY Zenon, <1>0, <3>1, <3>2 DEF RegisterRecord
      <3> QED
        BY Zenon, <1>0, <3>8, <3>1, <3>2, RegisterGoes
    <2>5. ASSUME rest # << >> PROVE RegisterOK'
      <3>1. register' = [r EXCEPT !.pc = "existing", !.todo = rest, !.existing = NoItems,
                                  !.got = r.got]
        BY Zenon, <2>2, <2>5
      <3>2. NoItems \in Stores
        BY Zenon DEF NoItems, Stores
      <3>8. /\ register' \in RegisterRecord /\ register'.pc = "existing"
            /\ register'.todo = rest /\ register'.got = r.got
        BY Zenon, <1>0, <2>3, <2>5, <3>1, <3>2 DEF RegisterRecord
      <3> QED
        BY Zenon, <1>0, <3>8, <2>3, <2>5, <3>2, <1>3, <2>1, RegisterGoes
    <2>6. KindOf(l) \in Kinds /\ GotOf(l) \in Stores
      BY Zenon, <1>2, <2>1, <2>3, ListKind, GotType DEF LInv
    <2>7. merged \in Stores
      BY Zenon, <1>0, <2>6 DEF Stores
    <2> HIDE DEF merged
    <2>8. OthersOK'
      <3>1. spoilt' \in [Kinds -> SUBSET Registry]
        BY <2>1, <2>6 DEF LInv, OthersOK
      <3> QED
        BY Zenon, <2>1, <2>7, <3>1 DEF LInv, OthersOK
    <2>9. CallsOK'
      BY Zenon, <1>8, AskingTypes DEF MergedSet, LInv
    <2> QED
      BY Zenon, <2>4, <2>5, <2>8, <2>9
  <1> QED
    BY Zenon, <1>5, <1>6, <1>7, <1>8 DEF injectCoreSessionCapabilities

LEMMA NextLInv ==
  ASSUME LInv, [Next]_vars
  PROVE  LInv'
  <1>1. WInv'
    BY Zenon, NextWInv DEF LInv
  <1>2. ASSUME NEW c \in Callers, AggregateCapabilities(c)
        PROVE  LInv'
    <2>1. spoilt' \in [Kinds -> SUBSET Registry]
      <3>1. CASE UNCHANGED spoilt
        BY Zenon, <3>1 DEF LInv, OthersOK
      <3>2. CASE SweepReturns(c)
        <4>1. PICK view \in View : spoilt' = [k \in Kinds |-> spoilt[k] \cup Misses(c, view, k)]
          BY Zenon, <1>2, <3>2, SweepFacts DEF LInv
        <4>2. \A k \in Kinds : Misses(c, view, k) \subseteq Registry
          BY Zenon DEF Misses
        <4> QED
          BY Zenon, <4>1, <4>2 DEF LInv, OthersOK
      <3> QED
        BY Zenon, <1>2, <3>1, <3>2 DEF AggregateCapabilities, GetHits, GetMisses, SweepFails
    <2> QED
      BY Zenon, <1>1, <1>2, <2>1, AggregateTypes
         DEF AggregateCapabilities, LInv, Versions, TodoOK, RegisterOK, OthersOK
  <1>3. ASSUME NEW b \in Registry, NEW k \in Kinds, BackendChanges(b, k)
        PROVE  LInv'
    <2>1. UNCHANGED <<cache, call, register, overlay, alive, spoilt, routine>>
      BY Zenon, <1>3 DEF BackendChanges
    <2> QED
      BY Zenon, <1>1, <1>3, <2>1, VersionsChange
         DEF LInv, CallsOK, RegisterOK, OthersOK, TodoOK
  <1>7. ASSUME NEW k \in Kinds, trigger(k)
        PROVE  LInv'
    <2>1. UNCHANGED <<cache, call, register, overlay, alive, spoilt>>
      BY Zenon, <1>7 DEF trigger, Delivered
    <2>2. TodoOK'
      <3>1. CASE UNCHANGED routine
        BY Zenon, <3>1 DEF LInv, TodoOK
      <3>2. CASE \E g \in Goroutines : RoutineIs(g, "run", k, << >>)
        BY <3>2 DEF LInv, WInv, Routines, TodoOK, RoutineIs
      <3> QED
        BY Zenon, <1>7, <3>1, <3>2, StartsOne DEF trigger
    <2> QED
      BY Zenon, <1>1, <1>7, <2>1, <2>2, DeliveredTypes
         DEF LInv, CallsOK, RegisterOK, OthersOK, trigger
  <1>4. ASSUME NEW g \in Goroutines, Worker(g)
        PROVE  LInv'
    <2>1. UNCHANGED <<bound, backend, notified, register>>
      BY Zenon, <1>4 DEF Worker, runListChangedResync, resyncSession, loop
    <2>2. begun' \in [Kinds -> [Registry -> Version]]
      <3>1. CASE UNCHANGED begun
        BY Zenon, <3>1 DEF LInv, Versions
      <3>2. CASE runListChangedResync(g)
        <4>1. PICK k \in Kinds : k = routine[g].kind
          BY <3>2 DEF runListChangedResync, LInv, WInv, RunningIsBusy, Busy
        <4>2. [b \in Registry |-> backend[b][k]] \in [Registry -> Version]
          BY Zenon DEF LInv, Versions
        <4>3. begun' = [begun EXCEPT ![k] = [b \in Registry |-> backend[b][k]]]
          BY Zenon, <3>2, <4>1 DEF runListChangedResync
        <4> QED
          BY Zenon, <4>2, <4>3 DEF LInv, Versions
      <3> QED
        BY Zenon, <1>4, <3>1, <3>2 DEF Worker, resyncSession, loop
    <2> QED
      BY Zenon, <1>1, <1>4, <2>1, <2>2, RunTypes DEF LInv, Versions, RegisterOK
  <1>5. CASE injectCoreSessionCapabilities
    <2>1. UNCHANGED <<bound, backend, begun, notified, routine>>
      BY Zenon, <1>5 DEF injectCoreSessionCapabilities, ListDerived, ListNotDerived,
         ExistingRead, MergedSet
    <2> QED
      BY Zenon, <1>1, <1>5, <2>1, RegistrationTypes DEF LInv, Versions, TodoOK
  <1>6. CASE \/ \E asked \in SUBSET Registry : EntryExpires(asked)
             \/ Terminate \/ (\E r \in Requests : RequestStarts(r) \/ RequestEnds(r))
             \/ UNCHANGED vars
    <2>1. UNCHANGED <<bound, backend, begun, notified, routine, register, overlay, spoilt>>
          /\ alive' \in {alive, FALSE}
      BY Zenon, <1>6 DEF EntryExpires, Terminate, RequestStarts, RequestEnds, vars
    <2>2. \/ UNCHANGED call
          \/ \E c \in Callers, pc \in {"none", "get"} : CallIs(c, pc, NoView)
      <3>1. \A r \in Requests : r \in Callers
        BY Zenon DEF Callers
      <3> QED
        BY Zenon, <1>6, <3>1 DEF EntryExpires, Terminate, RequestStarts, RequestEnds, vars
    <2>4. \/ UNCHANGED cache
          \/ \E asked \in SUBSET Registry : cache' = [cache EXCEPT ![asked] = NoView]
      BY Zenon, <1>6 DEF EntryExpires, Terminate, RequestStarts, RequestEnds, vars
    <2>3. CallsOK'
      BY Zenon, <2>2, <2>4, AskingTypes DEF LInv
    <2> QED
      BY Zenon, <1>1, <2>1, <2>3 DEF LInv, Versions, TodoOK, RegisterOK, OthersOK
  <1> QED
    BY Zenon, <1>2, <1>3, <1>4, <1>5, <1>6, <1>7 DEF Next

\* What the variables hold, in every reachable state.
THEOREM ListsInvariant == Spec => []LInv
  <1>1. Init => LInv
    BY InitLInv
  <1>2. LInv /\ [Next]_vars => LInv'
    BY NextLInv
  <1> QED
    BY <1>1, <1>2, PTL DEF Spec

\* The cache, the calls and the session's stores have only versions of registered
\* backends, and a call that has returned a view has it from at least one backend:
\* an error of a sweep, or the purge of the cache, never becomes an empty answer
\* that would empty the lists (AggregateCapabilities, QueryAllCapabilities).
THEOREM ListsComeFromTheBackend == Spec => []TypeOK
  <1>1. LInv => TypeOK
    <2> SUFFICES ASSUME LInv PROVE TypeOK
      BY Zenon
    <2>1. \A g \in Goroutines :
            /\ routine[g].pc \in {"idle", "run", "list", "ran"}
            /\ routine[g].pc # "idle" => routine[g].kind \in Kinds
      BY Zenon DEF LInv, WInv, Routines, RunningIsBusy, Busy
    <2>2. \A c \in Callers : /\ call[c].pc \in {"none", "get", "sweep", "ok", "error"}
                             /\ call[c].view \in View
                             /\ call[c].pc = "ok" => DOMAIN call[c].view # {}
      BY Zenon, ViewFacts DEF LInv, CallsOK, CallStates, CallPcs
    <2>3. register.pc \in {"list", "existing", "set", "done", "failed"}
      BY Zenon DEF LInv, RegisterOK, RegisterPcs
    <2> QED
      BY Zenon, <2>1, <2>2, <2>3 DEF TypeOK, LInv, WInv, Flags, Versions, CallsOK, OthersOK, Stores
  <1> QED
    BY <1>1, ListsInvariant, PTL

-----------------------------------------------------------------------------
(* What a quiet session's stores hold.                                     *)

Behind(v) == \A b \in DOMAIN v, k \in Kinds : v[b][k] <= backend[b][k]
UpTo(items, k) == \A b \in Registry : \A v \in items[b] : v <= backend[b][k]

\* Nothing is newer than the backend.
Older ==
  /\ \A asked \in SUBSET Registry : Behind(cache[asked])
  /\ \A c \in Callers : Behind(call[c].view)
  /\ \A i \in DOMAIN register.got : Behind(register.got[i])
  /\ \A l \in Lists : UpTo(overlay[l], KindOf(l))
  /\ register.pc = "set" => UpTo(register.existing, KindOf(Head(register.todo)))
  /\ \A k \in Kinds, b \in Registry : begun[k][b] <= backend[b][k]

\* A backend that the session is connected to has not changed since the last run
\* of the kind began, unless a notification is on its way or has been taken.
Told ==
  \A k \in Kinds, b \in bound.connected :
    notified[k] = 0 /\ ~owed[k] => begun[k][b] = backend[b][k]

\* Only a run that replaces lists has a call.
RunsCall == \A g \in Goroutines : call[g].pc # "none" => routine[g].pc = "list"

Listing(k, g) == routine[g].pc = "list" /\ routine[g].kind = k

\* As long as a run replaces lists it finds no view that predates it, neither in
\* the cache nor from its own sweeps, except of backends it has missed.
RunViews ==
  \A k \in Kinds, g \in Goroutines : Listing(k, g) =>
    /\ \A asked \in SUBSET Registry, b \in Registry :
         cached(asked) /\ b \notin spoilt[k] => ~Predates(cache[asked], b, k)
    /\ call[g].pc = "sweep" =>
         \A b \in DOMAIN call[g].view : begun[k][b] <= call[g].view[b][k]
    /\ call[g].pc = "ok" =>
         \A b \in Registry : b \notin spoilt[k] => ~Predates(call[g].view, b, k)

Awaited(l) ==
  register.pc = "list" \/ (register.pc \in {"existing", "set"} /\ Among(l, register.todo))
Due(l) == \E g \in Goroutines : Listing(KindOf(l), g) /\ Among(l, routine[g].todo)

\* A list that neither the registration nor a run has still to write is settled,
\* except for the backends that the last run has missed.
RunLists ==
  alive => \A l \in Lists, b \in Registry :
    b \notin spoilt[KindOf(l)] => Settled(overlay[l], b, KindOf(l)) \/ Awaited(l) \/ Due(l)

RunInv == Older /\ Told /\ RunsCall /\ RunViews /\ RunLists

FInv == LInv /\ RunInv

LEMMA ConnectedIs ==
  ASSUME LInv
  PROVE  bound.connected \subseteq Registry
  BY ListChangedAssumption DEF LInv, Versions, Bound

LEMMA InitFInv ==
  ASSUME Init
  PROVE  FInv
  <1>1. LInv
    BY Zenon, InitLInv
  <1>2. \A k \in Kinds, b \in Registry : begun[k][b] = 1 /\ backend[b][k] = 1
    BY Zenon DEF Init
  <1>3. Older
    <2>1. \A asked \in SUBSET Registry : Behind(cache[asked])
      <3> SUFFICES ASSUME NEW asked \in SUBSET Registry, NEW b \in DOMAIN cache[asked],
                          NEW k \in Kinds
                   PROVE  cache[asked][b][k] <= backend[b][k]
        BY Zenon DEF Behind
      <3>1. CASE cache = ColdCache
        BY Zenon, <3>1, NoViewIs DEF ColdCache
      <3>2. CASE cache \in WarmCaches
        <4>1. cache[asked] \in UNION {[S -> [Kinds -> {0, 1}]] : S \in SUBSET Registry}
          BY Zenon, <3>2 DEF WarmCaches
        <4>2. PICK S \in SUBSET Registry : cache[asked] \in [S -> [Kinds -> {0, 1}]]
          BY Zenon, <4>1
        <4>3. b \in Registry /\ cache[asked][b][k] \in {0, 1}
          BY Zenon, <4>2
        <4> QED
          BY <1>2, <4>3
      <3> QED
        BY Zenon, <3>1, <3>2 DEF Init
    <2>2. \A c \in Callers : Behind(call[c].view)
      <3>1. PICK others \in [bound.requests -> {NoCall} \cup IF bound.warm THEN SweepingSince ELSE {}] :
              call = [c \in Callers |-> IF c = Registration THEN Asked
                                        ELSE IF c \in bound.requests THEN others[c] ELSE NoCall]
        BY Zenon DEF Init
      <3>2. \A r \in bound.requests : others[r] = NoCall \/ others[r] \in SweepingSince
        BY <3>1
      <3>3. Behind(Asked.view) /\ Behind(NoCall.view)
        BY NoViewIs DEF Asked, NoCall, Behind
      <3>4. ASSUME NEW s \in SweepingSince PROVE Behind(s.view)
        <4>1. PICK asked \in SUBSET Registry :
                s = [pc |-> "sweep", view |-> [b \in asked |-> [k \in Kinds |-> 0]]]
          <5>1. bound.healthy \subseteq SUBSET Registry
            BY ListChangedAssumption DEF Init, Bound
          <5> QED
            BY Zenon, <3>4, <5>1 DEF SweepingSince
        <4>2. s.view = [b \in asked |-> [k \in Kinds |-> 0]]
          BY Zenon, <4>1
        <4>4. DOMAIN s.view = asked /\ \A b \in asked : s.view[b] = [k \in Kinds |-> 0]
          BY Zenon, <4>2
        <4>3. \A b \in DOMAIN s.view, k \in Kinds : b \in Registry /\ s.view[b][k] = 0
          BY <4>4
        <4> QED
          BY <1>2, <4>3 DEF Behind
      <3> QED
        BY Zenon, <3>1, <3>2, <3>3, <3>4
    <2>3. /\ register.got = << >> /\ register.pc = "list"
          /\ \A l \in Lists, b \in Registry : overlay[l][b] = {}
      BY DEF Init, NoItems
    <2>4. \A l \in Lists : UpTo(overlay[l], KindOf(l))
      BY Zenon, <2>3 DEF UpTo
    <2>5. \A k \in Kinds, b \in Registry : begun[k][b] <= backend[b][k]
      BY <1>2
    <2>6. \A i \in DOMAIN register.got : Behind(register.got[i])
      BY <2>3
    <2>7. register.pc # "set"
      BY <2>3
    <2> QED
      BY Zenon, <2>1, <2>2, <2>4, <2>5, <2>6, <2>7 DEF Older
  <1>4. Told
    <2>1. bound.connected \subseteq Registry
      BY Zenon, <1>1, ConnectedIs
    <2> QED
      BY <1>2, <2>1 DEF Told
  <1>5. \A g \in Goroutines : routine[g].pc = "idle" /\ call[g].pc = "none"
    <2>1. \A g \in Goroutines : routine[g].pc = "idle"
      BY DEF Init, Idle
    <2>2. bound.requests \subseteq Requests
      BY ListChangedAssumption DEF Init, Bound
    <2>3. \A g \in Goroutines : g \in Callers /\ g # Registration /\ g \notin bound.requests
      BY Zenon, <2>2, ListChangedAssumption DEF Callers
    <2>4. \A g \in Goroutines : call[g] = NoCall
      BY Zenon, <2>3 DEF Init
    <2> QED
      BY <2>1, <2>4 DEF NoCall
  <1>6. RunsCall /\ RunViews
    BY <1>5 DEF RunsCall, RunViews, Listing
  <1>7. RunLists
    BY DEF RunLists, Awaited, Init
  <1> QED
    BY Zenon, <1>1, <1>3, <1>4, <1>6, <1>7 DEF FInv, RunInv

\* What QuietMeansCurrent says follows.
LEMMA QuietIsCurrent ==
  ASSUME FInv
  PROVE  QuietMeansCurrent
  <1> SUFFICES ASSUME NEW l \in Lists, NEW b \in bound.connected, alive, register.pc = "done",
                      Quiet(KindOf(l)), ~Missed(l, b)
               PROVE  overlay[l][b] = {backend[b][KindOf(l)]}
    BY Zenon DEF QuietMeansCurrent
  <1>1. PICK k \in Kinds : k = KindOf(l)
    BY Zenon, ListKind
  <1>0. b \in Registry
    BY Zenon, ConnectedIs DEF FInv
  <1>2. \A g \in Goroutines : Busy(g) => routine[g].kind # k
    BY Zenon, <1>1 DEF FInv, LInv, WInv, RunningIsBusy, Quiet
  <1>3. \A g \in Goroutines : routine[g].pc \in {"run", "list"} => Busy(g)
    BY DEF Busy
  <1>4. ~owed[k]
    BY Zenon, <1>2, <1>3 DEF FInv, LInv, WInv, NoLostNotification, Busy
  <1>5. begun[k][b] = backend[b][k]
    BY Zenon, <1>1, <1>4 DEF FInv, RunInv, Told, Quiet
  <1>6. ~Due(l)
    BY Zenon, <1>1, <1>2, <1>3 DEF Due, Listing
  <1>7. ~Awaited(l)
    BY DEF Awaited
  <1>8. PICK v \in Version : overlay[l][b] = {v} /\ begun[k][b] <= v
    BY Zenon, <1>0, <1>1, <1>6, <1>7 DEF FInv, RunInv, RunLists, Missed, Settled
  <1>9. v <= backend[b][k] /\ backend[b][k] \in Version
    BY Zenon, <1>0, <1>1, <1>8 DEF FInv, LInv, Versions, RunInv, Older, UpTo
  <1>10. v = backend[b][k]
    BY <1>5, <1>8, <1>9 DEF Version
  <1> QED
    BY Zenon, <1>1, <1>8, <1>10

Quietly(c) ==
  call'[c] = call[c] \/ (call'[c].view = NoView /\ call'[c].pc \in {"none", "get", "error"})

\* Steps in which no call is answered and no sweep or run begins.
Steady ==
  /\ UNCHANGED <<backend, begun>>
  /\ Forgets
  /\ \A c \in Callers : Quietly(c)
  /\ \A k \in Kinds : spoilt[k] \subseteq spoilt'[k]
  /\ alive' => alive

LEMMA NothingBehind ==
  Behind(NoView) /\ Behind(NoView)'
  BY Zenon, NoViewIs DEF Behind, NoView

LEMMA SteadyCalls ==
  ASSUME Steady
  PROVE  \A c \in Callers : call'[c].pc \in {"sweep", "ok"} => call'[c] = call[c]
  BY DEF Steady, Quietly

LEMMA SteadyOlder ==
  ASSUME FInv, Steady,
         \A i \in DOMAIN register'.got : Behind(register'.got[i]),
         \A l \in Lists : UpTo(overlay'[l], KindOf(l)),
         register'.pc = "set" => UpTo(register'.existing, KindOf(Head(register'.todo)))
  PROVE  Older'
  <1>1. UNCHANGED <<backend, begun>>
    BY Zenon DEF Steady
  <1>2. \A asked \in SUBSET Registry : Behind(cache'[asked])
    BY Zenon, NothingBehind DEF Steady, Forgets, FInv, RunInv, Older
  <1>3. \A c \in Callers : Behind(call'[c].view)
    BY Zenon, NothingBehind DEF Steady, Quietly, FInv, RunInv, Older
  <1> QED
    BY Zenon, <1>1, <1>2, <1>3 DEF FInv, RunInv, Older, Behind, UpTo

LEMMA SteadyViews ==
  ASSUME FInv, Steady, \A k \in Kinds, g \in Goroutines : Listing(k, g)' => Listing(k, g)
  PROVE  RunViews'
  <1> SUFFICES ASSUME NEW k \in Kinds, NEW g \in Goroutines, Listing(k, g)'
               PROVE  /\ \A asked \in SUBSET Registry, b \in Registry :
                           cached(asked)' /\ b \notin spoilt'[k] => ~Predates(cache[asked], b, k)'
                      /\ call'[g].pc = "sweep" =>
                           \A b \in DOMAIN call'[g].view : begun'[k][b] <= call'[g].view[b][k]
                      /\ call'[g].pc = "ok" =>
                           \A b \in Registry : b \notin spoilt'[k] => ~Predates(call[g].view, b, k)'
    BY Zenon DEF RunViews
  <1>1. Listing(k, g) /\ g \in Callers
    BY Zenon DEF Callers
  <1>2. call'[g].pc \in {"sweep", "ok"} => call'[g] = call[g]
    BY Zenon, <1>1, SteadyCalls
  <1>3. UNCHANGED begun /\ \A b \in Registry : b \notin spoilt'[k] => b \notin spoilt[k]
    BY Zenon DEF Steady
  <1>4. ASSUME NEW asked \in SUBSET Registry, cached(asked)'
        PROVE  cached(asked) /\ cache'[asked] = cache[asked]
    BY Zenon, <1>4 DEF Steady, Forgets, cached
  <1>5. \A asked \in SUBSET Registry, b \in Registry :
          cached(asked)' /\ b \notin spoilt'[k] => ~Predates(cache[asked], b, k)'
    BY Zenon, <1>1, <1>3, <1>4 DEF FInv, RunInv, RunViews, Predates
  <1>6. call'[g].pc = "sweep" =>
          \A b \in DOMAIN call'[g].view : begun'[k][b] <= call'[g].view[b][k]
    BY Zenon, <1>1, <1>2, <1>3 DEF FInv, RunInv, RunViews
  <1>7. call'[g].pc = "ok" =>
          \A b \in Registry : b \notin spoilt'[k] => ~Predates(call[g].view, b, k)'
    BY Zenon, <1>1, <1>2, <1>3 DEF FInv, RunInv, RunViews, Predates
  <1> QED
    BY Zenon, <1>5, <1>6, <1>7

LEMMA SteadyLists ==
  ASSUME FInv, Steady, UNCHANGED overlay,
         \A l \in Lists : (Awaited(l) => Awaited(l)') /\ (Due(l) => Due(l)')
  PROVE  RunLists'
  <1>1. \A l \in Lists, b \in Registry :
          /\ b \notin spoilt'[KindOf(l)] => b \notin spoilt[KindOf(l)]
          /\ Settled(overlay[l], b, KindOf(l)) => Settled(overlay[l], b, KindOf(l))'
    BY Zenon, ListKind DEF Steady, Settled
  <1> QED
    BY Zenon, <1>1 DEF FInv, RunInv, RunLists, Steady

LEMMA DueStays ==
  ASSUME \A g \in Goroutines : routine[g].pc = "list" => routine'[g] = routine[g]
  PROVE  \A l \in Lists : Due(l) => Due(l)'
  BY Zenon DEF Due, Listing

\* A steady step that concerns neither the registration nor a run's lists.
LEMMA SteadyRun ==
  ASSUME FInv, Steady, UNCHANGED <<register, overlay>>,
         \A g \in Goroutines : \/ routine'[g] = routine[g]
                               \/ routine[g].pc # "list" /\ routine'[g].pc # "list"
  PROVE  Older' /\ RunViews' /\ RunLists'
  <1>1. Older'
    BY Zenon, SteadyOlder DEF FInv, RunInv, Older
  <1>2. RunViews'
    BY Zenon, SteadyViews DEF Listing
  <1>3. RunLists'
    <2>1. \A l \in Lists : (Awaited(l) => Awaited(l)') /\ (Due(l) => Due(l)')
      BY Zenon, DueStays DEF Awaited
    <2> QED
      BY Zenon, <2>1, SteadyLists
  <1> QED
    BY Zenon, <1>1, <1>2, <1>3

\* What asks for a list, or drops an answer, answers no call.
LEMMA Asks ==
  ASSUME CallsOK, NEW c \in Callers, NEW pc \in {"none", "get", "error"}, CallIs(c, pc, NoView)
  PROVE  /\ \A d \in Callers : Quietly(d)
         /\ call'[c].pc = pc /\ \A d \in Callers : d # c => call'[d] = call[d]
  <1>1. pc \in CallPcs
    BY DEF CallPcs
  <1> QED
    BY Zenon, <1>1, CallMoves, NoViewIs DEF Quietly

\* A call moves on to a sweep or an answer, with a view that predates no run but
\* of what the run has missed.
LEMMA CallGoesOn ==
  ASSUME FInv, NEW c \in Callers, NEW pc \in {"sweep", "ok"}, NEW view \in View,
         CallIs(c, pc, view), Behind(view),
         \A asked \in SUBSET Registry : cache'[asked] \in {cache[asked], view},
         \A k \in Kinds : spoilt[k] \subseteq spoilt'[k],
         UNCHANGED <<bound, backend, notified, routine, register, overlay, alive, owed, begun>>,
         call[c].pc # "none",
         \A k \in Kinds, g \in Goroutines, b \in Registry, asked \in SUBSET Registry :
           Listing(k, g) /\ b \notin spoilt'[k] /\ cache'[asked] # cache[asked] /\ Caching
             => ~Predates(view, b, k),
         \A k \in Kinds, g \in Goroutines :
           Listing(k, g) /\ g = c /\ pc = "sweep"
             => \A b \in DOMAIN view : begun[k][b] <= view[b][k],
         \A k \in Kinds, g \in Goroutines, b \in Registry :
           Listing(k, g) /\ g = c /\ pc = "ok" /\ b \notin spoilt'[k] => ~Predates(view, b, k)
  PROVE  RunInv'
  <1>1. /\ call'[c].pc = pc /\ call'[c].view = view
        /\ \A d \in Callers : d # c => call'[d] = call[d]
    <2>1. pc \in CallPcs /\ CallsOK
      BY DEF CallPcs, FInv, LInv
    <2> QED
      BY Zenon, <2>1, CallMoves
  <1>2. Older'
    <2>1. \A asked \in SUBSET Registry : Behind(cache'[asked])
      BY Zenon DEF FInv, RunInv, Older
    <2>2. \A d \in Callers : Behind(call'[d].view)
      BY Zenon, <1>1 DEF FInv, RunInv, Older
    <2> QED
      BY Zenon, <2>1, <2>2 DEF FInv, RunInv, Older, Behind, UpTo
  <1>3. Told'
    BY Zenon DEF FInv, RunInv, Told
  <1>4. RunsCall'
    BY Zenon, <1>1 DEF FInv, RunInv, RunsCall, Callers
  <1>5. RunViews'
    <2> SUFFICES ASSUME NEW k \in Kinds, NEW g \in Goroutines, Listing(k, g)'
                 PROVE  /\ \A asked \in SUBSET Registry, b \in Registry :
                             cached(asked)' /\ b \notin spoilt'[k] => ~Predates(cache[asked], b, k)'
                        /\ call'[g].pc = "sweep" =>
                             \A b \in DOMAIN call'[g].view : begun'[k][b] <= call'[g].view[b][k]
                        /\ call'[g].pc = "ok" =>
                             \A b \in Registry : b \notin spoilt'[k] => ~Predates(call[g].view, b, k)'
      BY Zenon DEF RunViews
    <2>1. Listing(k, g) /\ g \in Callers
      BY Zenon DEF Callers, Listing
    <2>2. \A b \in Registry : b \notin spoilt'[k] => b \notin spoilt[k]
      BY Zenon
    <2>3. ASSUME NEW asked \in SUBSET Registry, NEW b \in Registry, cached(asked)',
                 b \notin spoilt'[k]
          PROVE  ~Predates(cache[asked], b, k)'
      <3>1. CASE cache'[asked] = cache[asked]
        BY Zenon, <2>1, <2>2, <2>3, <3>1 DEF FInv, RunInv, RunViews, Predates, cached
      <3>2. CASE cache'[asked] # cache[asked]
        BY Zenon, <2>1, <2>3, <3>2 DEF Predates, cached
      <3> QED
        BY Zenon, <3>1, <3>2
    <2>4. CASE g = c
      BY Zenon, <1>1, <2>1, <2>3, <2>4 DEF Predates
    <2>5. CASE g # c
      <3>1. call'[g] = call[g]
        BY Zenon, <1>1, <2>1, <2>5
      <3>2. call'[g].pc = "ok" =>
              \A b \in Registry : b \notin spoilt'[k] => ~Predates(call[g].view, b, k)'
        BY Zenon, <2>1, <2>2, <3>1 DEF FInv, RunInv, RunViews, Predates
      <3>3. call'[g].pc = "sweep" =>
              \A b \in DOMAIN call'[g].view : begun'[k][b] <= call'[g].view[b][k]
        BY Zenon, <2>1, <3>1 DEF FInv, RunInv, RunViews
      <3> QED
        BY Zenon, <2>3, <3>2, <3>3
    <2> QED
      BY Zenon, <2>4, <2>5
  <1>6. RunLists'
    <2>1. \A l \in Lists, b \in Registry :
            /\ b \notin spoilt'[KindOf(l)] => b \notin spoilt[KindOf(l)]
            /\ Settled(overlay[l], b, KindOf(l)) => Settled(overlay[l], b, KindOf(l))'
      BY Zenon, ListKind DEF Settled
    <2>2. \A l \in Lists : (Awaited(l) => Awaited(l)') /\ (Due(l) => Due(l)')
      BY Zenon DEF Awaited, Due, Listing
    <2> QED
      BY Zenon, <2>1, <2>2 DEF FInv, RunInv, RunLists
  <1> QED
    BY Zenon, <1>2, <1>3, <1>4, <1>5, <1>6 DEF RunInv

\* A goroutine of the kind that sweeps is the one that replaces its lists.
LEMMA SweeperLists ==
  ASSUME FInv, NEW c \in Goroutines, NEW k \in Kinds, call[c].pc = "sweep",
         routine[c].kind = k
  PROVE  Listing(k, c)
  <1>1. call[c].pc # "none"
    OBVIOUS
  <1> QED
    BY Zenon, <1>1 DEF FInv, RunInv, RunsCall, Listing

\* The steps of a call.
LEMMA AggregateRun ==
  ASSUME FInv, NEW c \in Callers, AggregateCapabilities(c)
  PROVE  RunInv'
  <1>1. /\ UNCHANGED <<bound, backend, notified, routine, register, overlay, alive, owed, begun>>
        /\ CallsOK
    BY Zenon DEF AggregateCapabilities, FInv, LInv
  <1>2. \A b \in Registry, k \in Kinds : backend[b][k] \in Version /\ begun[k][b] \in Version
    BY Zenon DEF FInv, LInv, Versions
  <1>0. bound.healthy \subseteq SUBSET Registry
    BY ListChangedAssumption DEF FInv, LInv, Versions, Bound
  <1>3. CASE SweepFails(c)
    <2>1. CallIs(c, "error", NoView) /\ UNCHANGED <<cache, spoilt>> /\ call[c].pc = "sweep"
      BY Zenon, <1>3 DEF SweepFails
    <2>2. /\ \A d \in Callers : Quietly(d)
          /\ \A d \in Callers : d # c => call'[d] = call[d]
      BY Zenon, <1>1, <2>1, Asks
    <2>3. Steady
      BY Zenon, <1>1, <2>1, <2>2 DEF Steady, Forgets
    <2>4. Older' /\ RunViews' /\ RunLists'
      BY Zenon, <1>1, <2>3, SteadyRun
    <2>5. RunsCall'
      <3>1. call[c].pc # "none"
        BY <2>1
      <3> QED
        BY Zenon, <1>1, <2>2, <3>1 DEF FInv, RunInv, RunsCall, Callers
    <2> QED
      BY Zenon, <1>1, <2>4, <2>5 DEF FInv, RunInv, Told
  <1>4. CASE GetHits(c)
    <2>1. PICK asked \in SUBSET Registry : cached(asked) /\ CallIs(c, "ok", cache[asked])
      BY Zenon, <1>0, <1>4 DEF GetHits
    <2>2. PICK view \in View : view = cache[asked] /\ Behind(view)
      BY Zenon, <1>1 DEF CallsOK, FInv, RunInv, Older
    <2>3. UNCHANGED <<cache, spoilt>> /\ call[c].pc # "none"
      BY <1>4 DEF GetHits
    <2>4. \A k \in Kinds, g \in Goroutines, b \in Registry :
            Listing(k, g) /\ b \notin spoilt'[k] => ~Predates(view, b, k)
      BY Zenon, <2>1, <2>2, <2>3 DEF FInv, RunInv, RunViews
    <2>5. ~("ok" = "sweep")
      OBVIOUS
    <2> QED
      BY Zenon, <1>1, <2>1, <2>2, <2>3, <2>4, <2>5, CallGoesOn
  <1>5. CASE GetMisses(c)
    <2>1. PICK asked \in SUBSET Registry : CallIs(c, "sweep", [b \in asked |-> backend[b]])
      BY Zenon, <1>0, <1>5 DEF GetMisses
    <2>2. PICK view : view = [b \in asked |-> backend[b]]
      BY Zenon
    <2>3. view \in View
      <3>1. view \in [asked -> [Kinds -> Version]]
        BY Zenon, <2>2 DEF FInv, LInv, Versions
      <3> QED
        BY Zenon, <3>1, ViewIs
    <2>4. DOMAIN view = asked /\ \A b \in asked : view[b] = backend[b]
      BY Zenon, <2>2
    <2>5. Behind(view)
      BY <1>2, <2>4 DEF Behind, Version
    <2>6. \A k \in Kinds : \A b \in DOMAIN view : begun[k][b] <= view[b][k]
      BY Zenon, <2>4 DEF FInv, RunInv, Older
    <2>7. UNCHANGED <<cache, spoilt>> /\ call[c].pc # "none"
      BY <1>5 DEF GetMisses
    <2>8. ~("sweep" = "ok") /\ CallIs(c, "sweep", view)
      BY Zenon, <2>1, <2>2
    <2> QED
      BY Zenon, <1>1, <2>3, <2>5, <2>6, <2>7, <2>8, CallGoesOn
  <1>6. CASE SweepReturns(c)
    <2>1. PICK view \in View :
           /\ view # NoView /\ DOMAIN view \subseteq DOMAIN call[c].view
           /\ \A b \in DOMAIN view, k \in Kinds :
                call[c].view[b][k] <= view[b][k] /\ view[b][k] <= backend[b][k]
           /\ CallIs(c, "ok", view)
           /\ cache' = IF Caching THEN [cache EXCEPT ![DOMAIN call[c].view] = view] ELSE cache
           /\ spoilt' = [k \in Kinds |-> spoilt[k] \cup Misses(c, view, k)]
      BY Zenon, <1>1, <1>6, SweepFacts
    <2>2. call[c].pc = "sweep" /\ call[c].pc # "none"
      BY <1>6 DEF SweepReturns
    <2>3. \A asked \in SUBSET Registry : cache'[asked] \in {cache[asked], view}
      BY Zenon, <1>1, <2>1 DEF CallsOK
    <2>4. \A k \in Kinds : spoilt'[k] = spoilt[k] \cup Misses(c, view, k)
      BY Zenon, <2>1
    <2>5. ASSUME NEW k \in Kinds, NEW b \in Registry, b \notin spoilt'[k],
                 Caching \/ (c \in Goroutines /\ Listing(k, c))
          PROVE  ~Predates(view, b, k)
      <3>1. b \notin Misses(c, view, k)
        BY Zenon, <2>4, <2>5
      <3>2. CASE c \in Goroutines /\ routine[c].kind = k
        <4>1. b \in DOMAIN view
          BY Zenon, <3>1, <3>2 DEF Misses
        <4>2. Listing(k, c)
          BY Zenon, <2>2, <3>2, SweeperLists
        <4>3. b \in DOMAIN call[c].view /\ begun[k][b] <= call[c].view[b][k]
          BY Zenon, <2>1, <2>2, <3>2, <4>1, <4>2 DEF FInv, RunInv, RunViews
        <4>4. view[b][k] \in Version /\ call[c].view[b][k] \in Version /\ begun[k][b] \in Version
          BY Zenon, <1>1, <1>2, <4>1, <4>3, ViewFacts DEF CallsOK, CallStates
        <4>5. call[c].view[b][k] <= view[b][k]
          BY Zenon, <2>1, <4>1
        <4>6. ~(view[b][k] < begun[k][b])
          BY <4>3, <4>4, <4>5 DEF Version
        <4> QED
          BY Zenon, <4>1, <4>6 DEF Predates
      <3>3. CASE ~(c \in Goroutines /\ routine[c].kind = k)
        BY Zenon, <2>5, <3>1, <3>3 DEF Misses, Listing
      <3> QED
        BY Zenon, <3>2, <3>3
    <2>6. Behind(view) /\ ~("ok" = "sweep")
      BY Zenon, <2>1 DEF Behind
    <2>7. \A k \in Kinds : spoilt[k] \subseteq spoilt'[k]
      BY Zenon, <2>4
    <2>8. \A k \in Kinds, g \in Goroutines, b \in Registry, asked \in SUBSET Registry :
            Listing(k, g) /\ b \notin spoilt'[k] /\ cache'[asked] # cache[asked] /\ Caching
              => ~Predates(view, b, k)
      BY Zenon, <2>5
    <2>9. \A k \in Kinds, g \in Goroutines, b \in Registry :
            Listing(k, g) /\ g = c /\ "ok" = "ok" /\ b \notin spoilt'[k] => ~Predates(view, b, k)
      BY Zenon, <2>5
    <2>10. CallIs(c, "ok", view)
      BY Zenon, <2>1
    <2> QED
      BY Zenon, <1>1, <2>2, <2>3, <2>6, <2>7, <2>8, <2>9, <2>10, CallGoesOn
  <1> QED
    BY Zenon, <1>3, <1>4, <1>5, <1>6 DEF AggregateCapabilities

\* The steps that concern no run and no registration.
LEMMA OtherRun ==
  ASSUME FInv,
         \/ \E asked \in SUBSET Registry : EntryExpires(asked)
         \/ Terminate \/ UNCHANGED vars
         \/ \E r \in Requests : RequestStarts(r) \/ RequestEnds(r)
  PROVE  RunInv'
  <1>1. /\ UNCHANGED <<bound, backend, begun, notified, routine, register, overlay, owed, spoilt>>
        /\ alive' \in {alive, FALSE}
    BY Zenon DEF EntryExpires, Terminate, RequestStarts, RequestEnds, vars
  <1>5. alive' => alive
    BY Zenon, <1>1
  <1>0. Forgets
    <2>1. \/ UNCHANGED cache
          \/ \E asked \in SUBSET Registry : cache' = [cache EXCEPT ![asked] = NoView]
      BY Zenon DEF EntryExpires, Terminate, RequestStarts, RequestEnds, vars
    <2> QED
      BY Zenon, <2>1, ForgetTypes DEF FInv, LInv
  <1>2. /\ \A c \in Callers : Quietly(c)
        /\ \A g \in Goroutines : call'[g] = call[g]
    <2>1. CASE UNCHANGED call
      BY Zenon, <2>1 DEF Quietly
    <2>2. ASSUME NEW r \in Requests, RequestStarts(r) \/ RequestEnds(r)
          PROVE  /\ \A c \in Callers : Quietly(c)
                 /\ \A g \in Goroutines : call'[g] = call[g]
      <3>1. r \in Callers /\ \A g \in Goroutines : g \in Callers /\ g # r
        BY Zenon, ListChangedAssumption DEF Callers
      <3> QED
        BY Zenon, <2>2, <3>1, Asks DEF RequestStarts, RequestEnds, FInv, LInv
    <2> QED
      BY Zenon, <2>1, <2>2 DEF EntryExpires, Terminate, vars
  <1>3. Steady
    BY Zenon, <1>0, <1>1, <1>2, <1>5 DEF Steady
  <1>4. Older' /\ RunViews' /\ RunLists'
    BY Zenon, <1>1, <1>3, SteadyRun
  <1> QED
    BY Zenon, <1>1, <1>2, <1>4 DEF FInv, RunInv, RunsCall, Told

LEMMA TriggerRun ==
  ASSUME FInv, NEW k \in Kinds, trigger(k)
  PROVE  RunInv'
  <1>1. /\ UNCHANGED <<bound, backend, cache, call, register, overlay, alive, begun, spoilt>>
        /\ notified' = [notified EXCEPT ![k] = @ - 1]
        /\ owed' = [owed EXCEPT ![k] = TRUE]
    BY Zenon DEF trigger, Delivered
  <1>2. \A g \in Goroutines : \/ routine'[g] = routine[g]
                              \/ routine[g].pc # "list" /\ routine'[g].pc # "list"
    <2>1. CASE UNCHANGED routine
      BY Zenon, <2>1
    <2>2. ASSUME NEW h \in Goroutines, routine[h].pc = "idle", RoutineIs(h, "run", k, << >>)
          PROVE  \A g \in Goroutines : \/ routine'[g] = routine[g]
                                       \/ routine[g].pc # "list" /\ routine'[g].pc # "list"
      BY <2>2, RoutineStep DEF FInv, LInv
    <2> QED
      BY Zenon, <2>1, <2>2, StartsOne DEF trigger
  <1>3. Steady
    <2>1. Forgets /\ \A c \in Callers : Quietly(c)
      BY Zenon, <1>1 DEF Forgets, Quietly
    <2> QED
      BY Zenon, <1>1, <2>1 DEF Steady
  <1>4. Older' /\ RunViews' /\ RunLists'
    BY Zenon, <1>1, <1>2, <1>3, SteadyRun
  <1>5. Told'
    <2>1. /\ owed'[k] /\ \A j \in Kinds : j # k => owed'[j] = owed[j]
          /\ \A j \in Kinds : j # k => notified'[j] = notified[j]
      BY Zenon, <1>1 DEF FInv, LInv, WInv, Flags, Versions
    <2>2. ASSUME NEW j \in Kinds, NEW b \in bound.connected, notified'[j] = 0, ~owed'[j]
          PROVE  begun[j][b] = backend[b][j]
      BY Zenon, <2>1, <2>2 DEF FInv, RunInv, Told
    <2> QED
      BY Zenon, <1>1, <2>2 DEF Told
  <1>6. RunsCall'
    BY Zenon, <1>1, <1>2 DEF FInv, RunInv, RunsCall
  <1> QED
    BY Zenon, <1>4, <1>5, <1>6 DEF RunInv

LEMMA LoopRun ==
  ASSUME FInv, NEW g \in Goroutines, loop(g)
  PROVE  RunInv'
  <1>1. /\ UNCHANGED <<bound, backend, notified, cache, call, register, overlay, alive, owed,
                       begun, spoilt>>
        /\ routine[g].pc = "ran"
    BY Zenon DEF loop
  <1>2. /\ \A h \in Goroutines : h # g => routine'[h] = routine[h]
        /\ routine'[g].pc # "list" /\ routine[g].pc # "list"
    <2>1. CASE \E k : RoutineIs(g, "run", k, << >>)
      BY <1>1, <2>1, RoutineStep DEF FInv, LInv
    <2>2. CASE routine' = [routine EXCEPT ![g] = Idle]
      BY <1>1, <2>2 DEF FInv, LInv, WInv, Routines, Idle
    <2> QED
      BY Zenon, <2>1, <2>2 DEF loop
  <1>3. Steady
    BY Zenon, <1>1 DEF Steady, Quietly, Forgets
  <1>4. Older' /\ RunViews' /\ RunLists'
    BY Zenon, <1>1, <1>2, <1>3, SteadyRun
  <1>5. RunsCall'
    BY Zenon, <1>1, <1>2 DEF FInv, RunInv, RunsCall
  <1> QED
    BY Zenon, <1>1, <1>4, <1>5 DEF FInv, RunInv, Told

\* A change of a backend makes nothing older than it was, and the session is
\* told of it if it is connected.
LEMMA ChangeRun ==
  ASSUME FInv, NEW a \in Registry, NEW k \in Kinds, BackendChanges(a, k)
  PROVE  RunInv'
  <1>1. /\ UNCHANGED <<bound, routine, cache, call, register, overlay, alive, owed, begun, spoilt>>
        /\ backend' = [backend EXCEPT ![a][k] = @ + 1]
        /\ notified' = IF a \in bound.connected THEN [notified EXCEPT ![k] = @ + 1] ELSE notified
    BY Zenon DEF BackendChanges
  <1>2. /\ backend \in [Registry -> [Kinds -> Version]] /\ begun \in [Kinds -> [Registry -> Version]]
        /\ notified \in [Kinds -> Nat]
    BY Zenon DEF FInv, LInv, Versions
  <1>3. \A b \in Registry, j \in Kinds :
          /\ b # a \/ j # k => backend'[b][j] = backend[b][j]
          /\ b = a /\ j = k => backend'[b][j] = backend[b][j] + 1
    BY <1>1, <1>2
  <1>4. \A b \in Registry, j \in Kinds : backend[b][j] \in Version /\ begun[j][b] \in Version
    BY Zenon, <1>2
  <1>5. \A b \in Registry, j \in Kinds : \A v \in Version :
          v <= backend[b][j] => v <= backend'[b][j]
    BY <1>3, <1>4 DEF Version
  <1>6. ASSUME NEW v \in View, Behind(v) PROVE Behind(v)'
    <2>1. \A b \in DOMAIN v, j \in Kinds : b \in Registry /\ v[b][j] \in Version
      BY Zenon, ViewFacts
    <2> QED
      BY Zenon, <1>5, <1>6, <2>1 DEF Behind
  <1>7. ASSUME NEW items \in Stores, NEW j \in Kinds, UpTo(items, j) PROVE UpTo(items, j)'
    <2>1. \A b \in Registry : \A v \in items[b] : v \in Version
      BY Zenon DEF Stores
    <2> QED
      BY Zenon, <1>5, <1>7, <2>1 DEF UpTo
  <1>8. Older'
    <2>1. \A asked \in SUBSET Registry : Behind(cache[asked])'
      BY Zenon, <1>1, <1>6 DEF FInv, LInv, CallsOK, RunInv, Older, Behind
    <2>2. \A c \in Callers : Behind(call[c].view)'
      BY Zenon, <1>1, <1>6 DEF FInv, LInv, CallsOK, CallStates, RunInv, Older, Behind
    <2>3. \A j \in DOMAIN register.got : Behind(register.got[j])'
      <3>1. \A j \in DOMAIN register.got : register.got[j] \in View
        BY DEF FInv, LInv, RegisterOK
      <3> QED
        BY Zenon, <1>1, <1>6, <3>1 DEF FInv, RunInv, Older, Behind
    <2>5. \A l \in Lists : UpTo(overlay[l], KindOf(l))'
      BY Zenon, <1>1, <1>7, ListKind DEF FInv, LInv, OthersOK, RunInv, Older, UpTo
    <2>6. register.pc = "set" => UpTo(register.existing, KindOf(Head(register.todo)))'
      <3> SUFFICES ASSUME register.pc = "set"
                   PROVE  UpTo(register.existing, KindOf(Head(register.todo)))'
        BY Zenon
      <3>1. register.todo \in Seq(Lists) /\ register.todo # << >> /\ register.existing \in Stores
        BY Zenon DEF FInv, LInv, RegisterOK
      <3>2. KindOf(Head(register.todo)) \in Kinds
        BY Zenon, <3>1, TailOf, ListKind
      <3>3. UpTo(register.existing, KindOf(Head(register.todo)))
        BY Zenon DEF FInv, RunInv, Older
      <3> QED
        BY Zenon, <1>1, <1>7, <3>1, <3>2, <3>3 DEF UpTo
    <2>7. \A j \in Kinds, b \in Registry : begun'[j][b] <= backend'[b][j]
      BY Zenon, <1>1, <1>4, <1>5 DEF FInv, RunInv, Older
    <2> QED
      BY Zenon, <1>1, <2>1, <2>2, <2>3, <2>5, <2>6, <2>7 DEF Older
  <1>9. Told'
    <2>1. ASSUME NEW j \in Kinds, NEW b \in bound.connected, notified'[j] = 0, ~owed[j]
          PROVE  begun[j][b] = backend'[b][j]
      <3>1. b \in Registry
        BY Zenon, ConnectedIs DEF FInv
      <3>2. a \in bound.connected /\ j = k => notified'[j] # 0
        BY <1>1, <1>2
      <3>3. notified[j] = 0
        BY <1>1, <1>2, <2>1
      <3>4. b # a \/ j # k
        BY Zenon, <2>1, <3>2
      <3> QED
        BY Zenon, <1>3, <2>1, <3>1, <3>3, <3>4 DEF FInv, RunInv, Told
    <2> QED
      BY Zenon, <1>1, <2>1 DEF Told
  <1>10. RunsCall' /\ RunViews'
    BY Zenon, <1>1 DEF FInv, RunInv, RunsCall, RunViews, Listing, cached, Predates
  <1>11. RunLists'
    <2>1. \A l \in Lists, b \in Registry :
            Settled(overlay[l], b, KindOf(l)) => Settled(overlay[l], b, KindOf(l))'
      BY Zenon, <1>1 DEF Settled
    <2>2. \A l \in Lists : (Awaited(l) => Awaited(l)') /\ (Due(l) => Due(l)')
      BY Zenon, <1>1 DEF Awaited, Due, Listing
    <2> QED
      BY Zenon, <1>1, <2>1, <2>2 DEF FInv, RunInv, RunLists
  <1> QED
    BY Zenon, <1>8, <1>9, <1>10, <1>11 DEF RunInv

\* A run begins with every list of its kind to replace, and an empty cache.
LEMMA RunBegins ==
  ASSUME FInv, NEW g \in Goroutines, runListChangedResync(g)
  PROVE  RunInv'
  <1>1. PICK k \in Kinds : k = routine[g].kind /\ Busy(g)
    BY DEF runListChangedResync, FInv, LInv, WInv, RunningIsBusy, Busy
  <1>2. /\ UNCHANGED <<bound, backend, notified, register, overlay, alive>>
        /\ owed' = [owed EXCEPT ![k] = FALSE] /\ spoilt' = [spoilt EXCEPT ![k] = {}]
        /\ begun' = [begun EXCEPT ![k] = [b \in Registry |-> backend[b][k]]]
        /\ routine[g].pc = "run"
    BY Zenon, <1>1 DEF runListChangedResync
  <1>3. /\ \A b \in Registry : begun'[k][b] = backend[b][k]
        /\ \A j \in Kinds : j # k => /\ begun'[j] = begun[j] /\ spoilt'[j] = spoilt[j]
                                     /\ owed'[j] = owed[j]
    BY Zenon, <1>2 DEF FInv, LInv, WInv, Flags, Versions, OthersOK
  <1>4. \A h \in Goroutines : h # g /\ Busy(h) => routine[h].kind # k
    BY Zenon, <1>1 DEF FInv, LInv, WInv, AtMostOneRun, Busy
  <1>5. g \in Callers /\ \A h \in Goroutines : h \in Callers
    BY Zenon DEF Callers
  <1>6. \/ /\ ~alive /\ RoutineIs(g, "ran", k, << >>) /\ UNCHANGED <<cache, call>>
        \/ /\ alive /\ RoutineIs(g, "list", k, ListsOf[k]) /\ CallIs(g, "get", NoView)
           /\ InvalidateAll
    BY Zenon, <1>1 DEF runListChangedResync
  <1>7. /\ \A h \in Goroutines : h # g => routine'[h] = routine[h]
        /\ routine'[g].kind = k
        /\ alive => routine'[g].pc = "list" /\ routine'[g].todo = ListsOf[k]
        /\ ~alive => routine'[g].pc = "ran"
    <2>1. /\ \A h \in Goroutines : h # g => routine'[h] = routine[h]
          /\ alive => routine'[g] = [pc |-> "list", kind |-> k, todo |-> ListsOf[k]]
          /\ ~alive => routine'[g] = [pc |-> "ran", kind |-> k, todo |-> << >>]
      BY Zenon, <1>6 DEF RoutineIs, FInv, LInv, WInv, Routines
    <2> QED
      BY <2>1
  <1>8. Forgets /\ (\A c \in Callers : Quietly(c))
        /\ (\A c \in Callers : c # g => call'[c] = call[c])
        /\ (alive => call'[g].pc = "get" /\ \A asked \in SUBSET Registry : ~cached(asked)')
        /\ (~alive => UNCHANGED <<call, cache>>)
    <2>1. CASE ~alive
      BY Zenon, <1>6, <2>1 DEF Forgets, Quietly
    <2>2. CASE alive
      <3>1. Forgets
        BY Zenon, <1>6, <2>2, ForgetTypes DEF FInv, LInv
      <3>2. \A asked \in SUBSET Registry : ~cached(asked)'
        BY Zenon, <1>6, <2>2 DEF InvalidateAll, ColdCache, cached
      <3> QED
        BY Zenon, <1>5, <1>6, <2>2, <3>1, <3>2, Asks DEF FInv, LInv
    <2> QED
      BY Zenon, <2>1, <2>2
  <1>9. Older'
    <2>1. \A asked \in SUBSET Registry : Behind(cache'[asked])
      BY Zenon, <1>8, NothingBehind DEF Forgets, FInv, RunInv, Older
    <2>2. \A c \in Callers : Behind(call'[c].view)
      BY Zenon, <1>8, NothingBehind DEF Quietly, FInv, RunInv, Older
    <2>3. \A j \in Kinds, b \in Registry : begun'[j][b] <= backend[b][j]
      <3>1. \A b \in Registry : backend[b][k] <= backend[b][k]
        <4>1. \A b \in Registry : backend[b][k] \in Version
          BY Zenon DEF FInv, LInv, Versions
        <4> QED
          BY <4>1 DEF Version
      <3> QED
        BY Zenon, <1>3, <3>1 DEF FInv, RunInv, Older
    <2> QED
      BY Zenon, <1>2, <2>1, <2>2, <2>3 DEF FInv, RunInv, Older, Behind, UpTo
  <1>10. Told'
    <2>1. ASSUME NEW j \in Kinds, NEW b \in bound.connected, notified[j] = 0, ~owed'[j]
          PROVE  begun'[j][b] = backend[b][j]
      <3>1. b \in Registry
        BY Zenon, ConnectedIs DEF FInv
      <3> QED
        BY Zenon, <1>3, <2>1, <3>1 DEF FInv, RunInv, Told
    <2>2. UNCHANGED <<bound, backend, notified>>
      BY Zenon, <1>2
    <2> QED
      BY Zenon, <2>1, <2>2 DEF Told
  <1>11. RunsCall'
    <2>1. ~alive => call'[g].pc = "none"
      <3>1. routine[g].pc # "list"
        BY <1>2
      <3> QED
        BY Zenon, <1>8, <3>1 DEF FInv, RunInv, RunsCall
    <2> QED
      BY Zenon, <1>5, <1>7, <1>8, <2>1 DEF FInv, RunInv, RunsCall
  <1>12. RunViews'
    <2> SUFFICES ASSUME NEW j \in Kinds, NEW h \in Goroutines, Listing(j, h)'
                 PROVE  /\ \A asked \in SUBSET Registry, b \in Registry :
                             cached(asked)' /\ b \notin spoilt'[j] => ~Predates(cache[asked], b, j)'
                        /\ call'[h].pc = "sweep" =>
                             \A b \in DOMAIN call'[h].view : begun'[j][b] <= call'[h].view[b][j]
                        /\ call'[h].pc = "ok" =>
                             \A b \in Registry : b \notin spoilt'[j] => ~Predates(call[h].view, b, j)'
      BY Zenon DEF RunViews
    <2>1. CASE h = g
      <3>1. alive
        BY <1>7, <2>1 DEF Listing
      <3>2. call'[h].pc # "sweep" /\ call'[h].pc # "ok"
        BY <1>8, <2>1, <3>1
      <3> QED
        BY Zenon, <1>8, <3>1, <3>2
    <2>2. CASE h # g
      <3>1. Listing(j, h) /\ call'[h] = call[h]
        BY Zenon, <1>5, <1>7, <1>8, <2>2 DEF Listing
      <3>2. j # k
        <4>1. Busy(h)
          BY <3>1 DEF Listing, Busy
        <4> QED
          BY Zenon, <1>4, <2>2, <3>1, <4>1 DEF Listing
      <3>3. begun'[j] = begun[j] /\ spoilt'[j] = spoilt[j]
        BY Zenon, <1>3, <3>2
      <3>4. \A asked \in SUBSET Registry : cached(asked)' =>
              cached(asked) /\ cache'[asked] = cache[asked]
        BY Zenon, <1>8 DEF Forgets, cached
      <3> QED
        BY Zenon, <3>1, <3>3, <3>4 DEF FInv, RunInv, RunViews, Predates
    <2> QED
      BY Zenon, <2>1, <2>2
  <1>13. RunLists'
    <2> SUFFICES ASSUME NEW l \in Lists, NEW b \in Registry, b \notin spoilt'[KindOf(l)], alive
                 PROVE  (Settled(overlay[l], b, KindOf(l)) \/ Awaited(l) \/ Due(l))'
      BY Zenon, <1>2 DEF RunLists
    <2>1. PICK j \in Kinds : j = KindOf(l) /\ Among(l, ListsOf[j])
      BY Zenon, ListKind
    <2>2. CASE j = k
      BY Zenon, <1>7, <2>1, <2>2 DEF Due, Listing
    <2>3. CASE j # k
      <3>1. Settled(overlay[l], b, j) \/ Awaited(l) \/ Due(l)
        BY Zenon, <1>3, <2>1, <2>3 DEF FInv, RunInv, RunLists
      <3>2. Due(l) => Due(l)'
        BY Zenon, <1>1, <1>7, <2>1, <2>3 DEF Due, Listing
      <3>3. Settled(overlay[l], b, j) => Settled(overlay[l], b, j)'
        BY Zenon, <1>2, <1>3, <2>3 DEF Settled
      <3>4. Awaited(l) => Awaited(l)'
        BY Zenon, <1>2 DEF Awaited
      <3> QED
        BY Zenon, <2>1, <3>1, <3>2, <3>3, <3>4
    <2> QED
      BY Zenon, <2>2, <2>3
  <1> QED
    BY Zenon, <1>9, <1>10, <1>11, <1>12, <1>13 DEF RunInv

\* A list derived from a view is no newer than the view.
LEMMA ItemsUpTo ==
  ASSUME NEW v \in View, NEW k \in Kinds, Behind(v)
  PROVE  UpTo(Items(v, k), k)
  <1> SUFFICES ASSUME NEW b \in Registry, NEW x \in Items(v, k)[b]
               PROVE  x <= backend[b][k]
    BY Zenon DEF UpTo
  <1>1. /\ b \in DOMAIN v => Items(v, k)[b] = {v[b][k]}
        /\ b \notin DOMAIN v => Items(v, k)[b] = {}
    BY Zenon, ItemsFacts
  <1>2. b \in DOMAIN v /\ x = v[b][k]
    BY <1>1
  <1> QED
    BY Zenon, <1>2 DEF Behind

\* A list is replaced by what the run has derived it from; after an error the
\* run has missed every backend.
LEMMA ResyncRun ==
  ASSUME FInv, NEW g \in Goroutines, resyncSession(g)
  PROVE  RunInv'
  <1>1. PICK k \in Kinds : k = routine[g].kind /\ routine[g].pc = "list"
    BY DEF resyncSession, FInv, LInv, WInv, RunningIsBusy, Busy
  <1>2. PICK todo \in Seq(Lists) :
          /\ todo = routine[g].todo /\ todo # << >>
          /\ \A i \in DOMAIN todo : KindOf(todo[i]) = k
    BY Zenon, <1>1 DEF FInv, LInv, TodoOK
  <1>3. PICK l \in Lists : l = Head(todo) /\ KindOf(l) = k
    <2>1. Head(todo) \in Lists /\ Among(Head(todo), todo)
      BY Zenon, <1>2, TailOf
    <2> QED
      BY Zenon, <1>2, <2>1 DEF Among
  <1>4. /\ UNCHANGED <<bound, backend, notified, cache, register, alive, owed, begun>>
        /\ UNCHANGED spoilt \/ spoilt' = [spoilt EXCEPT ![k] = Registry]
    BY Zenon, <1>1 DEF resyncSession
  <1>5. g \in Callers /\ \A h \in Goroutines : h \in Callers
    BY Zenon DEF Callers
  <1>6. /\ \A c \in Callers : Quietly(c)
        /\ \A c \in Callers : c # g => call'[c] = call[c]
    BY Zenon, <1>5, Asks DEF resyncSession, Replace, FInv, LInv
  <1>7. \/ RoutineIs(g, "list", k, Tail(todo)) /\ CallIs(g, "get", NoView)
        \/ RoutineIs(g, "ran", k, << >>) /\ CallIs(g, "none", NoView)
    BY Zenon, <1>1, <1>2 DEF resyncSession, Replace
  <1>8. /\ \A h \in Goroutines : h # g => routine'[h] = routine[h]
        /\ routine'[g].kind = k
        /\ \/ routine'[g].pc = "list" /\ routine'[g].todo = Tail(todo)
           \/ routine'[g].pc = "ran" /\ call'[g].pc = "none"
    <2>1. ASSUME RoutineIs(g, "list", k, Tail(todo))
          PROVE  /\ \A h \in Goroutines : h # g => routine'[h] = routine[h]
                 /\ routine'[g].kind = k
                 /\ routine'[g].pc = "list" /\ routine'[g].todo = Tail(todo)
      <3>1. /\ \A h \in Goroutines : h # g => routine'[h] = routine[h]
            /\ routine'[g] = [pc |-> "list", kind |-> k, todo |-> Tail(todo)]
        BY Zenon, <2>1 DEF RoutineIs, FInv, LInv, WInv, Routines
      <3> QED
        BY <3>1
    <2>2. ASSUME RoutineIs(g, "ran", k, << >>), CallIs(g, "none", NoView)
          PROVE  /\ \A h \in Goroutines : h # g => routine'[h] = routine[h]
                 /\ routine'[g].kind = k
                 /\ routine'[g].pc = "ran" /\ call'[g].pc = "none"
      <3>1. /\ \A h \in Goroutines : h # g => routine'[h] = routine[h]
            /\ routine'[g].pc = "ran" /\ routine'[g].kind = k
        BY <2>2, RoutineStep DEF FInv, LInv
      <3>2. call'[g].pc = "none"
        BY Zenon, <1>5, <2>2, Asks DEF FInv, LInv
      <3> QED
        BY Zenon, <3>1, <3>2
    <2> QED
      BY Zenon, <1>7, <2>1, <2>2
  <1>9. Steady
    <2>1. \A j \in Kinds : spoilt[j] \subseteq spoilt'[j]
      BY Zenon, <1>4 DEF FInv, LInv, OthersOK
    <2>2. Forgets
      BY Zenon, <1>4 DEF Forgets
    <2> QED
      BY Zenon, <1>4, <1>6, <2>1, <2>2 DEF Steady
  <1>10. RunViews'
    <2>1. \A j \in Kinds, h \in Goroutines : Listing(j, h)' => Listing(j, h)
      BY Zenon, <1>1, <1>8 DEF Listing
    <2> QED
      BY Zenon, <1>9, <2>1, SteadyViews
  <1>11. Told' /\ RunsCall'
    <2>1. Told'
      BY Zenon, <1>4 DEF FInv, RunInv, Told
    <2>2. RunsCall'
      BY Zenon, <1>5, <1>6, <1>8 DEF FInv, RunInv, RunsCall
    <2> QED
      BY Zenon, <2>1, <2>2
  <1>12. ASSUME call[g].pc = "ok", Replace(g), UNCHANGED spoilt
         PROVE  Older' /\ RunLists'
    <2>1. PICK view \in View : view = call[g].view /\ Behind(view)
      BY Zenon, <1>5 DEF FInv, LInv, CallsOK, CallStates, RunInv, Older
    <2>2. PICK items \in Stores : items = Items(view, k)
      BY Zenon, ItemsFacts
    <2>3. overlay' = [overlay EXCEPT ![l] = items]
      BY Zenon, <1>1, <1>2, <1>3, <1>12, <2>1, <2>2 DEF Replace
    <2>4. overlay'[l] = items /\ \A m \in Lists : m # l => overlay'[m] = overlay[m]
      BY Zenon, <2>3 DEF FInv, LInv, OthersOK
    <2>5. \A b \in Registry : /\ b \in DOMAIN view => items[b] = {view[b][k]}
                              /\ b \notin DOMAIN view => items[b] = {}
      <3>1. \A b \in Registry : /\ b \in DOMAIN view => Items(view, k)[b] = {view[b][k]}
                                /\ b \notin DOMAIN view => Items(view, k)[b] = {}
        BY Zenon, ItemsFacts
      <3> QED
        BY Zenon, <2>2, <3>1
    <2>6. Older'
      <3>1. UpTo(items, k)
        BY Zenon, <2>1, <2>2, ItemsUpTo
      <3>2. \A m \in Lists : UpTo(overlay'[m], KindOf(m))
        BY Zenon, <1>3, <2>4, <3>1 DEF FInv, RunInv, Older
      <3> QED
        BY Zenon, <1>4, <1>9, <3>2, SteadyOlder DEF FInv, RunInv, Older
    <2>7. ASSUME NEW b \in Registry, b \notin spoilt[k]
          PROVE  Settled(items, b, k)
      <3>1. ~Predates(view, b, k)
        BY Zenon, <1>1, <1>12, <2>1, <2>7 DEF FInv, RunInv, RunViews, Listing
      <3>2. b \in DOMAIN view /\ ~(view[b][k] < begun[k][b])
        BY Zenon, <3>1 DEF Predates
      <3>3. view[b][k] \in Version /\ begun[k][b] \in Version
        <4>1. \A a \in DOMAIN view, j \in Kinds : view[a][j] \in Version
          BY Zenon, ViewFacts
        <4> QED
          BY Zenon, <3>2, <4>1 DEF FInv, LInv, Versions
      <3>4. begun[k][b] <= view[b][k]
        BY <3>2, <3>3 DEF Version
      <3> QED
        BY Zenon, <2>5, <3>2, <3>3, <3>4 DEF Settled
    <2>8. RunLists'
      <3> SUFFICES ASSUME NEW m \in Lists, NEW b \in Registry, b \notin spoilt'[KindOf(m)], alive
                   PROVE  (Settled(overlay[m], b, KindOf(m)) \/ Awaited(m) \/ Due(m))'
        BY Zenon, <1>4 DEF RunLists
      <3>1. b \notin spoilt[KindOf(m)]
        BY Zenon, <1>12
      <3>2. CASE m = l
        BY Zenon, <1>3, <1>4, <2>4, <2>7, <3>1, <3>2 DEF Settled
      <3>3. CASE m # l
        <4>1. Due(m) => Due(m)'
          <5> SUFFICES ASSUME NEW h \in Goroutines, Listing(KindOf(m), h),
                              Among(m, routine[h].todo)
                       PROVE  Listing(KindOf(m), h)' /\ Among(m, routine'[h].todo)
            BY Zenon DEF Due, Listing
          <5>1. CASE h # g
            BY Zenon, <1>8, <5>1 DEF Listing
          <5>2. CASE h = g
            <6>1. Among(m, Tail(todo)) /\ Tail(todo) # << >>
              BY Zenon, <1>2, <1>3, <3>3, <5>2, TailOf
            <6>2. RoutineIs(g, "list", k, Tail(todo))
              BY Zenon, <1>1, <1>2, <1>12, <6>1 DEF Replace
            <6>3. routine'[g] = [pc |-> "list", kind |-> k, todo |-> Tail(todo)]
              BY Zenon, <6>2 DEF RoutineIs, FInv, LInv, WInv, Routines
            <6>4. routine'[g].pc = "list" /\ routine'[g].kind = k
                  /\ routine'[g].todo = Tail(todo)
              BY <6>3
            <6> QED
              BY Zenon, <1>1, <5>2, <6>1, <6>4 DEF Listing
          <5> QED
            BY Zenon, <5>1, <5>2
        <4>2. Settled(overlay[m], b, KindOf(m)) \/ Awaited(m) \/ Due(m)
          BY Zenon, <3>1 DEF FInv, RunInv, RunLists
        <4>3. Settled(overlay[m], b, KindOf(m)) => Settled(overlay[m], b, KindOf(m))'
          BY Zenon, <1>4, <2>4, <3>3 DEF Settled
        <4>4. Awaited(m) => Awaited(m)'
          BY Zenon, <1>4 DEF Awaited
        <4> QED
          BY Zenon, <4>1, <4>2, <4>3, <4>4
      <3> QED
        BY Zenon, <3>2, <3>3
    <2> QED
      BY Zenon, <2>6, <2>8
  <1>13. ASSUME UNCHANGED overlay, spoilt' = [spoilt EXCEPT ![k] = Registry]
         PROVE  Older' /\ RunLists'
    <2>1. Older'
      BY Zenon, <1>4, <1>9, <1>13, SteadyOlder DEF FInv, RunInv, Older
    <2>2. spoilt'[k] = Registry /\ \A j \in Kinds : j # k => spoilt'[j] = spoilt[j]
      BY Zenon, <1>13 DEF FInv, LInv, OthersOK
    <2>3. RunLists'
      <3> SUFFICES ASSUME NEW m \in Lists, NEW b \in Registry, b \notin spoilt'[KindOf(m)], alive
                   PROVE  (Settled(overlay[m], b, KindOf(m)) \/ Awaited(m) \/ Due(m))'
        BY Zenon, <1>4 DEF RunLists
      <3>1. KindOf(m) # k /\ b \notin spoilt[KindOf(m)]
        BY Zenon, <2>2, ListKind
      <3>2. Due(m) => Due(m)'
        BY Zenon, <1>1, <1>8, <3>1 DEF Due, Listing
      <3>3. Settled(overlay[m], b, KindOf(m)) => Settled(overlay[m], b, KindOf(m))'
        BY Zenon, <1>4, <1>13 DEF Settled
      <3>4. Awaited(m) => Awaited(m)'
        BY Zenon, <1>4 DEF Awaited
      <3> QED
        BY Zenon, <3>1, <3>2, <3>3, <3>4 DEF FInv, RunInv, RunLists
    <2> QED
      BY Zenon, <2>1, <2>3
  <1> QED
    BY Zenon, <1>1, <1>10, <1>11, <1>12, <1>13 DEF resyncSession, RunInv

\* The registration installs what it has derived: a list is settled then, or
\* the backend is missed.
LEMMA RegistrationRun ==
  ASSUME FInv, injectCoreSessionCapabilities
  PROVE  RunInv'
  <1>1. Registration \in Callers /\ \A g \in Goroutines : g \in Callers /\ g # Registration
    BY Zenon, ListChangedAssumption DEF Callers
  <1>2. /\ UNCHANGED <<bound, backend, begun, notified, routine, cache, owed>>
        /\ alive' \in {alive, FALSE}
    BY Zenon DEF injectCoreSessionCapabilities, ListDerived, ListNotDerived, ExistingRead,
       MergedSet
  <1>3. /\ \A c \in Callers : Quietly(c)
        /\ \A g \in Goroutines : call'[g] = call[g]
    <2>1. CASE UNCHANGED call
      BY Zenon, <2>1 DEF Quietly
    <2>2. CASE \E pc \in {"none", "get"} : CallIs(Registration, pc, NoView)
      BY Zenon, <1>1, <2>2, Asks DEF FInv, LInv
    <2> QED
      BY Zenon, <2>1, <2>2 DEF injectCoreSessionCapabilities, ListDerived, ListNotDerived,
         ExistingRead, MergedSet
  <1>4. Steady
    <2>1. \A k \in Kinds : spoilt[k] \subseteq spoilt'[k]
      <3>1. CASE UNCHANGED spoilt
        BY Zenon, <3>1
      <3>2. CASE MergedSet
        <4>1. PICK k, more : spoilt' = [spoilt EXCEPT ![k] = @ \cup more]
          BY Zenon, <3>2 DEF MergedSet
        <4> QED
          BY Zenon, <4>1 DEF FInv, LInv, OthersOK
      <3> QED
        BY Zenon, <3>1, <3>2 DEF injectCoreSessionCapabilities, ListDerived, ListNotDerived,
           ExistingRead
    <2>2. alive' => alive
      BY Zenon, <1>2
    <2>3. Forgets
      BY Zenon, <1>2 DEF Forgets
    <2> QED
      BY Zenon, <1>2, <1>3, <2>1, <2>2, <2>3 DEF Steady
  <1>5. RunViews'
    <2>1. \A k \in Kinds, g \in Goroutines : Listing(k, g)' => Listing(k, g)
      BY Zenon, <1>2 DEF Listing
    <2> QED
      BY Zenon, <1>4, <2>1, SteadyViews
  <1>6. Told' /\ RunsCall'
    BY Zenon, <1>2, <1>3 DEF FInv, RunInv, Told, RunsCall
  <1>7. \A m \in Lists : Due(m) => Due(m)'
    BY Zenon, <1>2 DEF Due, Listing
  <1>8. PICK r \in RegisterRecord : r = register
    BY Zenon DEF FInv, LInv, RegisterOK, RegisterRecord
  <1>9. /\ r.pc \in RegisterPcs /\ r.todo \in Seq(Lists) /\ r.got \in Seq(View)
        /\ r.existing \in Stores
        /\ r.pc \in {"list", "existing", "set"} => r.todo # << >>
    BY Zenon, <1>8 DEF RegisterRecord, FInv, LInv, RegisterOK
  <1>10. /\ \A j \in DOMAIN r.got : Behind(r.got[j])
         /\ \A l \in Lists : UpTo(overlay[l], KindOf(l))
    BY Zenon, <1>8 DEF FInv, RunInv, Older
  <1>11. CASE ListDerived
    <2>1. PICK view \in View : view = call[Registration].view /\ Behind(view)
      BY Zenon, <1>1 DEF FInv, LInv, CallsOK, CallStates, RunInv, Older
    <2>2. PICK got : got = Append(r.got, view)
      BY Zenon
    <2>3. \A j \in DOMAIN got : Behind(got[j])
      <3>1. PICK u \in Seq(View) : u = r.got
        BY Zenon, <1>9
      <3>2. \A j \in DOMAIN Append(u, view) :
              Append(u, view)[j] = view \/ (j \in DOMAIN u /\ Append(u, view)[j] = u[j])
        OBVIOUS
      <3> QED
        BY Zenon, <1>10, <2>1, <2>2, <3>1, <3>2
    <2>4. UNCHANGED overlay /\ r.pc = "list"
      BY Zenon, <1>8, <1>11 DEF ListDerived
    <2>5. \/ register' = [r EXCEPT !.pc = "existing", !.todo = Installed, !.got = got]
          \/ register' = [r EXCEPT !.todo = Tail(r.todo), !.got = got]
      BY Zenon, <1>8, <1>11, <2>1, <2>2 DEF ListDerived
    <2>6. /\ register'.got = got
          /\ register'.pc = "list" \/ (register'.pc = "existing" /\ register'.todo = Installed)
      BY Zenon, <1>9, <2>4, <2>5 DEF RegisterRecord
    <2>7. Older'
      <3>1. register'.pc # "set"
        BY <2>6
      <3> QED
        BY Zenon, <1>4, <1>10, <2>3, <2>4, <2>6, <3>1, SteadyOlder
    <2>8. \A l \in Lists : Awaited(l) => Awaited(l)'
      <3>1. \A l \in Lists : Among(l, Installed)
        BY Zenon DEF Lists, Among
      <3> QED
        BY Zenon, <2>6, <3>1 DEF Awaited
    <2> QED
      BY Zenon, <1>4, <1>5, <1>6, <1>7, <2>4, <2>7, <2>8, SteadyLists DEF RunInv
  <1>12. CASE ListNotDerived
    <2>1. register' = [r EXCEPT !.pc = "failed", !.todo = << >>] /\ UNCHANGED overlay
          /\ alive' = FALSE
      BY Zenon, <1>8, <1>12 DEF ListNotDerived
    <2>2. register'.got = r.got /\ register'.pc = "failed"
      BY Zenon, <2>1 DEF RegisterRecord
    <2>3. Older'
      <3>1. register'.pc # "set"
        BY <2>2
      <3> QED
        BY Zenon, <1>4, <1>10, <2>1, <2>2, <3>1, SteadyOlder
    <2>4. RunLists'
      BY Zenon, <2>1 DEF RunLists
    <2> QED
      BY Zenon, <1>5, <1>6, <2>3, <2>4 DEF RunInv
  <1>13. CASE ExistingRead
    <2>1. /\ r.pc = "existing" /\ UNCHANGED overlay
          /\ register' = [r EXCEPT !.pc = "set", !.existing = overlay[Head(r.todo)]]
      BY Zenon, <1>8, <1>13 DEF ExistingRead
    <2>2. /\ register'.got = r.got /\ register'.pc = "set" /\ register'.todo = r.todo
          /\ register'.existing = overlay[Head(r.todo)]
      BY Zenon, <2>1 DEF RegisterRecord
    <2>3. Head(r.todo) \in Lists
      BY Zenon, <1>9, <2>1, TailOf
    <2>4. Older'
      BY Zenon, <1>4, <1>10, <2>1, <2>2, <2>3, SteadyOlder
    <2>5. \A l \in Lists : Awaited(l) => Awaited(l)'
      <3>1. \A l : Awaited(l) => Among(l, r.todo)
        BY <1>8, <2>1 DEF Awaited
      <3> QED
        BY Zenon, <2>2, <3>1 DEF Awaited
    <2> QED
      BY Zenon, <1>4, <1>5, <1>6, <1>7, <2>1, <2>4, <2>5, SteadyLists DEF RunInv
  <1>14. CASE MergedSet
    <2>1. PICK l \in Lists : l = Head(r.todo)
      BY Zenon, <1>8, <1>9, <1>14, TailOf DEF MergedSet
    <2>2. PICK k \in Kinds : k = KindOf(l)
      BY Zenon, ListKind
    <2>3. PICK merged : merged = [b \in Registry |-> r.existing[b] \cup GotOf(l)[b]]
      BY Zenon
    <2>4. /\ r.pc = "set"
          /\ overlay' = [overlay EXCEPT ![l] = merged]
          /\ spoilt' = [spoilt EXCEPT ![k] = @ \cup {b \in Registry : ~Settled(merged, b, k)}]
      BY Zenon, <1>8, <1>14, <2>1, <2>2, <2>3 DEF MergedSet
    <2>5. overlay'[l] = merged /\ \A m \in Lists : m # l => overlay'[m] = overlay[m]
      BY Zenon, <2>4 DEF FInv, LInv, OthersOK
    <2>6. UpTo(merged, k)
      <3>1. PICK j \in DOMAIN r.got : r.got[j] \in View /\ GotOf(l) = Items(r.got[j], k)
        BY Zenon, <1>8, <2>2, <2>4, GotType DEF FInv, LInv
      <3>2. \A b \in Registry : \A v \in GotOf(l)[b] : v <= backend[b][k]
        <4>1. UpTo(Items(r.got[j], k), k)
          BY Zenon, <1>10, <3>1, ItemsUpTo
        <4> QED
          BY Zenon, <3>1, <4>1 DEF UpTo
      <3>3. UpTo(r.existing, k)
        BY Zenon, <1>8, <2>1, <2>2, <2>4 DEF FInv, RunInv, Older
      <3>4. \A b \in Registry : merged[b] = r.existing[b] \cup GotOf(l)[b]
        BY Zenon, <2>3
      <3> QED
        BY Zenon, <3>2, <3>3, <3>4 DEF UpTo
    <2>7. register' = [r EXCEPT !.pc = IF Tail(r.todo) = << >> THEN "done" ELSE "existing",
                                !.todo = Tail(r.todo), !.existing = NoItems,
                                !.got = IF Tail(r.todo) = << >> THEN << >> ELSE @]
      BY Zenon, <1>8, <1>14 DEF MergedSet
    <2>8. /\ register'.pc = IF Tail(r.todo) = << >> THEN "done" ELSE "existing"
          /\ register'.todo = Tail(r.todo)
          /\ register'.got = IF Tail(r.todo) = << >> THEN << >> ELSE r.got
      BY Zenon, <2>7 DEF RegisterRecord
    <2>9. Older'
      <3>1. \A m \in Lists : UpTo(overlay'[m], KindOf(m))
        BY Zenon, <1>10, <2>2, <2>5, <2>6
      <3>2. \A j \in DOMAIN register'.got : Behind(register'.got[j])
        <4>1. \A j \in DOMAIN << >> : Behind(<< >>[j])
          OBVIOUS
        <4> QED
          BY Zenon, <1>10, <2>8, <4>1
      <3>3. register'.pc # "set"
        BY <2>8
      <3> QED
        BY Zenon, <1>4, <3>1, <3>2, <3>3, SteadyOlder
    <2>10. RunLists'
      <3> SUFFICES ASSUME NEW m \in Lists, NEW b \in Registry, b \notin spoilt'[KindOf(m)], alive'
                   PROVE  (Settled(overlay[m], b, KindOf(m)) \/ Awaited(m) \/ Due(m))'
        BY Zenon DEF RunLists
      <3>1. Settled(overlay[m], b, KindOf(m)) \/ Awaited(m) \/ Due(m)
        BY Zenon, <1>4, ListKind DEF Steady, FInv, RunInv, RunLists
      <3>2. CASE m # l
        <4>1. Awaited(m) => Awaited(m)'
          <5> SUFFICES ASSUME Awaited(m) PROVE Awaited(m)'
            BY Zenon
          <5>1. Among(m, r.todo)
            BY <1>8, <2>4 DEF Awaited
          <5>2. Among(m, Tail(r.todo)) /\ Tail(r.todo) # << >>
            BY Zenon, <1>9, <2>1, <2>4, <3>2, <5>1, TailOf
          <5> QED
            BY Zenon, <2>8, <5>2 DEF Awaited
        <4>2. Settled(overlay[m], b, KindOf(m)) => Settled(overlay[m], b, KindOf(m))'
          BY Zenon, <1>2, <2>5, <3>2 DEF Settled
        <4> QED
          BY Zenon, <1>7, <3>1, <4>1, <4>2
      <3>3. CASE m = l
        <4>1. b \notin spoilt'[k] /\ spoilt'[k] = spoilt[k] \cup {a \in Registry : ~Settled(merged, a, k)}
          BY Zenon, <2>2, <2>4, <3>3 DEF FInv, LInv, OthersOK
        <4>2. Settled(merged, b, k)
          BY Zenon, <4>1
        <4> QED
          BY Zenon, <1>2, <2>2, <2>5, <3>3, <4>2 DEF Settled
      <3> QED
        BY Zenon, <3>2, <3>3
    <2> QED
      BY Zenon, <1>5, <1>6, <2>9, <2>10 DEF RunInv
  <1> QED
    BY Zenon, <1>11, <1>12, <1>13, <1>14 DEF injectCoreSessionCapabilities

LEMMA NextFInv ==
  ASSUME FInv, [Next]_vars
  PROVE  FInv'
  <1>1. LInv'
    BY Zenon, NextLInv DEF FInv
  <1>2. RunInv'
    BY Zenon, AggregateRun, OtherRun, ChangeRun, TriggerRun, RunBegins, ResyncRun, LoopRun,
       RegistrationRun DEF Next, Worker
  <1> QED
    BY Zenon, <1>1, <1>2 DEF FInv

\* Once the registration has installed the lists, and no notification of a kind
\* is on its way or being worked on, the session's stores of that kind hold
\* exactly what each backend it is connected to offers now, for any number of
\* backends, kinds, lists, goroutines and requests, and whatever the cache held
\* before the session. A backend is excepted only if the last run has missed it:
\* a sweep of the run failed or came back without the backend, another caller
\* cached a view without it or begun before the run, or the registration wrote
\* a list without it or with an older version (runListChangedResync,
\* resyncSessionTools and its siblings, injectCoreSessionCapabilities).
THEOREM QuietSessionsAreCurrent == Spec => []QuietMeansCurrent
  <1>1. Init => FInv
    BY InitFInv
  <1>2. FInv /\ [Next]_vars => FInv'
    BY NextFInv
  <1>3. FInv => QuietMeansCurrent
    BY QuietIsCurrent
  <1> QED
    BY <1>1, <1>2, <1>3, PTL DEF Spec
=============================================================================
