------------------------ MODULE StatusReportingProofs -----------------------
(***************************************************************************)
(* The status reporter, for every set of backends and every number of      *)
(* registry mutations.  The composition implements the monitor alone, so   *)
(* the theorems of HealthMonitorProofs hold in it; RInv adds what relates  *)
(* the reporter's snapshot to the registry.                                *)
(***************************************************************************)
EXTENDS StatusReporting, HealthMonitorProofs, FiniteSetTheorems

\* Past the snapshot, what the reporter carries is as new as its snapshot.
SnapshotIsCarried ==
    /\ reporter.lastRegistryVersion <= version
    /\ reporter.pc # "off" => started \/ stopped
    /\ reporter.lastRegistryVersion = version =>
          /\ reporter.pc = "updating" => reporter.currentBackends = registry
          /\ reporter.pc \in {"building", "select"} /\ started => backends = registry

RInv == ReportingTypeOK /\ SnapshotIsCarried /\ DiscoveredAreConfigured
-----------------------------------------------------------------------------
\* The reporter only calls the monitor through its operations.
LEMMA ReportingStepIsMonitorStep ==
    ASSUME ReportingNext, reporter \in Reporter
    PROVE  [Next]_vars
<1>1. CASE MonitorNext
  BY <1>1 DEF MonitorNext, Next
<1>2. CASE RegistryNext
  BY <1>2 DEF RegistryNext, Remove, Upsert
<1>3. CASE PushBackends
  <2>1. reporter.currentBackends \in [Backends -> Urls \union {Absent}]
    BY DEF Reporter, Lists
  <2> QED
    BY <1>3, <2>1 DEF PushBackends, Next
<1>4. CASE \/ StartReporting \/ InitialChecksDone \/ ReportTick \/ VersionTick
           \/ CancelReporting \/ ReportingDone \/ ListBackends \/ ReportStatus
  BY <1>4 DEF StartReporting, InitialChecksDone, ReportTick, VersionTick,
              CancelReporting, ReportingDone, ListBackends, ReportStatus
<1> QED
  BY <1>1, <1>2, <1>3, <1>4 DEF ReportingNext, ReporterNext

\* Steps of the monitor do not touch m.backends, nor start it again.
LEMMA MonitorKeepsList ==
    ASSUME MonitorNext, TypeOK, Lifecycle
    PROVE  /\ UNCHANGED <<backends, registry, version, reporter, reported>>
           /\ (started \/ stopped) => started' \/ stopped'
           /\ (started \/ stopped) /\ started' => started
<1>1. UNCHANGED <<registry, version, reporter, reported>>
  BY DEF MonitorNext, reportingVars
<1>2. CASE Start
  BY <1>1, <1>2 DEF Start
<1>3. CASE Stop
  BY <1>1, <1>3 DEF Stop
<1>4. CASE StopReturns
  BY <1>1, <1>4 DEF StopReturns
<1>5. CASE GoroutineNext
  <2>1. UNCHANGED <<started, stopped, backends>>
    BY <1>5 DEF GoroutineNext, Goroutine, Becomes, ShouldAttemptHealthCheck,
       CheckSucceeds, CheckFails, RefreshRevision, TickerFires, ContextDone
  <2> QED
    BY <1>1, <2>1
<1>6. CASE \E b \in Backends : TimeoutElapses(b)
  BY <1>1, <1>6 DEF TimeoutElapses, monitorVars
<1> QED
  BY <1>2, <1>3, <1>4, <1>5, <1>6 DEF MonitorNext

LEMMA RInvStep ==
    ASSUME HInv, RInv, [ReportingNext]_allVars
    PROVE  RInv'
<1>0. /\ registry \in Lists
      /\ version \in 0..MaxVersion
      /\ reporter \in Reporter
      /\ reported \in Status
      /\ reporter.lastRegistryVersion \in 0..MaxVersion
      /\ reporter.currentBackends \in Lists
      /\ SnapshotIsCarried
      /\ DiscoveredAreConfigured
  BY DEF RInv, ReportingTypeOK, Reporter
<1>1. CASE MonitorNext
  <2>1. /\ UNCHANGED <<backends, registry, version, reporter, reported>>
        /\ (started \/ stopped) => started' \/ stopped'
        /\ (started \/ stopped) /\ started' => started
    BY <1>1, MonitorKeepsList DEF HInv
  <2>2. ReportingTypeOK' /\ DiscoveredAreConfigured'
    BY <1>0, <2>1 DEF ReportingTypeOK, DiscoveredAreConfigured
  <2>3. SnapshotIsCarried'
    BY <1>0, <2>1 DEF SnapshotIsCarried
  <2> QED
    BY <2>2, <2>3 DEF RInv
<1>2. CASE RegistryNext
  <2>1. /\ UNCHANGED <<reporter, reported>>
        /\ UNCHANGED <<started, stopped, backends>>
        /\ version < MaxVersion /\ version' = version + 1
        /\ registry' \in Lists
    BY <1>0, <1>2 DEF RegistryNext, Remove, Upsert, Lists, vars, monitorVars
  <2>2. version' \in 0..MaxVersion
    BY <1>0, <2>1, ReportingAssumption
  <2>3. ReportingTypeOK' /\ DiscoveredAreConfigured'
    BY <1>0, <2>1, <2>2 DEF ReportingTypeOK, DiscoveredAreConfigured
  <2>4. reporter.lastRegistryVersion < version'
    BY <1>0, <2>1, ReportingAssumption DEF SnapshotIsCarried
  <2>5. SnapshotIsCarried'
    BY <1>0, <2>1, <2>2, <2>4, ReportingAssumption DEF SnapshotIsCarried
  <2> QED
    BY <2>3, <2>5 DEF RInv
<1>3. CASE StartReporting
  <2>1. /\ started /\ UNCHANGED <<registry, version, reported, started, stopped, backends>>
        /\ reporter' = [reporter EXCEPT !.pc = "waiting"]
    BY <1>3 DEF StartReporting, ReporterGoes, vars, monitorVars
  <2>2. /\ reporter' \in Reporter /\ reporter'.pc = "waiting"
        /\ reporter'.lastRegistryVersion = reporter.lastRegistryVersion
    BY <1>0, <2>1 DEF Reporter
  <2> QED
    BY <1>0, <2>1, <2>2
       DEF RInv, ReportingTypeOK, SnapshotIsCarried, DiscoveredAreConfigured
<1>4. CASE InitialChecksDone \/ ReportTick \/ VersionTick
  <2>1. /\ UNCHANGED <<registry, version, reported, started, stopped, backends>>
        /\ reporter' = [reporter EXCEPT !.pc = "listing", !.lastRegistryVersion = version]
        /\ reporter.pc # "off"
    BY <1>4 DEF InitialChecksDone, ReportTick, VersionTick, ReporterGoes, Snapshot,
                vars, monitorVars
  <2>2. /\ reporter' \in Reporter /\ reporter'.pc = "listing"
        /\ reporter'.lastRegistryVersion = version
    BY Zenon, <1>0, <2>1 DEF Reporter
  <2>3. version <= version
    BY <1>0, ReportingAssumption
  <2> QED
    BY <1>0, <2>1, <2>2, <2>3
       DEF RInv, ReportingTypeOK, SnapshotIsCarried, DiscoveredAreConfigured
<1>5. CASE CancelReporting
  <2>1. /\ UNCHANGED <<registry, version, reported, started, stopped, backends>>
        /\ reporter' = [reporter EXCEPT !.cancelled = TRUE]
    BY <1>5 DEF CancelReporting, ReporterGoes, vars, monitorVars
  <2>2. /\ reporter' \in Reporter /\ reporter'.pc = reporter.pc
        /\ reporter'.lastRegistryVersion = reporter.lastRegistryVersion
        /\ reporter'.currentBackends = reporter.currentBackends
    BY Zenon, <1>0, <2>1 DEF Reporter
  <2> QED
    BY <1>0, <2>1, <2>2
       DEF RInv, ReportingTypeOK, SnapshotIsCarried, DiscoveredAreConfigured
<1>6. CASE ReportingDone
  <2>1. /\ UNCHANGED <<registry, version, reported, started, stopped, backends>>
        /\ reporter.pc = "select"
        /\ reporter' = [reporter EXCEPT !.pc = "done"]
    BY <1>6 DEF ReportingDone, ReporterGoes, vars, monitorVars
  <2>2. /\ reporter' \in Reporter /\ reporter'.pc = "done"
        /\ reporter'.lastRegistryVersion = reporter.lastRegistryVersion
    BY <1>0, <2>1 DEF Reporter
  <2> QED
    BY <1>0, <2>1, <2>2
       DEF RInv, ReportingTypeOK, SnapshotIsCarried, DiscoveredAreConfigured
<1>7. CASE ListBackends
  <2>1. /\ UNCHANGED <<registry, version, reported, started, stopped, backends>>
        /\ reporter.pc = "listing"
        /\ reporter' = [reporter EXCEPT !.pc = "updating", !.currentBackends = registry]
    BY <1>7 DEF ListBackends, ReporterGoes, vars, monitorVars
  <2>2. /\ reporter' \in Reporter /\ reporter'.pc = "updating"
        /\ reporter'.lastRegistryVersion = reporter.lastRegistryVersion
        /\ reporter'.currentBackends = registry
    BY Zenon, <1>0, <2>1 DEF Reporter
  <2> QED
    BY <1>0, <2>1, <2>2
       DEF RInv, ReportingTypeOK, SnapshotIsCarried, DiscoveredAreConfigured
<1>8. CASE PushBackends
  <2>1. /\ UNCHANGED <<registry, version, reported>>
        /\ reporter.pc = "updating"
        /\ reporter' = [reporter EXCEPT !.pc = "building"]
        /\ UNCHANGED <<started, stopped>>
        /\ started /\ ~stopped => backends' = reporter.currentBackends
    BY Zenon, <1>8 DEF PushBackends, ReporterGoes, UpdateBackends, ReplaceBackends, vars, monitorVars
  <2>2. /\ reporter' \in Reporter /\ reporter'.pc = "building"
        /\ reporter'.lastRegistryVersion = reporter.lastRegistryVersion
    BY <1>0, <2>1 DEF Reporter
  <2>3. started => ~stopped
    BY DEF HInv, Lifecycle
  <2> QED
    BY <1>0, <2>1, <2>2, <2>3
       DEF RInv, ReportingTypeOK, SnapshotIsCarried, DiscoveredAreConfigured
<1>9. CASE ReportStatus
  <2>1. /\ UNCHANGED <<registry, version, started, stopped, backends>>
        /\ reporter.pc = "building"
        /\ reporter' = [reporter EXCEPT !.pc = "select"]
        /\ reported' \in {BuildStatus, reported}
    BY <1>9 DEF ReportStatus, ReporterGoes, vars, monitorVars
  <2>2. /\ reporter' \in Reporter /\ reporter'.pc = "select"
        /\ reporter'.lastRegistryVersion = reporter.lastRegistryVersion
    BY <1>0, <2>1 DEF Reporter
  <2>3. SnapshotIsCarried'
    BY <1>0, <2>1, <2>2 DEF SnapshotIsCarried
  <2>4. tracked \subseteq Listed(backends)
    BY DEF HInv, TypeOK, TrackerTypeOK, NoGhostBackend, Listed
  <2>5. BuildStatus \in Status /\ BuildStatus.discovered \subseteq BuildStatus.configured
    <3>1. determinePhase \in Phase
      BY DEF determinePhase, Phase
    <3>2. WithStatus({"healthy", "unauthenticated"}) \subseteq tracked
      BY DEF WithStatus
    <3>3. Listed(backends) \subseteq Backends
      BY DEF Listed
    <3> QED
      BY <2>4, <3>1, <3>2, <3>3 DEF BuildStatus, Status
  <2>6. reported' \in Status /\ DiscoveredAreConfigured'
    BY <1>0, <2>1, <2>5 DEF DiscoveredAreConfigured
  <2> QED
    BY <1>0, <2>1, <2>2, <2>3, <2>6 DEF RInv, ReportingTypeOK
<1>10. CASE UNCHANGED allVars
  <2>1. UNCHANGED <<registry, version, reporter, reported, started, stopped, backends>>
    BY <1>10 DEF allVars, vars, monitorVars, reportingVars
  <2> QED
    BY <1>0, <2>1
       DEF RInv, ReportingTypeOK, SnapshotIsCarried, DiscoveredAreConfigured
<1> QED
  BY <1>1, <1>2, <1>3, <1>4, <1>5, <1>6, <1>7, <1>8, <1>9, <1>10
     DEF ReportingNext, ReporterNext
-----------------------------------------------------------------------------
(* The first report.  Until the registry changes, the reporter lists what    *)
(* the monitor already has, UpdateBackends changes nothing, and a listed     *)
(* backend without data is one whose goroutine still owes its first check.   *)

\* A goroutine in its select, and a slot without one, owe no initial check.
NoDebtInSelect ==
    \A b \in Backends, s \in Slots :
        checks[b][s].pc \in {"idle", "select"} => checks[b][s].initial = FALSE

FirstRound ==
    version = 0 =>
        /\ registry = backends
        /\ reporter.currentBackends = backends
        /\ removedBackends = {}
        /\ \A b \in Backends, s \in Slots : checks[b][s].pc = "recorded" => b \in tracked
        /\ started \/ stopped =>
              \A b \in Listed(backends) :
                  b \in tracked \/ \E s \in Slots : checks[b][s].initial = TRUE
        /\ reporter.pc \notin {"off", "waiting"} => Listed(backends) \subseteq tracked

FInv == NoDebtInSelect /\ FirstRound

\* UpdateBackends with the list the monitor has is no change at all.
LEMMA SameListChangesNothing ==
    ASSUME HInv, UpdateBackends(backends)
    PROVE  UNCHANGED <<backends, checks, activeChecks, started, stopped, tracked,
                       states, removedBackends>>
<1>1. started /\ ReplaceBackends(backends)
  BY DEF UpdateBackends
<1>2. NewOrChanged(backends) = {} /\ Gone(backends) = {}
  BY <1>1 DEF HInv, ActiveIsListed, NewOrChanged, Gone
<1>3. /\ checks = [b \in Backends |-> checks[b]]
      /\ activeChecks = [b \in Backends |-> activeChecks[b]]
      /\ states = [b \in Backends |-> states[b]]
  BY DEF HInv, TypeOK, TrackerTypeOK
<1>4. /\ backends' = backends
      /\ UNCHANGED <<started, stopped>>
      /\ checks' = [b \in Backends |-> checks[b]]
      /\ activeChecks' = [b \in Backends |-> activeChecks[b]]
      /\ tracked' = tracked
      /\ states' = [b \in Backends |-> states[b]]
      /\ removedBackends' = removedBackends
  BY <1>1, <1>2 DEF ReplaceBackends, RemoveAndClear
<1> QED
  BY <1>3, <1>4

\* A step of one goroutine.
LEMMA GoroutineKeepsFirstRound ==
    ASSUME HInv, RInv, FInv, NEW b \in Backends, NEW s \in Slots, Goroutine(b, s),
           UNCHANGED reportingVars
    PROVE  FInv'
<1> DEFINE old == checks[b][s]
           new == checks'[b][s]
<1>1. /\ checks \in [Backends -> [Slots -> Check]]
      /\ old \in Check
      /\ UNCHANGED <<started, stopped, backends, registry, version, reporter>>
  BY DEF HInv, TypeOK, Goroutine, Becomes, ShouldAttemptHealthCheck, CheckSucceeds,
         CheckFails, RefreshRevision, TickerFires, ContextDone, reportingVars
<1>2. \A c \in Backends, t \in Slots : c # b \/ t # s => checks'[c][t] = checks[c][t]
  BY <1>1 DEF Goroutine, Becomes, ShouldAttemptHealthCheck, CheckSucceeds,
         CheckFails, RefreshRevision, TickerFires, ContextDone
<1>3. /\ new.pc \in {"idle", "select"} => new.initial = FALSE
      /\ new.initial = old.initial \/ new.pc \in {"idle", "select"}
      /\ version = 0 =>
            /\ tracked \subseteq tracked' /\ removedBackends' = {}
            /\ new.pc = "recorded" => b \in tracked'
            /\ old.initial = TRUE /\ new.initial # TRUE => b \in tracked'
  <2>1. CASE ShouldAttemptHealthCheck(b, s)
    <3>1. CASE CanAttemptHealthCheck(b)
      <4>1. new = [old EXCEPT !.pc = "checking"] /\ UNCHANGED <<tracked, removedBackends>>
        BY <1>1, <2>1, <3>1 DEF ShouldAttemptHealthCheck, Becomes, AfterShouldAttempt
      <4> QED
        BY Zenon, <1>1, <4>1 DEF Check, FInv, FirstRound
    <3>2. CASE ~CanAttemptHealthCheck(b)
      <4>1. new = AfterCheck(old) /\ UNCHANGED <<tracked, removedBackends>>
        BY <1>1, <2>1, <3>2 DEF ShouldAttemptHealthCheck, Becomes, trackerVars
      <4>2. b \in tracked
        BY <3>2 DEF CanAttemptHealthCheck
      <4> QED
        BY <1>1, <4>1, <4>2 DEF Check, AfterCheck, FInv, FirstRound
    <3> QED
      BY Zenon, <3>1, <3>2
  <2>2. CASE CheckSucceeds(b, s) \/ CheckFails(b, s)
    <3>1. /\ new = [old EXCEPT !.pc = "recorded"]
          /\ \E st : Store(b, st)
      BY <1>1, <2>2 DEF CheckSucceeds, CheckFails, Becomes, RecordSuccess, RecordFailure
    <3>2. version = 0 => tracked' = tracked \union {b} /\ removedBackends' = {}
      BY <3>1 DEF FInv, FirstRound, Store
    <3> QED
      BY Zenon, <1>1, <3>1, <3>2 DEF Check
  <2>3. CASE RefreshRevision(b, s)
    <3>1. /\ new = AfterCheck(old) /\ old.pc = "recorded"
          /\ UNCHANGED <<tracked, removedBackends>>
      BY <1>1, <2>3 DEF RefreshRevision, Becomes, RecordRevision, trackerVars
    <3> QED
      BY <1>1, <3>1 DEF Check, AfterCheck, FInv, FirstRound
  <2>4. CASE TickerFires(b, s)
    <3>1. new = [old EXCEPT !.pc = "ready"] /\ UNCHANGED <<tracked, removedBackends>>
      BY Zenon, <1>1, <2>4 DEF TickerFires, Becomes, trackerVars
    <3> QED
      BY Zenon, <1>1, <3>1 DEF Check, FInv, FirstRound
  <2>5. CASE ContextDone(b, s)
    <3>1. /\ new = idleCheck /\ old.pc = "select"
          /\ UNCHANGED <<tracked, removedBackends>>
      BY <1>1, <2>5 DEF ContextDone, Becomes, trackerVars
    <3>2. old.initial = FALSE
      BY <3>1 DEF FInv, NoDebtInSelect
    <3> QED
      BY <3>1, <3>2 DEF idleCheck, FInv, FirstRound
  <2> QED
    BY Zenon, <2>1, <2>2, <2>3, <2>4, <2>5 DEF Goroutine
<1>4. NoDebtInSelect'
  BY <1>2, <1>3 DEF FInv, NoDebtInSelect
<1>5. FirstRound'
  <2> SUFFICES ASSUME version = 0
               PROVE  FirstRound'
    BY Zenon, <1>1 DEF FirstRound
  <2>1. \A c \in Backends, t \in Slots : checks'[c][t].pc = "recorded" => c \in tracked'
    BY <1>2, <1>3 DEF FInv, FirstRound
  <2>2. ASSUME started \/ stopped, NEW c \in Listed(backends)
        PROVE  c \in tracked' \/ \E t \in Slots : checks'[c][t].initial = TRUE
    <3>1. c \in Backends
      BY DEF Listed
    <3>2. c \in tracked \/ \E t \in Slots : checks[c][t].initial = TRUE
      BY <2>2 DEF FInv, FirstRound
    <3> QED
      BY Zenon, <1>2, <1>3, <3>1, <3>2
  <2>3. reporter.pc \notin {"off", "waiting"} => Listed(backends) \subseteq tracked'
    BY <1>3 DEF FInv, FirstRound
  <2>4. Listed(backends)' = Listed(backends)
    BY <1>1 DEF Listed
  <2>5. registry = backends /\ reporter.currentBackends = backends
    BY DEF FInv, FirstRound
  <2> QED
    BY Zenon, <1>1, <1>3, <2>1, <2>2, <2>3, <2>4, <2>5 DEF FirstRound
<1> QED
  BY Zenon, <1>4, <1>5 DEF FInv

\* UpdateBackends starts goroutines that owe no initial check.
LEMMA UpdateKeepsNoDebt ==
    ASSUME HInv, NoDebtInSelect, NEW newBackends \in Lists, UpdateBackends(newBackends)
    PROVE  NoDebtInSelect'
<1> DEFINE fresh == NewOrChanged(newBackends)
<1>1. PICK slot \in [fresh -> Slots] :
         checks' = [b \in Backends |->
               IF b \in fresh
               THEN [StopActive(b) EXCEPT ![slot[b]] = newCheck(newBackends[b], FALSE)]
               ELSE IF b \in Gone(newBackends) THEN StopActive(b) ELSE checks[b]]
  BY Zenon DEF UpdateBackends, ReplaceBackends
<1>2. checks \in [Backends -> [Slots -> Check]]
  BY DEF HInv, TypeOK
<1>3. \A check \in Check : /\ stop(check) \in Check
                           /\ stop(check).pc = check.pc
                           /\ stop(check).initial = check.initial
  BY Zenon DEF stop, Check
<1>4. ASSUME NEW b \in Backends, NEW s \in Slots,
             checks'[b][s].pc \in {"idle", "select"}
      PROVE  checks'[b][s].initial = FALSE
  <2>1. checks[b] \in [Slots -> Check] /\ checks[b][s] \in Check
    BY <1>2
  <2>2. /\ StopActive(b) \in [Slots -> Check]
        /\ StopActive(b)[s].pc = checks[b][s].pc
        /\ StopActive(b)[s].initial = checks[b][s].initial
    BY Zenon, <1>3, <2>1 DEF StopActive
  <2>3. CASE b \in fresh /\ s = slot[b]
    <3>1. checks'[b][s] = newCheck(newBackends[b], FALSE)
      BY <1>1, <2>2, <2>3
    <3> QED
      BY <3>1 DEF newCheck
  <2>4. CASE ~(b \in fresh /\ s = slot[b])
    <3>1. checks'[b][s] = StopActive(b)[s] \/ checks'[b][s] = checks[b][s]
      BY Zenon, <1>1, <2>2, <2>4
    <3> QED
      BY <1>4, <2>2, <3>1 DEF NoDebtInSelect
  <2> QED
    BY Zenon, <2>3, <2>4
<1> QED
  BY Zenon, <1>4 DEF NoDebtInSelect

LEMMA MonitorKeepsFirstRound ==
    ASSUME HInv, RInv, FInv, MonitorNext
    PROVE  FInv'
<1>1. /\ UNCHANGED reportingVars
      /\ UNCHANGED <<registry, version, reporter, backends>>
      /\ checks \in [Backends -> [Slots -> Check]]
      /\ backends \in [Backends -> Urls \union {Absent}]
      /\ Listed(backends)' = Listed(backends)
  BY MonitorKeepsList DEF HInv, TypeOK, MonitorNext, Listed
<1>2. CASE Start
  <2>1. PICK slot \in [Backends -> Slots] :
            checks' = [b \in Backends |->
                 IF backends[b] = Absent THEN checks[b]
                 ELSE [checks[b] EXCEPT ![slot[b]] = newCheck(backends[b], TRUE)]]
    BY Zenon, <1>2 DEF Start
  <2>2. /\ ~started /\ ~stopped /\ UNCHANGED <<tracked, removedBackends>>
        /\ \A b \in Backends, s \in Slots : checks[b][s].pc = "idle"
        /\ reporter.pc = "off"
    <3>1. ~started /\ ~stopped /\ UNCHANGED <<tracked, removedBackends>>
      BY <1>2 DEF Start, trackerVars
    <3>2. \A b \in Backends, s \in Slots : checks[b][s].pc = "idle"
      BY <3>1 DEF HInv, Lifecycle, Running
    <3>3. reporter.pc = "off"
      BY <3>1 DEF RInv, SnapshotIsCarried
    <3> QED
      BY <3>1, <3>2, <3>3
  <2>3. \A b \in Backends, s \in Slots :
           \/ checks'[b][s] = newCheck(backends[b], TRUE)
           \/ checks'[b][s] = checks[b][s]
    <3>1. ASSUME NEW b \in Backends, NEW s \in Slots, backends[b] # Absent, s = slot[b]
          PROVE  checks'[b][s] = newCheck(backends[b], TRUE)
      BY Zenon, <1>1, <2>1, <3>1
    <3>2. ASSUME NEW b \in Backends, NEW s \in Slots, ~(backends[b] # Absent /\ s = slot[b])
          PROVE  checks'[b][s] = checks[b][s]
      BY Zenon, <1>1, <2>1, <3>2
    <3> QED
      BY Zenon, <3>1, <3>2
  <2>4. \A b \in Listed(backends) :
           b \in Backends /\ checks'[b][slot[b]] = newCheck(backends[b], TRUE)
    BY Zenon, <1>1, <2>1 DEF Listed
  <2>5. \A b \in Backends : /\ newCheck(backends[b], TRUE).pc = "ready"
                           /\ newCheck(backends[b], TRUE).initial = TRUE
    BY DEF newCheck
  <2>5a. ASSUME NEW b \in Backends, NEW s \in Slots
         PROVE  /\ checks'[b][s].pc \in {"idle", "select"} => checks'[b][s].initial = FALSE
                /\ checks'[b][s].pc # "recorded"
    <3>1. CASE checks'[b][s] = newCheck(backends[b], TRUE)
      BY Zenon, <2>5, <3>1
    <3>2. CASE checks'[b][s] = checks[b][s]
      BY <2>2, <3>2 DEF FInv, NoDebtInSelect
    <3> QED
      BY Zenon, <2>3, <3>1, <3>2
  <2>6. NoDebtInSelect'
    BY Zenon, <2>5a DEF NoDebtInSelect
  <2>7. \A b \in Backends, s \in Slots : checks'[b][s].pc # "recorded"
    BY Zenon, <2>5a
  <2>8. \A b \in Listed(backends) : \E s \in Slots : checks'[b][s].initial = TRUE
    BY Zenon, <2>4, <2>5 DEF Listed
  <2>9. FirstRound'
    BY <1>1, <2>2, <2>7, <2>8 DEF FInv, FirstRound
  <2> QED
    BY <2>6, <2>9 DEF FInv
<1>3. CASE Stop
  <2>1. /\ checks' = [b \in Backends |-> [s \in Slots |-> stop(checks[b][s])]]
        /\ started /\ UNCHANGED <<tracked, removedBackends>>
    BY <1>3 DEF Stop, trackerVars
  <2>2. \A check \in Check : /\ stop(check).pc = check.pc
                             /\ stop(check).initial = check.initial
    BY DEF stop, Check
  <2>3. \A b \in Backends, s \in Slots : /\ checks'[b][s].pc = checks[b][s].pc
                                         /\ checks'[b][s].initial = checks[b][s].initial
    BY <1>1, <2>1, <2>2
  <2>4. NoDebtInSelect'
    BY <2>3 DEF FInv, NoDebtInSelect
  <2>5. version = 0 => \A b \in Listed(backends) :
            b \in tracked \/ \E s \in Slots : checks'[b][s].initial = TRUE
    BY <2>1, <2>3 DEF FInv, FirstRound, Listed
  <2>6. FirstRound'
    BY Zenon, <1>1, <2>1, <2>3, <2>5 DEF FInv, FirstRound
  <2> QED
    BY <2>4, <2>6 DEF FInv
<1>4. CASE StopReturns \/ \E b \in Backends : TimeoutElapses(b)
  <2>1. UNCHANGED <<checks, tracked, removedBackends, started, stopped>>
    BY <1>4 DEF StopReturns, TimeoutElapses, BreakerTimeoutElapses, trackerVars, monitorVars
  <2> QED
    BY <1>1, <2>1 DEF FInv, NoDebtInSelect, FirstRound
<1>5. CASE GoroutineNext
  BY <1>1, <1>5, GoroutineKeepsFirstRound DEF GoroutineNext
<1> QED
  BY Zenon, <1>2, <1>3, <1>4, <1>5 DEF MonitorNext

LEMMA FInvStep ==
    ASSUME HInv, RInv, FInv, [ReportingNext]_allVars
    PROVE  FInv'
<1>0. reporter \in Reporter /\ reporter.currentBackends \in Lists
      /\ version \in 0..MaxVersion
  BY DEF RInv, ReportingTypeOK, Reporter
<1>1. CASE MonitorNext
  BY Zenon, <1>1, MonitorKeepsFirstRound
<1>2. CASE RegistryNext
  <2>1. checks' = checks /\ version' = version + 1
    BY <1>2 DEF RegistryNext, Remove, Upsert, vars, monitorVars
  <2>2. version' # 0
    BY <1>0, <2>1
  <2> QED
    BY <2>1, <2>2 DEF FInv, FirstRound, NoDebtInSelect
<1>3. CASE PushBackends
  <2>1. /\ UNCHANGED <<registry, version>>
        /\ reporter.pc = "updating"
        /\ reporter' = [reporter EXCEPT !.pc = "building"]
    BY <1>3 DEF PushBackends, ReporterGoes
  <2>2. reporter'.currentBackends = reporter.currentBackends
    BY <1>0, <2>1 DEF Reporter
  <2>3. NoDebtInSelect'
    <3>1. CASE UpdateBackends(reporter.currentBackends)
      BY <1>0, <3>1, UpdateKeepsNoDebt DEF FInv
    <3>2. CASE UNCHANGED vars
      BY <3>2 DEF FInv, NoDebtInSelect, vars, monitorVars
    <3> QED
      BY <1>3, <3>1, <3>2 DEF PushBackends
  <2>4. FirstRound'
    <3> SUFFICES ASSUME version = 0
                 PROVE  FirstRound'
      BY <2>1 DEF FirstRound
    <3>1. reporter.currentBackends = backends
      BY DEF FInv, FirstRound
    <3>2. UNCHANGED <<backends, checks, started, stopped, tracked, removedBackends>>
      BY <1>3, <3>1, SameListChangesNothing
         DEF PushBackends, vars, trackerVars, monitorVars
    <3>3. Listed(backends) \subseteq tracked
      BY Zenon, <2>1 DEF FInv, FirstRound
    <3> QED
      BY <2>1, <2>2, <3>2, <3>3 DEF FInv, FirstRound, Listed
  <2> QED
    BY <2>3, <2>4 DEF FInv
<1>4. CASE \/ StartReporting \/ InitialChecksDone \/ ReportTick \/ VersionTick
           \/ CancelReporting \/ ReportingDone \/ ListBackends \/ ReportStatus
  <2>1. /\ UNCHANGED <<registry, version>>
        /\ UNCHANGED <<backends, checks, started, stopped, tracked, removedBackends>>
    BY <1>4 DEF StartReporting, InitialChecksDone, ReportTick, VersionTick,
         CancelReporting, ReportingDone, ListBackends, ReportStatus, ReporterGoes,
         vars, trackerVars, monitorVars
  <2>2. \/ reporter'.currentBackends = reporter.currentBackends
        \/ reporter'.currentBackends = registry
    BY Zenon, <1>0, <1>4 DEF StartReporting, InitialChecksDone, ReportTick, VersionTick,
         CancelReporting, ReportingDone, ListBackends, ReportStatus, ReporterGoes,
         Snapshot, Reporter
  <2>3. ASSUME version = 0, reporter'.pc \notin {"off", "waiting"}
        PROVE  Listed(backends) \subseteq tracked
    <3>1. CASE InitialChecksDone
      <4>1. \A b \in Backends, s \in Slots : ~checks[b][s].initial
        BY <3>1 DEF InitialChecksDone
      <4>2. started \/ stopped
        BY <3>1 DEF InitialChecksDone, ReporterGoes, RInv, SnapshotIsCarried
      <4> QED
        BY <2>3, <4>1, <4>2 DEF FInv, FirstRound, Listed
    <3>2. CASE ~InitialChecksDone
      <4>1. reporter.pc \notin {"off", "waiting"}
        BY Zenon, <1>0, <1>4, <2>3, <3>2
           DEF StartReporting, ReportTick, VersionTick, CancelReporting,
               ReportingDone, ListBackends, ReportStatus, ReporterGoes, Snapshot, Reporter
      <4> QED
        BY <2>3, <4>1 DEF FInv, FirstRound
    <3> QED
      BY <3>1, <3>2
  <2>4. NoDebtInSelect'
    BY Zenon, <2>1 DEF FInv, NoDebtInSelect
  <2>5. FirstRound'
    BY Zenon, <2>1, <2>2, <2>3 DEF FInv, FirstRound, Listed
  <2> QED
    BY <2>4, <2>5 DEF FInv
<1>5. CASE UNCHANGED allVars
  BY <1>5 DEF allVars, vars, trackerVars, monitorVars, reportingVars, FInv,
              FirstRound, NoDebtInSelect, Listed
<1> QED
  BY <1>1, <1>2, <1>3, <1>4, <1>5 DEF ReportingNext, ReporterNext
-----------------------------------------------------------------------------
(* The theorems. *)

LEMMA ReportingInitEstablishes ==
    ASSUME ReportingInit
    PROVE  HInv /\ RInv /\ FInv
<1>1. /\ Init /\ registry = backends /\ version = 0
      /\ reporter = [pc |-> "off", lastRegistryVersion |-> 0,
                     currentBackends |-> backends, cancelled |-> FALSE]
      /\ reported = [phase |-> "none", discovered |-> {}, configured |-> {}, routable |-> {}]
  BY DEF ReportingInit
<1>2. HInv
  BY Zenon, <1>1, InitEstablishes
<1>3. backends \in Lists /\ 0 \in 0..MaxVersion
  BY <1>1, ReportingAssumption DEF Init, Lists
<1>4. ReportingTypeOK /\ SnapshotIsCarried /\ DiscoveredAreConfigured
  BY <1>1, <1>3 DEF ReportingTypeOK, Reporter, Status, SnapshotIsCarried,
                    DiscoveredAreConfigured
<1>5. /\ \A b \in Backends, s \in Slots : checks[b][s] = idleCheck
      /\ removedBackends = {} /\ started = FALSE /\ stopped = FALSE
  BY Zenon, <1>1 DEF Init, TrackerInit
<1>6. FInv
  BY <1>1, <1>5 DEF FInv, FirstRound, NoDebtInSelect, idleCheck
<1> QED
  BY Zenon, <1>2, <1>4, <1>6 DEF RInv

\* The invariants of the monitor and of the reporter hold in the composition.
THEOREM ReportingInvariance == ReportingSpec => [](HInv /\ RInv /\ FInv)
<1>1. ReportingInit => HInv /\ RInv /\ FInv
  BY ReportingInitEstablishes
<1>2. HInv /\ RInv /\ FInv /\ [ReportingNext]_allVars => (HInv /\ RInv /\ FInv)'
  <2> SUFFICES ASSUME HInv, RInv, FInv, [ReportingNext]_allVars
               PROVE  (HInv /\ RInv /\ FInv)'
    OBVIOUS
  <2>1. [Next]_vars
    <3>1. CASE ReportingNext
      BY <3>1, ReportingStepIsMonitorStep DEF RInv, ReportingTypeOK
    <3>2. CASE UNCHANGED allVars
      BY <3>2 DEF allVars
    <3> QED
      BY <3>1, <3>2
  <2>2. HInv'
    BY <2>1, StepPreserves
  <2>3. RInv'
    BY RInvStep
  <2>4. FInv'
    BY FInvStep
  <2> QED
    BY <2>2, <2>3, <2>4
<1> QED
  BY <1>1, <1>2, PTL DEF ReportingSpec

\* The reporter and the registry together drive the monitor only in ways the
\* monitor's own specification allows: what is proved of it holds here too.
THEOREM ReportingImplementsMonitor == ReportingSpec => Spec
<1>1. ReportingInit => Init
  BY DEF ReportingInit
<1>2. RInv /\ [ReportingNext]_allVars => [Next]_vars
  <2> SUFFICES ASSUME RInv, [ReportingNext]_allVars
               PROVE  [Next]_vars
    OBVIOUS
  <2>1. CASE ReportingNext
    BY <2>1, ReportingStepIsMonitorStep DEF RInv, ReportingTypeOK
  <2>2. CASE UNCHANGED allVars
    BY <2>2 DEF allVars
  <2> QED
    BY <2>1, <2>2
<1> QED
  BY <1>1, <1>2, ReportingInvariance, PTL DEF ReportingSpec, Spec

\* A version the reporter has seen is applied before the reporter sleeps.
THEOREM NoMutationIsAbsorbed == ReportingSpec => []SeenVersionIsApplied
<1>1. RInv => SeenVersionIsApplied
  BY DEF RInv, SnapshotIsCarried, SeenVersionIsApplied
<1> QED
  BY <1>1, ReportingInvariance, PTL

\* The first report finds health data for every backend.
THEOREM FirstReportIsInformed == ReportingSpec => []FirstReportHasData
<1>1. FInv => FirstReportHasData
  BY DEF FInv, FirstRound, FirstReportHasData
<1> QED
  BY <1>1, ReportingInvariance, PTL

\* No report contains a backend the monitor does not list.
THEOREM ReportsAreListed == ReportingSpec => []DiscoveredAreConfigured
<1>1. RInv => DiscoveredAreConfigured
  BY DEF RInv
<1> QED
  BY <1>1, ReportingInvariance, PTL
\* The registry, the reporter and the report keep their types.
THEOREM ReportingTypes == ReportingSpec => []ReportingTypeOK
<1>1. RInv => ReportingTypeOK
  BY DEF RInv
<1> QED
  BY <1>1, ReportingInvariance, PTL
-----------------------------------------------------------------------------
\* As many routable backends as tracked ones are all of them.
LEMMA AllRoutable ==
    ASSUME HInv, Routable = Cardinality(tracked)
    PROVE  WithStatus({"healthy", "unauthenticated"}) = tracked
<1>1. tracked \subseteq Backends
  BY DEF HInv, TypeOK, TrackerTypeOK
<1>2. IsFiniteSet(tracked)
  BY <1>1, BackendsAssumption, FS_Subset
<1>3. WithStatus({"healthy", "unauthenticated"}) \in SUBSET tracked
  BY DEF WithStatus
<1> QED
  BY <1>2, <1>3, FS_Subset DEF Routable

\* What a report that says Ready has counted.
LEMMA ReadyCounts ==
    ASSUME determinePhase = "Ready"
    PROVE  (tracked = {} /\ Listed(backends) = {}) \/ Routable = Cardinality(tracked)
<1> SUFFICES ASSUME ~(tracked = {} /\ Listed(backends) = {}), Routable # Cardinality(tracked)
             PROVE  determinePhase # "Ready"
  OBVIOUS
<1> QED
  BY DEF determinePhase

LEMMA ReadyStep ==
    ASSUME HInv, RInv, FInv, ReadyFromTheStart, [ReportingNext]_allVars
    PROVE  ReadyFromTheStart'
<1>a. \/ ReportStatus
      \/ UNCHANGED reported /\ (version' = version \/ version' = version + 1)
  <2>1. CASE MonitorNext \/ UNCHANGED allVars
    BY <2>1 DEF MonitorNext, reportingVars, allVars
  <2>2. CASE RegistryNext
    BY <2>2 DEF RegistryNext, Upsert, Remove
  <2>3. CASE ReporterNext /\ ~ReportStatus
    BY <2>3 DEF ReporterNext, StartReporting, InitialChecksDone, ReportTick, VersionTick,
                CancelReporting, ReportingDone, ListBackends, PushBackends, ReporterGoes
  <2> QED
    BY <2>1, <2>2, <2>3 DEF ReportingNext
<1>b. ReportStatus => /\ reporter.pc = "building" /\ version' = version
                      /\ UNCHANGED reported \/ reported' = BuildStatus
  BY DEF ReportStatus, ReporterGoes
<1>c. version \in Nat
  BY DEF RInv, ReportingTypeOK
<1>0. version' = 0 => version = 0
  BY <1>a, <1>b, <1>c
<1>1. CASE UNCHANGED reported
  BY <1>0, <1>1 DEF ReadyFromTheStart
<1>2. CASE reporter.pc = "building" /\ reported' = BuildStatus /\ version' = version
  <2> SUFFICES ASSUME version = 0, reported'.phase = "Ready"
               PROVE  reported'.configured \subseteq reported'.routable
    BY <1>0 DEF ReadyFromTheStart
  <2>1. Listed(backends) \subseteq tracked
    BY <1>2 DEF FInv, FirstRound
  <2>2. /\ determinePhase = "Ready"
        /\ reported'.configured = Listed(backends)
        /\ reported'.routable = WithStatus({"healthy", "unauthenticated"})
    BY <1>2 DEF BuildStatus
  <2>3. CASE tracked = {} /\ Listed(backends) = {}
    BY <2>2, <2>3
  <2>4. CASE Routable = Cardinality(tracked)
    BY <2>1, <2>2, <2>4, AllRoutable
  <2> QED
    BY <2>2, <2>3, <2>4, ReadyCounts
<1> QED
  BY <1>1, <1>2, <1>a, <1>b

\* "Ready" is earned as long as the registry is the initial one.
THEOREM ReadyIsEarned == ReportingSpec => []ReadyFromTheStart
<1>1. ReportingInit => ReadyFromTheStart
  BY DEF ReportingInit, ReadyFromTheStart
<1>2. HInv /\ RInv /\ FInv /\ ReadyFromTheStart /\ [ReportingNext]_allVars => ReadyFromTheStart'
  BY ReadyStep
<1> QED
  BY <1>1, <1>2, ReportingInvariance, PTL DEF ReportingSpec
=============================================================================
