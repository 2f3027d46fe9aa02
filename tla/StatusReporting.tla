--------------------------- MODULE StatusReporting --------------------------
(***************************************************************************)
(* The status reporter of the vMCP server composed with the registry of    *)
(* backends it reads and the health monitor it feeds                       *)
(* (pkg/vmcp/server/status_reporting.go, pkg/vmcp/registry.go).            *)
(*                                                                         *)
(* Kubernetes events mutate the registry at any time.  The reporter is the *)
(* only caller of UpdateBackends; between its calls, each of which takes a *)
(* lock of its own, the registry and the health checks move on.            *)
(***************************************************************************)
EXTENDS HealthMonitor, FiniteSets

CONSTANT MaxVersion   \* bound on the mutations of the registry

ASSUME BackendsAssumption == IsFiniteSet(Backends)

ASSUME ReportingAssumption == MaxVersion \in Nat

VARIABLES
    registry,    \* dynamicRegistry.backends, as a map from ID to URL
    version,     \* dynamicRegistry.version
    reporter,    \* the goroutine periodicStatusReporting
    reported     \* the last Status the reporter delivered

reportingVars == <<registry, version, reporter, reported>>
allVars == <<vars, reportingVars>>

Phase == {"Ready", "Pending", "Degraded", "Failed"}
Lists == [Backends -> Urls \union {Absent}]

\* off: not started; waiting: in WaitForInitialHealthChecks; listing, updating,
\* building: before List, UpdateBackends and BuildStatus of reportStatus.
Reporter == [ pc                  : {"off", "waiting", "listing", "updating",
                                     "building", "select", "done"},
              lastRegistryVersion : 0..MaxVersion,
              currentBackends     : Lists,
              cancelled           : BOOLEAN ]

\* configured and routable are not fields of vmcp.Status: they remember the
\* backends that were listed, and the ones that could serve, at that moment.
Status == [ phase      : Phase \union {"none"},
            discovered : SUBSET Backends,
            configured : SUBSET Backends,
            routable   : SUBSET Backends ]

Listed(list) == {b \in Backends : list[b] # Absent}

ReportingInit ==
    /\ Init
    /\ registry = backends
    /\ version = 0
    /\ reporter = [pc |-> "off", lastRegistryVersion |-> 0,
                   currentBackends |-> backends, cancelled |-> FALSE]
    /\ reported = [phase |-> "none", discovered |-> {}, configured |-> {}, routable |-> {}]
-----------------------------------------------------------------------------
(* dynamicRegistry: every call counts, also one that changes nothing. *)

Upsert(b, url) ==
    /\ version < MaxVersion
    /\ registry' = [registry EXCEPT ![b] = url]
    /\ version' = version + 1
    /\ UNCHANGED <<vars, reporter, reported>>

Remove(b) ==
    /\ version < MaxVersion
    /\ registry' = [registry EXCEPT ![b] = Absent]
    /\ version' = version + 1
    /\ UNCHANGED <<vars, reporter, reported>>
-----------------------------------------------------------------------------
(* periodicStatusReporting. *)

ReporterGoes(from, new) ==
    /\ reporter.pc = from
    /\ reporter' = new
    /\ UNCHANGED <<registry, version>>

\* Server.Start launches the goroutine; the core has started the monitor.
StartReporting ==
    /\ started
    /\ ReporterGoes("off", [reporter EXCEPT !.pc = "waiting"])
    /\ UNCHANGED <<vars, reported>>

\* The version is read before the backends are listed.
Snapshot == [reporter EXCEPT !.pc = "listing", !.lastRegistryVersion = version]

\* Mutated form: the wait for the initial checks is missing.
InitialChecksDoneUnwaited ==
    ReporterGoes("waiting", Snapshot) /\ UNCHANGED <<vars, reported>>

InitialChecksDone ==
    /\ \A b \in Backends, s \in Slots : ~checks[b][s].initial
    /\ ReporterGoes("waiting", Snapshot)
    /\ UNCHANGED <<vars, reported>>

ReportTick ==
    /\ ReporterGoes("select", Snapshot)
    /\ UNCHANGED <<vars, reported>>

VersionTick ==
    /\ version # reporter.lastRegistryVersion
    /\ ReporterGoes("select", Snapshot)
    /\ UNCHANGED <<vars, reported>>

CancelReporting ==
    /\ reporter.pc # "off" /\ ~reporter.cancelled
    /\ ReporterGoes(reporter.pc, [reporter EXCEPT !.cancelled = TRUE])
    /\ UNCHANGED <<vars, reported>>

ReportingDone ==
    /\ reporter.cancelled
    /\ ReporterGoes("select", [reporter EXCEPT !.pc = "done"])
    /\ UNCHANGED <<vars, reported>>
-----------------------------------------------------------------------------
(* reportStatus. *)

ListBackends ==
    /\ ReporterGoes("listing", [reporter EXCEPT !.pc = "updating",
                                                !.currentBackends = registry])
    /\ UNCHANGED <<vars, reported>>

\* Mutated form: the version is read after the report instead of before it.
PushBackendsThenSnapshot ==
    /\ ReporterGoes("updating", [reporter EXCEPT !.pc = "building",
                                                 !.lastRegistryVersion = version])
    /\ UNCHANGED reported
    /\ \/ UpdateBackends(reporter.currentBackends)
       \/ ~(started /\ ~stopped) /\ UNCHANGED vars

\* UpdateBackends returns at once when the monitor has stopped.
PushBackends ==
    /\ ReporterGoes("updating", [reporter EXCEPT !.pc = "building"])
    /\ UNCHANGED reported
    /\ \/ UpdateBackends(reporter.currentBackends)
       \/ ~(started /\ ~stopped) /\ UNCHANGED vars

WithStatus(S) == {b \in tracked : states[b].status \in S}

\* Mutated form: slow backends count as routable.
RoutableSlow == Cardinality(WithStatus({"healthy", "unauthenticated", "degraded"}))

\* Summary.Routable counts unauthenticated backends as well.
Routable == Cardinality(WithStatus({"healthy", "unauthenticated"}))

determinePhase ==
    CASE tracked = {} /\ Listed(backends) = {}   -> "Ready"
      [] tracked = {} /\ Listed(backends) # {}   -> "Pending"
      [] tracked # {} /\ Routable = Cardinality(tracked) -> "Ready"
      [] tracked # {} /\ Routable = 0            -> "Failed"
      [] OTHER                                   -> "Degraded"

\* One snapshot of the tracker; m.backends changes only in this goroutine.
BuildStatus ==
    [ phase      |-> determinePhase,
      discovered |-> tracked,
      configured |-> Listed(backends),
      routable   |-> WithStatus({"healthy", "unauthenticated"}) ]

\* ReportStatus may fail; the error is logged and the loop goes on.
ReportStatus ==
    /\ ReporterGoes("building", [reporter EXCEPT !.pc = "select"])
    /\ reported' \in {BuildStatus, reported}
    /\ UNCHANGED vars

ReporterNext ==
    \/ StartReporting \/ InitialChecksDone \/ ReportTick \/ VersionTick
    \/ CancelReporting \/ ReportingDone
    \/ ListBackends \/ PushBackends \/ ReportStatus

\* The monitor on its own, without the calls of UpdateBackends.
MonitorNext ==
    /\ \/ Start \/ Stop \/ StopReturns
       \/ GoroutineNext
       \/ \E b \in Backends : TimeoutElapses(b)
    /\ UNCHANGED reportingVars

RegistryNext ==
    \E b \in Backends : Remove(b) \/ \E url \in Urls : Upsert(b, url)

ReportingNext == MonitorNext \/ RegistryNext \/ ReporterNext

ReportingSpec == ReportingInit /\ [][ReportingNext]_allVars
-----------------------------------------------------------------------------
(* The reporter's loop is driven by tickers, and the calls it makes return.  *)
(* The monitor keeps the fairness it has on its own.                         *)

ReportingFairness ==
    /\ Fairness
    /\ WF_allVars(StartReporting)
    /\ WF_allVars(InitialChecksDone)
    /\ WF_allVars(ListBackends)
    /\ WF_allVars(PushBackends)
    /\ WF_allVars(ReportStatus)
    /\ WF_allVars(VersionTick)

FairReportingSpec == ReportingSpec /\ ReportingFairness
-----------------------------------------------------------------------------
(* Properties. *)

ReportingTypeOK ==
    /\ registry \in Lists
    /\ version \in 0..MaxVersion
    /\ reporter \in Reporter
    /\ reported \in Status

\* The reporter sleeps until the version changes, so when it sleeps with the
\* current version the monitor must be checking the current backends: no
\* mutation that raced with reportStatus is absorbed by the snapshot.
SeenVersionIsApplied ==
    reporter.pc = "select" /\ reporter.lastRegistryVersion = version /\ started
        => backends = registry

\* The first report waits for the initial checks, so it has health data for
\* every backend: as long as the list is the initial one, whatever it reports
\* was computed with every listed backend tracked.
FirstReportHasData ==
    backends = registry /\ version = 0 /\ reporter.pc \notin {"off", "waiting"}
        => Listed(backends) \subseteq tracked

\* The fallback of convertToDiscoveredBackends for a tracked backend that is
\* not listed (its URL is reported empty) is never taken.
DiscoveredAreConfigured == reported.discovered \subseteq reported.configured

\* "Ready: All backends routable": as long as the registry is the initial one a
\* report that says Ready was made when every listed backend was routable. (After
\* a change the phase counts only the backends that have been checked.)
ReadyFromTheStart ==
    version = 0 /\ reported.phase = "Ready" => reported.configured \subseteq reported.routable

\* A change of the registry reaches the monitor while both of them run.
RegistryReachesMonitor ==
    (started /\ backends # registry)
        ~> (backends = registry \/ stopped \/ reporter.cancelled)
=============================================================================
