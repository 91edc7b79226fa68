------------------------------ MODULE Monitoring ------------------------------
(***************************************************************************)
(* The monitoring API: MonitoringService (services/monitoring) behind      *)
(* endpoints/monitoring.  Metrics are recorded through the batch writer    *)
(* whose timing is FlushClock, and every row of a batch gets the time of   *)
(* its transaction; dashboards, usage reports and alert lists read the     *)
(* tables while other requests, here or in another Gunicorn worker, write  *)
(* them.  A row's value is its number in the table, so a figure names the  *)
(* row it was taken from and 0 is the figure the code puts where it found  *)
(* none.  Nothing in app/ calls create_alert, and collect_hypervisor_metrics *)
(* is the only caller of record_metric: their callers are the environment. *)
(***************************************************************************)
EXTENDS FlushClock, Sequences, FiniteSets, SequencesExt

CONSTANTS
    MaxRequests,    \* bound: requests that come in, numbered as they come
    Readings,       \* what may be recorded: [metric, source, project]
    ProjectLike,    \* the metric names that are LIKE 'project_%': project and at
                    \* least one more character, whichever it is
    UsageWindow,    \* rows per query of get_hypervisor_usage (50)
    ProjectWindow,  \* rows of get_project_usage (200)
    Limit,          \* the limit parameter of query_metrics and list_alerts
    MaxCalls        \* bound: calls of the service in a behaviour

Requests == 1..MaxRequests

ASSUME WindowAssumption == {UsageWindow, ProjectWindow, Limit} \subseteq Nat \ {0}

\* The metrics that get_project_usage has a figure for.
ProjectMetrics == {"project_instance_count", "project_total_vcpus",
                   "project_total_ram_mb", "project_total_disk_gb"}

ASSUME LikeAssumption == ProjectMetrics \subseteq ProjectLike

VARIABLES
    batch,      \* metric_flush_worker's list; size is its length
    rows,       \* metric_records; `at` is the number of the transaction
    alerts,     \* alert_records in the order of their creation
    now,        \* datetime.now of resolve_alert, counted
    op,         \* what the request asks for, "none" before it comes
    seen,       \* what the request has read so far, query by query
    calls,
    known,      \* history: rows stored and alerts answered as resolved when it came
    answered,   \* history: alerts some resolve_alert has answered for
    newest,     \* history: the latest resolved_at ever stored, per alert
    overlapped  \* history: alerts that two requests were resolving at one time

history == <<known, answered, newest, overlapped>>
monitoringVars == <<vars, batch, rows, alerts, now, op, seen, calls, history>>

Operations == {"metrics", "latest", "hypervisors", "projects", "alerts", "resolve",
               "dashboard"}

MonitoringTypeOK ==
    /\ TypeOK /\ size = Len(batch)
    /\ \A i \in DOMAIN rows : rows[i].at \in Nat \ {0}
    /\ alerts \in Seq([status : {"active", "resolved"}, resolved_at : Nat])
    /\ op \in [Requests -> {"none"} \cup Operations]
    /\ calls \in 0..MaxCalls

MonitoringInit ==
    /\ Init
    /\ batch = <<>> /\ rows = <<>> /\ alerts = <<>> /\ now = 1 /\ calls = 0
    /\ op = [r \in Requests |-> "none"]
    /\ seen = [r \in Requests |-> <<>>]
    /\ known = [r \in Requests |-> [rows |-> 0, resolved |-> {}]]
    /\ answered = {} /\ newest = <<>> /\ overlapped = {}

Call == calls < MaxCalls /\ calls' = calls + 1

-----------------------------------------------------------------------------
(* record_metric and the flush worker.                                     *)

\* recorded_at is the database's now(), the same for a whole transaction.
stamped(entries) ==
    LET at == IF rows = <<>> THEN 1 ELSE Last(rows).at + 1
    IN  [i \in DOMAIN entries |-> [metric |-> entries[i].metric, source |-> entries[i].source,
                                   project |-> entries[i].project, at |-> at]]

readUnchanged == UNCHANGED <<alerts, now, op, seen, history>>

record_metric(reading) ==
    /\ Call /\ Arrive
    /\ IF size + 1 >= BatchSize
       THEN rows' = rows \o stamped(Append(batch, reading)) /\ batch' = <<>>
       ELSE batch' = Append(batch, reading) /\ UNCHANGED rows
    /\ readUnchanged

\* MonitorManager: the number of servers, unless list_servers raises (-1 is returned
\* and nothing recorded).
collect_hypervisor_metrics ==
    record_metric([metric |-> "total_instances", source |-> "openstack", project |-> "unknown"])

FlushOnTimeout ==
    /\ Timeout
    /\ rows' = rows \o stamped(batch) /\ batch' = <<>>
    /\ UNCHANGED calls /\ readUnchanged

Time == Tick /\ UNCHANGED <<batch, rows, calls>> /\ readUnchanged

-----------------------------------------------------------------------------
(* The queries.  ORDER BY recorded_at DESC leaves the order of the rows of *)
(* one transaction open.                                                   *)

firstRows(s, n) == SubSeq(s, 1, IF Len(s) < n THEN Len(s) ELSE n)

\* Faulty variant: the oldest rows first.
OldestRows(S, n) ==
    {firstRows(s, n) : s \in {t \in SetToSeqs(S) : \A i \in 1..Len(t) - 1 :
                                  rows[t[i]].at <= rows[t[i + 1]].at}}

NewestRows(S, n) ==
    {firstRows(s, n) : s \in {t \in SetToSeqs(S) : \A i \in 1..Len(t) - 1 :
                                  rows[t[i]].at >= rows[t[i + 1]].at}}

named(m) == {i \in DOMAIN rows : rows[i].metric = m}
from(src) == {i \in DOMAIN rows : rows[i].source = src}
Sources == {"openstack"} \cup {reading.source : reading \in Readings}

tablesUnchanged == UNCHANGED <<vars, batch, rows>>
alertsUnchanged == UNCHANGED <<alerts, now, answered, newest, overlapped>>

\* A request comes in and its first query answers.
comes(r) == calls < MaxCalls /\ op[r] = "none" /\ \A q \in 1..r - 1 : op[q] # "none"

Begin(r, what, first) ==
    /\ Call
    /\ op' = [op EXCEPT ![r] = what]
    /\ seen' = [seen EXCEPT ![r] = first]
    /\ known' = [known EXCEPT ![r] = [rows |-> Len(rows), resolved |-> answered]]
    /\ tablesUnchanged

Answer(r, next) ==
    /\ seen' = [seen EXCEPT ![r] = Append(@, next)]
    /\ UNCHANGED <<op, calls, known>> /\ tablesUnchanged

\* The filter is one metric name or one source.
query_metrics(r) ==
    /\ comes(r)
    /\ \E S \in {named(reading.metric) : reading \in Readings} \cup {from(s) : s \in Sources} :
          \E w \in NewestRows(S, Limit) : Begin(r, "metrics", <<S, w>>)
    /\ alertsUnchanged

\* Grouped by metric name alone, so a source that the newest transaction of a metric
\* does not mention is left out.
get_latest_metrics(r) ==
    /\ comes(r)
    /\ \E S \in {DOMAIN rows} \cup {from(s) : s \in Sources} :
          Begin(r, "latest", <<S, {i \in S : \A j \in S \cap named(rows[i].metric) :
                                       rows[j].at <= rows[i].at}>>)
    /\ alertsUnchanged

\* Four statements of one session, each of which sees what is committed by then.
HypervisorMetrics == <<"hypervisor_cpu_usage", "hypervisor_memory_usage",
                       "hypervisor_disk_usage", "hypervisor_running_vms">>

window(k) == NewestRows(named(HypervisorMetrics[k]), UsageWindow)

get_hypervisor_usage(r) ==
    /\ \/ comes(r) /\ \E w \in window(1) : Begin(r, "hypervisors", <<w>>)
       \/ /\ op[r] = "hypervisors" /\ Len(seen[r]) < Len(HypervisorMetrics)
          /\ \E w \in window(Len(seen[r]) + 1) : Answer(r, w)
    /\ alertsUnchanged

\* One query for all of them, in which other metrics that match take their places.
projectRows == {i \in DOMAIN rows : rows[i].metric \in ProjectLike}

get_project_usage(r) ==
    /\ comes(r)
    /\ \E w \in NewestRows(projectRows, ProjectWindow) : Begin(r, "projects", <<w>>)
    /\ alertsUnchanged

\* The row of a window that a figure is taken from.
firstOf(w, S) ==
    IF \E i \in DOMAIN w : w[i] \in S
    THEN w[CHOOSE i \in DOMAIN w : w[i] \in S /\ \A j \in 1..i - 1 : w[j] \notin S]
    ELSE 0
lastOf(w, S) == firstOf(Reverse(w), S)

\* A host is reported if the CPU window has a row of it.  Its CPU figure is that of
\* its first row there; the others come from dicts that each further row overwrites,
\* so the last, oldest row of the window stays.
reportedHosts(r) == {rows[seen[r][1][i]].source : i \in DOMAIN seen[r][1]}

HypervisorUsage(r, host) ==
    [k \in DOMAIN HypervisorMetrics |->
        IF k = 1 THEN firstOf(seen[r][k], from(host)) ELSE lastOf(seen[r][k], from(host))]

\* The dict of a project is overwritten row by row in the same way.
ofProject(m, p) == {i \in named(m) : rows[i].project = p}
ProjectUsage(r, p) == [m \in ProjectMetrics |-> lastOf(seen[r][1], ofProject(m, p))]

-----------------------------------------------------------------------------
(* Alerts and the dashboard.                                               *)

create_alert ==
    /\ Call
    /\ alerts' = Append(alerts, [status |-> "active", resolved_at |-> 0])
    /\ newest' = Append(newest, 0)
    /\ tablesUnchanged /\ UNCHANGED <<now, op, seen, known, answered, overlapped>>

active == {a \in DOMAIN alerts : alerts[a].status = "active"}

\* The newest, of all or of the active ones.
list_alerts(r) ==
    /\ comes(r)
    /\ \E S \in {DOMAIN alerts, active} :
          Begin(r, "alerts", <<S = active, {a \in S : Cardinality({b \in S : b > a}) < Limit}>>)
    /\ alertsUnchanged

resolving(r, a) == op[r] = "resolve" /\ Len(seen[r]) \in {2, 3} /\ seen[r][1] = a

\* session.get: 404 for an id that is not there, else the time is read.
ResolveGet(r, a) ==
    /\ comes(r)
    /\ IF a \in DOMAIN alerts
       THEN /\ Begin(r, "resolve", <<a, now>>)
            /\ now' = now + 1
            /\ overlapped' = IF \E q \in Requests : resolving(q, a)
                             THEN overlapped \cup {a} ELSE overlapped
       ELSE Begin(r, "resolve", <<"not_found">>) /\ UNCHANGED <<now, overlapped>>
    /\ UNCHANGED <<alerts, answered, newest>>

\* Faulty variant: the session is closed without a commit.
ResolveUncommitted(r) ==
    /\ op[r] = "resolve" /\ Len(seen[r]) = 2
    /\ Answer(r, "committed")
    /\ UNCHANGED <<alerts, now, answered, newest, overlapped>>

\* The commit; whatever another request stored in between is overwritten.
ResolveCommit(r) ==
    /\ op[r] = "resolve" /\ Len(seen[r]) = 2
    /\ LET a == seen[r][1] IN
         /\ alerts' = [alerts EXCEPT ![a] = [status |-> "resolved", resolved_at |-> seen[r][2]]]
         /\ newest' = [newest EXCEPT ![a] = IF seen[r][2] > @ THEN seen[r][2] ELSE @]
    /\ Answer(r, "committed")
    /\ UNCHANGED <<now, answered, overlapped>>

_serialize_alert(a) == alerts[a]

\* The refresh reads the row again for the answer.
ResolveRefresh(r) ==
    /\ op[r] = "resolve" /\ Len(seen[r]) = 3
    /\ Answer(r, _serialize_alert(seen[r][1]))
    /\ answered' = answered \cup {seen[r][1]}
    /\ UNCHANGED <<alerts, now, newest, overlapped>>

\* The active alerts are counted, then compute_service.list_servers is called; if
\* it raises, the instance figures stay 0.
get_dashboard_summary(r) ==
    /\ \/ comes(r) /\ Begin(r, "dashboard", <<Cardinality(active)>>)
       \/ /\ op[r] = "dashboard" /\ Len(seen[r]) = 1
          /\ \E instances \in {"listed", "zero"} : Answer(r, instances)
    /\ alertsUnchanged

Request(r) ==
    \/ query_metrics(r) \/ get_latest_metrics(r)
    \/ get_hypervisor_usage(r) \/ get_project_usage(r)
    \/ list_alerts(r) \/ get_dashboard_summary(r)
    \/ \E a \in 1..Len(alerts) + 1 : ResolveGet(r, a)
    \/ ResolveCommit(r) \/ ResolveRefresh(r)

MonitoringNext ==
    \/ \E reading \in Readings : record_metric(reading)
    \/ collect_hypervisor_metrics \/ FlushOnTimeout \/ Time
    \/ create_alert
    \/ \E r \in Requests : Request(r)

MonitoringSpec == MonitoringInit /\ [][MonitoringNext]_monitoringVars
-----------------------------------------------------------------------------
(* What a reader may rely on.                                              *)

\* Of the rows S that were stored when the request came, those newer than row i.
newer(r, S, i) == {j \in S : j <= known[r].rows /\ rows[j].at > rows[i].at}

\* No figure was found for `own` although rows were stored: n rows of the query's
\* domain S that are none of its own are as new as they are.
pushedOut(r, S, own, n) ==
    \A i \in own : i <= known[r].rows =>
        Cardinality({j \in S \ own : rows[j].at >= rows[i].at}) >= n

\* A figure is taken from a row of its own, at most n - 1 rows of the query behind
\* the newest that was stored when the request came, or was pushed out.
withinWindow(r, figure, S, own, n) ==
    IF figure = 0 THEN pushedOut(r, S, own, n)
                  ELSE figure \in own /\ Cardinality(newer(r, S, figure)) < n

\* get_hypervisor_usage: although batches are committed between its four queries, a
\* host is left out only if other hosts filled the CPU window, its CPU figure is the
\* newest stored when the request came or newer, and each other figure is less than
\* one window of rows behind.
UsageExplained ==
    \A r \in Requests : (op[r] = "hypervisors" /\ Len(seen[r]) = 4) =>
        \A host \in Sources :
            LET own(k) == named(HypervisorMetrics[k]) \cap from(host)
                usage == HypervisorUsage(r, host)
            IN  IF host \in reportedHosts(r)
                THEN /\ newer(r, own(1), usage[1]) = {}
                     /\ \A k \in 2..4 : withinWindow(r, usage[k], named(HypervisorMetrics[k]),
                                                     own(k), UsageWindow)
                ELSE pushedOut(r, named(HypervisorMetrics[1]), own(1), UsageWindow)

\* get_project_usage: the figures of a project are its own and less than one window
\* of matching rows behind, or other matching rows filled the window.
ProjectUsageExplained ==
    \A r \in Requests : op[r] = "projects" =>
        \A reading \in Readings : reading.metric \in ProjectMetrics =>
            withinWindow(r, ProjectUsage(r, reading.project)[reading.metric],
                         projectRows, ofProject(reading.metric, reading.project), ProjectWindow)

\* query_metrics and get_latest_metrics: a matching row that was stored and is not
\* in the answer is not newer than any row that is; get_latest_metrics leaves no
\* metric out that has a matching row.
ListsExplained ==
    \A r \in Requests :
        /\ op[r] = "metrics" =>
              LET found == ToSet(seen[r][2]) IN
                \A i \in seen[r][1] \ found : \A j \in found : rows[i].at <= rows[j].at
        /\ op[r] = "latest" =>
              \A i \in seen[r][1] : \E j \in seen[r][2] :
                  rows[j].metric = rows[i].metric /\ rows[j].at >= rows[i].at

\* What the reports show of the metrics, whatever is recorded meanwhile.
FiguresExplained == UsageExplained /\ ProjectUsageExplained /\ ListsExplained

\* An alert that resolve_alert has answered for is not active in any list or
\* dashboard asked for afterwards, and its resolved_at goes back in time only if
\* two requests were resolving it at once.
AlertsExplained ==
    /\ \A r \in Requests :
          /\ op[r] = "alerts" /\ seen[r][1] => seen[r][2] \cap known[r].resolved = {}
          /\ op[r] = "dashboard" =>
                seen[r][1] <= Len(alerts) - Cardinality(known[r].resolved)
    /\ \A a \in DOMAIN alerts : alerts[a].resolved_at < newest[a] => a \in overlapped
=============================================================================
