-------------------------- MODULE Monitoring_proofs --------------------------
(***************************************************************************)
(* The delay of the flush worker for every batch size and interval, alone  *)
(* and under the monitoring API, what the lists of alerts promise for any  *)
(* number of requests, and which rows the figures of the reports are taken *)
(* from for any windows.                                                   *)
(***************************************************************************)
EXTENDS Monitoring, FiniteSetTheorems, WellFoundedInduction, TLAPS

-----------------------------------------------------------------------------
(* The clock. *)

ClockOK == TypeOK /\ AgeExplained

\* Products of the constants, kept away from the steps that use them.
LEMMA Products ==
    ASSUME NEW n \in Nat
    PROVE  /\ n * Interval \in Nat
           /\ (n + 1) * Interval = n * Interval + Interval
           /\ \A m \in Nat : m <= n => m * Interval <= n * Interval
  <1>1. Interval \in Nat
    BY IntervalAssumption
  <1>2. n * Interval \in Nat /\ (n + 1) * Interval = n * Interval + Interval
    BY <1>1, SMT
  <1>3. ASSUME NEW m \in Nat, m <= n PROVE m * Interval <= n * Interval
    <2>1. n - m \in Nat /\ n = m + (n - m)
      BY <1>3, SMT
    <2>2. n * Interval = m * Interval + (n - m) * Interval
      BY <1>1, <2>1, SMT
    <2>3. (n - m) * Interval \in Nat /\ m * Interval \in Nat
      BY <1>1, <2>1, SMT
    <2> QED
      BY <1>1, <2>2, <2>3, SMT
  <1> QED
    BY <1>2, <1>3

\* An empty batch satisfies the invariant.
LEMMA InitClock == Init => ClockOK
  BY BatchSizeAssumption, IntervalAssumption DEF Init, ClockOK, TypeOK, AgeExplained

\* Every arrival, timeout and tick of the worker keeps the invariant.
LEMMA NextClock == ClockOK /\ [Next]_vars => ClockOK'
  <1> SUFFICES ASSUME ClockOK, [Next]_vars PROVE ClockOK'
    OBVIOUS
  <1> USE BatchSizeAssumption, IntervalAssumption
  <1>1. CASE Arrive
    <2>1. CASE size + 1 >= BatchSize
      BY <1>1, <2>1 DEF Arrive, ClockOK, TypeOK, AgeExplained
    <2>2. CASE ~(size + 1 >= BatchSize) /\ size = 0
      BY <1>1, <2>2 DEF Arrive, ClockOK, TypeOK, AgeExplained
    <2>3. CASE ~(size + 1 >= BatchSize) /\ size > 0
      <3>1. size - 1 \in Nat
        BY <2>3 DEF ClockOK, TypeOK
      <3>2. /\ (size - 1) * Interval \in Nat
            /\ size * Interval = (size - 1) * Interval + Interval
        <4>1. (size - 1) + 1 = size
          BY <3>1 DEF ClockOK, TypeOK
        <4> QED
          BY <3>1, <4>1, Products
      <3>3. age' <= size * Interval
        BY <1>1, <2>3, <3>2 DEF Arrive, ClockOK, TypeOK, AgeExplained
      <3>4. size' = size + 1 /\ timer' = 0 /\ age' = age
        BY <1>1, <2>3 DEF Arrive
      <3>5. size' - 1 = size
        BY <3>4 DEF ClockOK, TypeOK
      <3>6. age' <= (size' - 1) * Interval + timer'
        <4>1. size * Interval \in Nat
          BY <3>2
        <4> QED
          BY <3>3, <3>4, <3>5, <4>1 DEF ClockOK, TypeOK
      <3> QED
        BY <2>3, <3>4, <3>6 DEF ClockOK, TypeOK, AgeExplained
    <2> QED
      BY <2>1, <2>2, <2>3 DEF ClockOK, TypeOK
  <1>2. CASE Timeout
    BY <1>2 DEF Timeout, ClockOK, TypeOK, AgeExplained
  <1>3. CASE Tick
    <2>1. CASE size = 0
      BY <1>3, <2>1 DEF Tick, ClockOK, TypeOK, AgeExplained
    <2>2. CASE size # 0
      <3>1. size - 1 \in Nat
        BY <2>2 DEF ClockOK, TypeOK
      <3>2. (size - 1) * Interval \in Nat
        BY <3>1, Products
      <3> QED
        BY <1>3, <2>2, <3>2 DEF Tick, ClockOK, TypeOK, AgeExplained
    <2> QED
      BY <2>1, <2>2
  <1>4. CASE UNCHANGED vars
    BY <1>4 DEF vars, ClockOK, TypeOK, AgeExplained
  <1> QED
    BY <1>1, <1>2, <1>3, <1>4 DEF Next

\* A batch below BatchSize that is explained by its timers is not too old.
LEMMA ClockBounds == ClockOK => DelayBounded
  <1> SUFFICES ASSUME ClockOK PROVE DelayBounded
    OBVIOUS
  <1> USE BatchSizeAssumption, IntervalAssumption
  <1>1. BatchSize - 1 \in Nat /\ (BatchSize - 1) * Interval \in Nat
    <2>1. BatchSize - 1 \in Nat
      OBVIOUS
    <2> QED
      BY <2>1, Products
  <1>2. CASE size = 0
    BY <1>1, <1>2 DEF ClockOK, TypeOK, AgeExplained, DelayBounded
  <1>3. CASE size # 0
    <2>1. size - 1 \in Nat /\ size \in Nat /\ size <= BatchSize - 1 /\ (size - 1) + 1 = size
      BY <1>3 DEF ClockOK, TypeOK
    <2>2. (size - 1) * Interval \in Nat /\ size * Interval = (size - 1) * Interval + Interval
      BY <2>1, Products
    <2>3. size * Interval <= (BatchSize - 1) * Interval
      BY <1>1, <2>1, Products
    <2>4. age <= size * Interval
      BY <1>3, <2>2 DEF ClockOK, TypeOK, AgeExplained
    <2>5. size * Interval \in Nat
      BY <2>1, Products
    <2> QED
      BY <1>1, <2>3, <2>4, <2>5 DEF ClockOK, TypeOK, DelayBounded
  <1> QED
    BY <1>2, <1>3

\* audit_flush_worker: for every batch size and flush interval an entry waits at
\* most (BatchSize - 1) * Interval ticks in the worker's batch.
THEOREM ClockDelayBound == Spec => []DelayBounded
  BY InitClock, NextClock, ClockBounds, PTL DEF Spec

-----------------------------------------------------------------------------
(* The clock inside the monitoring API. *)

\* What the API does to the batch's clock is an arrival, a timeout, a tick or nothing:
\* no request delays the worker.
LEMMA ClockSteps == [MonitoringNext]_monitoringVars => [Next]_vars
  <1> SUFFICES ASSUME [MonitoringNext]_monitoringVars PROVE [Next]_vars
    OBVIOUS
  <1>1. CASE \E reading \in Readings : record_metric(reading)
    BY <1>1 DEF record_metric, Next
  <1>2. CASE collect_hypervisor_metrics
    BY <1>2 DEF collect_hypervisor_metrics, record_metric, Next
  <1>3. CASE FlushOnTimeout \/ Time
    BY <1>3 DEF FlushOnTimeout, Time, Next
  <1>4. CASE create_alert
    BY <1>4 DEF create_alert, tablesUnchanged
  <1>5. CASE \E r \in Requests : Request(r)
    BY <1>5 DEF Request, query_metrics, get_latest_metrics, get_hypervisor_usage, get_project_usage,
       list_alerts, get_dashboard_summary, ResolveGet, ResolveCommit, ResolveRefresh, Begin, Answer,
       tablesUnchanged
  <1>6. CASE UNCHANGED monitoringVars
    BY <1>6 DEF monitoringVars
  <1> QED
    BY <1>1, <1>2, <1>3, <1>4, <1>5, <1>6 DEF MonitoringNext

\* The API's clock is FlushClock's, by the way its actions are put together.
LEMMA ClockImplemented == MonitoringSpec => Spec
  <1>1. MonitoringInit => Init
    BY DEF MonitoringInit
  <1> QED
    BY <1>1, ClockSteps, PTL DEF MonitoringSpec, Spec

\* metric_flush_worker: for every batch size and flush interval an entry waits at most
\* (BatchSize - 1) * Interval ticks in the batch, whatever readers do meanwhile.
THEOREM DelayBound == MonitoringSpec => []DelayBounded
  BY ClockImplemented, ClockDelayBound, PTL

-----------------------------------------------------------------------------
(* Alerts. *)

Alert == [status : {"active", "resolved"}, resolved_at : Nat]

\* The answers a request has collected are a sequence of whatever the queries returned.
Collected(s) == \E S : s \in Seq(S)

AlertTyped ==
    /\ alerts \in Seq(Alert) /\ newest \in Seq(Nat) /\ Len(newest) = Len(alerts)
    /\ now \in Nat \ {0}
    /\ DOMAIN op = Requests /\ DOMAIN seen = Requests /\ DOMAIN known = Requests

Resolved == {a \in 1..Len(alerts) : alerts[a].status = "resolved"}

\* A resolve_alert holds an alert of the table and a time the clock has left behind;
\* once it has committed, the alert is resolved.
Resolver(r) ==
    op[r] = "resolve" =>
        /\ Collected(seen[r])
        /\ \/ Len(seen[r]) = 1
           \/ /\ Len(seen[r]) \in {2, 3, 4}
              /\ seen[r][1] \in 1..Len(alerts) /\ seen[r][2] \in Nat /\ seen[r][2] < now
              /\ Len(seen[r]) # 2 => seen[r][1] \in Resolved

\* What a request knows as answered was answered.
KnownOK(r) == op[r] # "none" => known[r].resolved \subseteq answered

\* What a list of active alerts and a dashboard have in their answer.
ListOK(r) ==
    op[r] = "alerts" => (seen[r][1] = TRUE => \A a \in seen[r][2] : a \notin known[r].resolved)
DashboardOK(r) ==
    op[r] = "dashboard" =>
        /\ Collected(seen[r]) /\ Len(seen[r]) \in {1, 2} /\ seen[r][1] \in Nat
        /\ Cardinality(known[r].resolved) \in Nat
        /\ seen[r][1] + Cardinality(known[r].resolved) <= Len(alerts)

RequestOK(r) == Resolver(r) /\ KnownOK(r) /\ ListOK(r) /\ DashboardOK(r)

\* An alert that one request at a time resolves: the stored time is the newest, and the
\* one under way is newer still.
Alone(a) ==
    a \notin overlapped =>
        /\ alerts[a].resolved_at = newest[a]
        /\ \A r, q \in Requests : resolving(r, a) /\ resolving(q, a) => r = q
        /\ \A r \in Requests : resolving(r, a) /\ Len(seen[r]) = 2 => newest[a] < seen[r][2]

TimesOK == \A a \in 1..Len(alerts) : newest[a] < now /\ Alone(a)

\* Answered alerts are resolved.
AInv ==
    /\ AlertTyped /\ answered \subseteq Resolved /\ TimesOK
    /\ \A r \in Requests : RequestOK(r)

\* One more answer: the earlier ones stay where they are.
LEMMA OneMore ==
    ASSUME NEW s, Collected(s), NEW x
    PROVE  /\ Len(s) \in Nat
           /\ Collected(Append(s, x)) /\ Len(Append(s, x)) = Len(s) + 1
           /\ \A i \in 1..Len(s) : Append(s, x)[i] = s[i]
  <1>1. PICK S : s \in Seq(S)
    BY DEF Collected
  <1>2. s \in Seq(S \cup {x}) /\ x \in S \cup {x}
    BY <1>1
  <1>3. Append(s, x) \in Seq(S \cup {x})
    BY <1>2
  <1>4. Len(s) \in Nat /\ Len(Append(s, x)) = Len(s) + 1
    BY <1>2
  <1>5. \A i \in 1..Len(s) : Append(s, x)[i] = s[i]
    BY <1>2
  <1> QED
    BY <1>3, <1>4, <1>5 DEF Collected

\* The answers of a first query.
LEMMA FirstAnswer ==
    ASSUME NEW x
    PROVE  Collected(<<x>>) /\ Len(<<x>>) = 1 /\ <<x>>[1] = x
  <1>1. <<x>> \in Seq({x})
    OBVIOUS
  <1> QED
    BY <1>1 DEF Collected

\* An alert and the time that were read.
LEMMA FirstAnswers ==
    ASSUME NEW x, NEW y
    PROVE  Collected(<<x, y>>) /\ Len(<<x, y>>) = 2 /\ <<x, y>>[1] = x /\ <<x, y>>[2] = y
  <1>1. <<x, y>> \in Seq({x, y})
    OBVIOUS
  <1> QED
    BY <1>1 DEF Collected

\* A service without alerts.
LEMMA InitAlerts == MonitoringInit => AInv
  <1> SUFFICES ASSUME MonitoringInit PROVE AInv
    OBVIOUS
  <1>1. alerts = <<>> /\ newest = <<>> /\ now = 1 /\ answered = {} /\ Len(alerts) = 0
    BY DEF MonitoringInit
  <1>2. AlertTyped
    BY <1>1 DEF MonitoringInit, AlertTyped
  <1>3. \A r \in Requests : RequestOK(r)
    BY DEF MonitoringInit, RequestOK, Resolver, KnownOK, ListOK, DashboardOK
  <1> QED
    BY <1>1, <1>2, <1>3 DEF AInv, TimesOK

\* Active and resolved alerts share the table.
LEMMA ActiveAndResolved ==
    ASSUME AInv
    PROVE  /\ Cardinality(active) \in Nat /\ Cardinality(answered) \in Nat
           /\ Cardinality(active) + Cardinality(answered) <= Len(alerts)
           /\ \A a \in active : a \notin answered
  <1> DEFINE n == Len(alerts)
  <1>1. n \in Nat /\ DOMAIN alerts = 1..n
    BY DEF AInv, AlertTyped
  <1>2. \A a \in active : a \in 1..n /\ a \notin answered
    BY <1>1 DEF AInv, active, Resolved
  <1>3. answered \in SUBSET (1..n) /\ active \in SUBSET (1..n)
    BY <1>2 DEF AInv, Resolved
  <1> HIDE DEF n
  <1>4. IsFiniteSet(1..n) /\ Cardinality(1..n) = n
    <2>1. 1 \in Int /\ n \in Int
      BY <1>1
    <2>2. IsFiniteSet(1..n) /\ Cardinality(1..n) = (IF 1 > n THEN 0 ELSE n - 1 + 1)
      BY ONLY <2>1, FS_Interval
    <2> QED
      BY <1>1, <2>2
  <1>5. IsFiniteSet(active) /\ IsFiniteSet(answered)
    BY <1>3, <1>4, FS_Subset
  <1>6. active \cap answered = {}
    BY <1>2
  <1>7. /\ IsFiniteSet(active \cup answered)
        /\ Cardinality(active \cup answered)
             = Cardinality(active) + Cardinality(answered) - Cardinality(active \cap answered)
    BY ONLY <1>5, FS_Union
  <1>8. Cardinality(active \cap answered) = 0
    BY ONLY <1>6, FS_EmptySet
  <1>9. Cardinality(active \cup answered) <= n
    <2>1. active \cup answered \in SUBSET (1..n)
      BY <1>3
    <2> QED
      BY <1>4, <2>1, FS_Subset
  <1>10. Cardinality(active) \in Nat /\ Cardinality(answered) \in Nat
    BY <1>5, FS_CardinalityType
  <1> QED
    BY <1>2, <1>7, <1>8, <1>9, <1>10 DEF n

-----------------------------------------------------------------------------
(* What a step leaves alone. *)

\* The table of alerts, the clock and the answers only grow.
Grown ==
    /\ Len(alerts') \in Nat /\ Len(alerts) <= Len(alerts') /\ Resolved \subseteq Resolved'
    /\ now' \in Nat /\ now <= now' /\ answered \subseteq answered'

\* A request that the step is not about.
Untouched(q) == op'[q] = op[q] /\ seen'[q] = seen[q] /\ known'[q] = known[q]

\* A request stays in order while others write.
LEMMA OthersStay ==
    ASSUME AInv, Grown, NEW q \in Requests, Untouched(q)
    PROVE  RequestOK(q)'
  <1>0. RequestOK(q) /\ Len(alerts) \in Nat /\ now \in Nat
    BY DEF AInv, AlertTyped
  <1>1. Resolver(q)'
    BY <1>0 DEF RequestOK, Resolver, Grown, Untouched
  <1>2. KnownOK(q)'
    BY <1>0 DEF RequestOK, KnownOK, Grown, Untouched
  <1>3. ListOK(q)'
    BY <1>0 DEF RequestOK, ListOK, Untouched
  <1>4. DashboardOK(q)'
    BY <1>0 DEF RequestOK, DashboardOK, Grown, Untouched
  <1> QED
    BY <1>1, <1>2, <1>3, <1>4 DEF RequestOK

\* A step that writes no alert and begins or advances no resolve_alert.
LEMMA TimesStay ==
    ASSUME AInv, UNCHANGED <<alerts, newest, overlapped, now>>,
           \A q \in Requests : op'[q] = "resolve" => op[q] = "resolve" /\ seen'[q] = seen[q]
    PROVE  TimesOK'
  <1>1. ASSUME NEW q \in Requests, NEW a, resolving(q, a)'
        PROVE  resolving(q, a) /\ seen'[q] = seen[q]
    BY <1>1 DEF resolving
  <1> QED
    BY <1>1 DEF AInv, TimesOK, Alone

\* A step that is about no alert and no request.
LEMMA AlertsStay ==
    ASSUME AInv, UNCHANGED <<alerts, now, op, seen, history>>
    PROVE  AInv'
  <1>1. Resolved' = Resolved
    BY DEF Resolved
  <1>2. Grown
    BY <1>1 DEF Grown, AInv, AlertTyped, history
  <1>3. \A q \in Requests : RequestOK(q)'
    BY <1>2, OthersStay DEF Untouched, history
  <1>4. TimesOK'
    BY TimesStay DEF history
  <1>5. AlertTyped' /\ (answered \subseteq Resolved)'
    BY <1>1 DEF AInv, AlertTyped, history
  <1> QED
    BY <1>3, <1>4, <1>5 DEF AInv

\* A request other than resolve_alert begins.
LEMMA BeginKeeps ==
    ASSUME AInv, NEW r \in Requests, NEW what, NEW first,
           Begin(r, what, first), alertsUnchanged, what # "resolve",
           RequestOK(r)'
    PROVE  AInv'
  <1>0. /\ op' = [op EXCEPT ![r] = what] /\ seen' = [seen EXCEPT ![r] = first]
        /\ DOMAIN known' = DOMAIN known /\ \A q \in Requests : q # r => known'[q] = known[q]
        /\ UNCHANGED <<alerts, newest, overlapped, now, answered>>
    BY DEF Begin, alertsUnchanged, AInv, AlertTyped
  <1>1. Resolved' = Resolved
    BY <1>0 DEF Resolved
  <1>2. Grown
    BY <1>0, <1>1 DEF Grown, AInv, AlertTyped
  <1>3. ASSUME NEW q \in Requests PROVE RequestOK(q)'
    <2>1. CASE q = r
      BY <2>1
    <2>2. CASE q # r
      <3>1. Untouched(q)
        BY <1>0, <2>2 DEF Untouched, AInv, AlertTyped
      <3> QED
        BY <1>2, <3>1, OthersStay
    <2> QED
      BY <2>1, <2>2
  <1>4. TimesOK'
    <2>1. ASSUME NEW q \in Requests, op'[q] = "resolve"
          PROVE  op[q] = "resolve" /\ seen'[q] = seen[q]
      BY <1>0, <2>1 DEF AInv, AlertTyped
    <2> QED
      BY <1>0, <2>1, TimesStay
  <1>5. AlertTyped' /\ (answered \subseteq Resolved)'
    BY <1>0, <1>1 DEF AInv, AlertTyped
  <1> QED
    BY <1>3, <1>4, <1>5 DEF AInv

\* A request other than resolve_alert goes on.
LEMMA AnswerKeeps ==
    ASSUME AInv, NEW r \in Requests, NEW next,
           Answer(r, next), alertsUnchanged, op[r] # "resolve",
           RequestOK(r)'
    PROVE  AInv'
  <1>0. /\ op' = op /\ seen' = [seen EXCEPT ![r] = Append(@, next)] /\ known' = known
        /\ UNCHANGED <<alerts, newest, overlapped, now, answered>>
    BY DEF Answer, alertsUnchanged
  <1>1. Resolved' = Resolved
    BY <1>0 DEF Resolved
  <1>2. Grown
    BY <1>0, <1>1 DEF Grown, AInv, AlertTyped
  <1>3. ASSUME NEW q \in Requests PROVE RequestOK(q)'
    <2>1. CASE q = r
      BY <2>1
    <2>2. CASE q # r
      <3>1. Untouched(q)
        BY <1>0, <2>2 DEF Untouched, AInv, AlertTyped
      <3> QED
        BY <1>2, <3>1, OthersStay
    <2> QED
      BY <2>1, <2>2
  <1>4. TimesOK'
    <2>1. ASSUME NEW q \in Requests, op'[q] = "resolve"
          PROVE  op[q] = "resolve" /\ seen'[q] = seen[q]
      BY <1>0, <2>1 DEF AInv, AlertTyped
    <2> QED
      BY <1>0, <2>1, TimesStay
  <1>5. AlertTyped' /\ (answered \subseteq Resolved)'
    BY <1>0, <1>1 DEF AInv, AlertTyped
  <1> QED
    BY <1>3, <1>4, <1>5 DEF AInv

-----------------------------------------------------------------------------
(* The actions. *)

\* What Begin and Answer do to their own request.
LEMMA BeginSets ==
    ASSUME AInv, NEW r \in Requests, NEW what, NEW first, Begin(r, what, first)
    PROVE  /\ op'[r] = what /\ seen'[r] = first /\ known'[r].resolved = answered
           /\ DOMAIN op' = Requests /\ DOMAIN seen' = Requests /\ DOMAIN known' = Requests
           /\ \A q \in Requests : q # r => Untouched(q)
  BY DEF AInv, AlertTyped, Begin, Untouched

LEMMA AnswerSets ==
    ASSUME AInv, NEW r \in Requests, NEW next, Answer(r, next)
    PROVE  /\ op' = op /\ seen'[r] = Append(seen[r], next) /\ known' = known
           /\ DOMAIN seen' = Requests
           /\ \A q \in Requests : q # r => Untouched(q)
  BY DEF AInv, AlertTyped, Answer, Untouched

\* The queries of metrics and of usage figures hold no alert.
LEMMA QueriesKeep ==
    ASSUME AInv, NEW r \in Requests,
           \/ query_metrics(r) \/ get_latest_metrics(r)
           \/ get_hypervisor_usage(r) \/ get_project_usage(r)
    PROVE  AInv'
  <1>1. ASSUME NEW what \in {"metrics", "latest", "hypervisors", "projects"}, NEW first,
               Begin(r, what, first), alertsUnchanged
        PROVE  AInv'
    <2>1. op'[r] = what /\ known'[r].resolved = answered /\ answered' = answered
      BY <1>1, BeginSets DEF alertsUnchanged
    <2>2. RequestOK(r)'
      BY <1>1, <2>1 DEF RequestOK, Resolver, KnownOK, ListOK, DashboardOK
    <2>3. what # "resolve"
      BY <1>1
    <2> QED
      BY <1>1, <2>2, <2>3, BeginKeeps
  <1>2. ASSUME NEW next, op[r] = "hypervisors", Answer(r, next), alertsUnchanged
        PROVE  AInv'
    <2>1. op' = op /\ known' = known /\ answered' = answered
      BY <1>2, AnswerSets DEF alertsUnchanged
    <2>2. KnownOK(r)
      BY DEF AInv, RequestOK
    <2>3. RequestOK(r)'
      BY <1>2, <2>1, <2>2 DEF RequestOK, Resolver, KnownOK, ListOK, DashboardOK
    <2>4. op[r] # "resolve"
      BY <1>2
    <2> QED
      BY <1>2, <2>3, <2>4, AnswerKeeps
  <1>3. CASE query_metrics(r)
    <2>1. PICK first : Begin(r, "metrics", first) /\ alertsUnchanged
      BY <1>3 DEF query_metrics
    <2> QED
      BY <1>1, <2>1
  <1>4. CASE get_latest_metrics(r)
    <2>1. PICK first : Begin(r, "latest", first) /\ alertsUnchanged
      BY <1>4 DEF get_latest_metrics
    <2> QED
      BY <1>1, <2>1
  <1>5. CASE get_hypervisor_usage(r)
    <2>1. CASE \E w \in window(1) : Begin(r, "hypervisors", <<w>>)
      <3>1. PICK first : Begin(r, "hypervisors", first) /\ alertsUnchanged
        BY <1>5, <2>1 DEF get_hypervisor_usage
      <3> QED
        BY <1>1, <3>1
    <2>2. CASE op[r] = "hypervisors" /\ \E w \in window(Len(seen[r]) + 1) : Answer(r, w)
      BY <1>2, <1>5, <2>2 DEF get_hypervisor_usage
    <2> QED
      BY <1>5, <2>1, <2>2 DEF get_hypervisor_usage
  <1>6. CASE get_project_usage(r)
    <2>1. PICK first : Begin(r, "projects", first) /\ alertsUnchanged
      BY <1>6 DEF get_project_usage
    <2> QED
      BY <1>1, <2>1
  <1> QED
    BY <1>3, <1>4, <1>5, <1>6

\* A list of the active alerts holds none that was answered for by then.
LEMMA ListKeeps ==
    ASSUME AInv, NEW r \in Requests, list_alerts(r)
    PROVE  AInv'
  <1>1. PICK S \in {DOMAIN alerts, active} :
           /\ Begin(r, "alerts", <<S = active, {a \in S : Cardinality({b \in S : b > a}) < Limit}>>)
           /\ alertsUnchanged
    BY DEF list_alerts
  <1> DEFINE all == S = active
             shown == {a \in S : Cardinality({b \in S : b > a}) < Limit}
  <1>2. /\ op'[r] = "alerts" /\ seen'[r] = <<all, shown>>
        /\ known'[r].resolved = answered /\ answered' = answered
    BY <1>1, BeginSets DEF alertsUnchanged
  <1>3. all = TRUE => \A a \in shown : a \notin answered
    BY ActiveAndResolved
  <1> HIDE DEF all, shown
  <1>4. seen'[r][1] = all /\ seen'[r][2] = shown
    BY <1>2
  <1>5. ListOK(r)'
    BY <1>2, <1>3, <1>4 DEF ListOK
  <1>6. RequestOK(r)'
    BY <1>2, <1>5 DEF RequestOK, Resolver, KnownOK, DashboardOK
  <1> QED
    BY <1>1, <1>6, BeginKeeps

\* A dashboard counts only what is neither answered for nor out of the table.
LEMMA DashboardKeeps ==
    ASSUME AInv, NEW r \in Requests, get_dashboard_summary(r)
    PROVE  AInv'
  <1>0. alertsUnchanged
    BY DEF get_dashboard_summary
  <1>1. CASE Begin(r, "dashboard", <<Cardinality(active)>>)
    <2> DEFINE n == Cardinality(active)
    <2>1. /\ op'[r] = "dashboard" /\ seen'[r] = <<n>>
          /\ known'[r].resolved = answered /\ answered' = answered /\ alerts' = alerts
      BY <1>0, <1>1, BeginSets DEF alertsUnchanged
    <2>2. n \in Nat /\ Cardinality(answered) \in Nat /\ n + Cardinality(answered) <= Len(alerts)
      BY ActiveAndResolved
    <2> HIDE DEF n
    <2>3. Collected(seen'[r]) /\ Len(seen'[r]) = 1 /\ seen'[r][1] = n
      BY ONLY <2>1, FirstAnswer
    <2>4. DashboardOK(r)'
      BY <2>1, <2>2, <2>3 DEF DashboardOK
    <2>5. RequestOK(r)'
      BY <2>1, <2>4 DEF RequestOK, Resolver, KnownOK, ListOK
    <2>6. Begin(r, "dashboard", <<n>>)
      BY <1>1 DEF n
    <2> QED
      BY <1>0, <2>5, <2>6, BeginKeeps
  <1>2. CASE /\ op[r] = "dashboard" /\ Len(seen[r]) = 1
             /\ \E instances \in {"listed", "zero"} : Answer(r, instances)
    <2>1. PICK next : Answer(r, next)
      BY <1>2
    <2>2. /\ op' = op /\ seen'[r] = Append(seen[r], next) /\ known' = known
          /\ answered' = answered /\ alerts' = alerts
      BY <1>0, <2>1, AnswerSets DEF alertsUnchanged
    <2>3. RequestOK(r)
      BY DEF AInv
    <2>4. /\ Collected(seen[r]) /\ Len(seen[r]) = 1 /\ seen[r][1] \in Nat
          /\ Cardinality(known[r].resolved) \in Nat
          /\ seen[r][1] + Cardinality(known[r].resolved) <= Len(alerts)
      BY <1>2, <2>3 DEF RequestOK, DashboardOK
    <2>5. Collected(seen'[r]) /\ Len(seen'[r]) = 2 /\ seen'[r][1] = seen[r][1]
      <3>1. /\ Collected(Append(seen[r], next))
            /\ Len(Append(seen[r], next)) = Len(seen[r]) + 1
            /\ \A i \in 1..Len(seen[r]) : Append(seen[r], next)[i] = seen[r][i]
        BY <2>4, OneMore
      <3>2. 1 \in 1..Len(seen[r])
        BY <2>4
      <3> QED
        BY <2>2, <2>4, <3>1, <3>2
    <2>6. DashboardOK(r)'
      BY <2>2, <2>4, <2>5 DEF DashboardOK
    <2>7. RequestOK(r)'
      BY <1>2, <2>2, <2>3, <2>6 DEF RequestOK, Resolver, KnownOK, ListOK
    <2>8. op[r] # "resolve"
      BY <1>2
    <2> QED
      BY <1>0, <2>1, <2>7, <2>8, AnswerKeeps
  <1> QED
    BY <1>1, <1>2 DEF get_dashboard_summary

\* A new alert is active, and no request resolves it yet.
LEMMA CreateKeeps ==
    ASSUME AInv, create_alert
    PROVE  AInv'
  <1> DEFINE n == Len(alerts)
             fresh == [status |-> "active", resolved_at |-> 0]
  <1>0. /\ alerts' = Append(alerts, fresh) /\ newest' = Append(newest, 0)
        /\ UNCHANGED <<now, op, seen, known, answered, overlapped>>
    BY DEF create_alert
  <1>1. alerts \in Seq(Alert) /\ newest \in Seq(Nat) /\ Len(newest) = n /\ now \in Nat \ {0}
    BY DEF AInv, AlertTyped
  <1>2. fresh \in Alert
    BY DEF Alert
  <1>3. /\ alerts' \in Seq(Alert) /\ Len(alerts') = n + 1 /\ n \in Nat
        /\ \A a \in 1..n : alerts'[a] = alerts[a]
        /\ alerts'[n + 1] = fresh
    BY <1>0, <1>1, <1>2
  <1>4. /\ newest' \in Seq(Nat) /\ Len(newest') = n + 1
        /\ \A a \in 1..n : newest'[a] = newest[a]
        /\ newest'[n + 1] = 0
    BY <1>0, <1>1
  <1>5. fresh.resolved_at = 0
    OBVIOUS
  <1> HIDE DEF fresh, n
  <1>6. Len(alerts) = n
    BY DEF n
  <1>7. Resolved \subseteq Resolved'
    BY <1>3, <1>6 DEF Resolved
  <1>8. Grown
    BY <1>0, <1>1, <1>3, <1>6, <1>7 DEF Grown
  <1>9. \A q \in Requests : RequestOK(q)'
    BY <1>0, <1>8, OthersStay DEF Untouched
  <1>10. ASSUME NEW a \in 1..Len(alerts') PROVE newest'[a] < now' /\ Alone(a)'
    <2>1. CASE a \in 1..n
      <3>1. newest[a] < now /\ Alone(a)
        BY <1>6, <2>1 DEF AInv, TimesOK
      <3>2. alerts'[a] = alerts[a] /\ newest'[a] = newest[a]
        BY <1>3, <1>4, <2>1
      <3> QED
        BY <1>0, <3>1, <3>2 DEF Alone, resolving
    <2>2. CASE a = n + 1
      <3>1. ASSUME NEW q \in Requests, resolving(q, a)' PROVE FALSE
        <4>1. Resolver(q)
          BY DEF AInv, RequestOK
        <4>2. op[q] = "resolve" /\ Len(seen[q]) \in {2, 3} /\ seen[q][1] = a
          BY <1>0, <3>1 DEF resolving
        <4>3. seen[q][1] \in 1..Len(alerts)
          <5>1. Len(seen[q]) # 1
            BY ONLY <4>2
          <5> QED
            BY <4>1, <4>2, <5>1 DEF Resolver
        <4> QED
          BY <1>3, <1>6, <2>2, <4>2, <4>3
      <3>2. newest'[a] = 0 /\ alerts'[a].resolved_at = 0
        BY <1>3, <1>4, <1>5, <2>2
      <3>3. newest'[a] < now'
        <4>1. now' = now /\ now > 0
          BY <1>0, <1>1
        <4> QED
          BY <3>2, <4>1
      <3>4. Alone(a)'
        BY <3>1, <3>2 DEF Alone
      <3> QED
        BY <3>3, <3>4
    <2> QED
      BY <1>3, <2>1, <2>2
  <1>11. AlertTyped'
    BY <1>0, <1>1, <1>3, <1>4 DEF AInv, AlertTyped
  <1>12. (answered \subseteq Resolved)'
    BY <1>0, <1>7 DEF AInv
  <1> QED
    BY <1>9, <1>10, <1>11, <1>12 DEF AInv, TimesOK

\* resolve_alert reads an alert and the time: it is the only one to do so, or the alert
\* counts as overlapped from now on.
LEMMA ResolveGetKeeps ==
    ASSUME AInv, NEW r \in Requests, NEW a \in 1..Len(alerts) + 1, ResolveGet(r, a)
    PROVE  AInv'
  <1>0. alerts' = alerts /\ answered' = answered /\ newest' = newest /\ op[r] = "none"
    BY DEF ResolveGet, comes
  <1>1. Resolved' = Resolved
    BY <1>0 DEF Resolved
  <1>2. Len(alerts) \in Nat /\ DOMAIN alerts = 1..Len(alerts) /\ now \in Nat
    BY DEF AInv, AlertTyped
  <1>3. ASSUME NEW first, Begin(r, "resolve", first), now' \in Nat, now <= now', Resolver(r)'
        PROVE  /\ \A q \in Requests : RequestOK(q)'
               /\ AlertTyped' /\ (answered \subseteq Resolved)'
    <2>0. /\ op'[r] = "resolve" /\ known'[r].resolved = answered
          /\ DOMAIN op' = Requests /\ DOMAIN seen' = Requests /\ DOMAIN known' = Requests
          /\ \A q \in Requests : q # r => Untouched(q)
      BY <1>3, BeginSets
    <2>1. Grown
      BY <1>0, <1>1, <1>2, <1>3 DEF Grown
    <2>2. RequestOK(r)'
      BY <1>0, <1>3, <2>0 DEF RequestOK, KnownOK, ListOK, DashboardOK
    <2>3. \A q \in Requests : RequestOK(q)'
      BY <2>0, <2>1, <2>2, OthersStay
    <2>4. now' # 0
      BY <1>2, <1>3 DEF AInv, AlertTyped
    <2>5. AlertTyped'
      BY <1>0, <1>3, <2>0, <2>4 DEF AInv, AlertTyped
    <2> QED
      BY <1>0, <1>1, <2>3, <2>5 DEF AInv
  <1>4. CASE a \in DOMAIN alerts
    <2>0. /\ Begin(r, "resolve", <<a, now>>) /\ now' = now + 1
          /\ overlapped' = IF \E q \in Requests : resolving(q, a)
                           THEN overlapped \cup {a} ELSE overlapped
      BY <1>4 DEF ResolveGet
    <2>1. /\ op'[r] = "resolve" /\ seen'[r] = <<a, now>>
          /\ \A q \in Requests : q # r => Untouched(q)
      BY <2>0, BeginSets
    <2>2. /\ Collected(seen'[r]) /\ Len(seen'[r]) = 2
          /\ seen'[r][1] = a /\ seen'[r][2] = now
      <3>1. seen'[r] = <<a, now>>
        BY <2>1
      <3>2. Collected(<<a, now>>) /\ Len(<<a, now>>) = 2
        BY FirstAnswers
      <3> QED
        BY <3>1, <3>2
    <2>3. Resolver(r)'
      <3>1. seen'[r][1] \in 1..Len(alerts') /\ seen'[r][2] \in Nat /\ seen'[r][2] < now'
        BY <1>0, <1>2, <1>4, <2>0, <2>2
      <3> QED
        BY <2>2, <3>1 DEF Resolver
    <2>4. ASSUME NEW q \in Requests, NEW b, q # r
          PROVE  resolving(q, b)' = resolving(q, b) /\ seen'[q] = seen[q]
      BY <2>1, <2>4 DEF Untouched, resolving
    <2>5. ASSUME NEW b, resolving(r, b)' PROVE b = a
      BY <2>2, <2>5 DEF resolving
    <2>6. ASSUME NEW b \in 1..Len(alerts') PROVE newest'[b] < now' /\ Alone(b)'
      <3>1. newest[b] < now /\ Alone(b) /\ newest[b] \in Nat
        BY <1>0, <2>6 DEF AInv, AlertTyped, TimesOK
      <3>2. newest'[b] < now'
        BY <1>0, <1>2, <2>0, <3>1
      <3>3. ASSUME b \notin overlapped' PROVE Alone(b)'
        <4>1. b \notin overlapped
          BY <2>0, <3>3
        <4>2. alerts'[b].resolved_at = newest'[b]
          BY <1>0, <3>1, <4>1 DEF Alone
        <4>3. ASSUME b = a, NEW q \in Requests, q # r PROVE ~resolving(q, b)'
          <5>1. ~ \E p \in Requests : resolving(p, a)
            BY <2>0, <3>3, <4>3
          <5> QED
            BY <2>4, <4>3, <5>1
        <4>4. ASSUME NEW p \in Requests, NEW q \in Requests, resolving(p, b)', resolving(q, b)'
              PROVE  p = q
          <5>1. CASE b = a
            BY <4>3, <4>4, <5>1
          <5>2. CASE b # a
            BY <2>4, <2>5, <3>1, <4>1, <4>4, <5>2 DEF Alone
          <5> QED
            BY <5>1, <5>2
        <4>5. ASSUME NEW p \in Requests, resolving(p, b)', Len(seen'[p]) = 2
              PROVE  newest'[b] < seen'[p][2]
          <5>1. CASE p = r
            BY <1>0, <2>2, <3>1, <5>1
          <5>2. CASE p # r
            BY <1>0, <2>4, <3>1, <4>1, <4>5, <5>2 DEF Alone
          <5> QED
            BY <5>1, <5>2
        <4> QED
          BY <4>2, <4>4, <4>5 DEF Alone
      <3>4. Alone(b)'
        BY <3>3 DEF Alone
      <3> QED
        BY <3>2, <3>4
    <2>7. now' \in Nat /\ now <= now'
      BY <1>2, <2>0
    <2> QED
      BY <1>3, <2>0, <2>3, <2>6, <2>7 DEF AInv, TimesOK
  <1>5. CASE a \notin DOMAIN alerts
    <2>0. Begin(r, "resolve", <<"not_found">>) /\ UNCHANGED <<now, overlapped>>
      BY <1>5 DEF ResolveGet
    <2>1. /\ op'[r] = "resolve" /\ seen'[r] = <<"not_found">>
          /\ \A q \in Requests : q # r => Untouched(q)
      BY <2>0, BeginSets
    <2>2. Collected(seen'[r]) /\ Len(seen'[r]) = 1
      <3>1. seen'[r] = <<"not_found">>
        BY <2>1
      <3> QED
        BY ONLY <3>1, FirstAnswer
    <2>3. Resolver(r)'
      BY <2>2 DEF Resolver
    <2>4. ASSUME NEW q \in Requests, NEW b, resolving(q, b)'
          PROVE  resolving(q, b) /\ seen'[q] = seen[q]
      BY <2>1, <2>2, <2>4 DEF Untouched, resolving
    <2>5. TimesOK'
      BY <1>0, <2>0, <2>4 DEF AInv, TimesOK, Alone
    <2> QED
      BY <1>2, <1>3, <2>0, <2>3, <2>5 DEF AInv
  <1> QED
    BY <1>4, <1>5

\* A commit stores a time newer than the newest, unless another resolve overlapped.
LEMMA ResolveCommitKeeps ==
    ASSUME AInv, NEW r \in Requests, ResolveCommit(r)
    PROVE  AInv'
  <1> DEFINE a == seen[r][1]
             t == seen[r][2]
             done == [status |-> "resolved", resolved_at |-> t]
  <1>0. /\ op[r] = "resolve" /\ Len(seen[r]) = 2
        /\ alerts' = [alerts EXCEPT ![a] = done]
        /\ newest' = [newest EXCEPT ![a] = IF t > @ THEN t ELSE @]
        /\ Answer(r, "committed") /\ UNCHANGED <<now, answered, overlapped>>
    BY DEF ResolveCommit
  <1>1. Collected(seen[r]) /\ a \in 1..Len(alerts) /\ t \in Nat /\ t < now
    <2>1. Resolver(r)
      BY DEF AInv, RequestOK
    <2>2. Len(seen[r]) # 1
      BY <1>0
    <2> QED
      BY <1>0, <2>1, <2>2 DEF Resolver
  <1>2. /\ op' = op /\ known' = known /\ DOMAIN seen' = Requests
        /\ seen'[r] = Append(seen[r], "committed")
        /\ \A q \in Requests : q # r => Untouched(q)
    BY <1>0, AnswerSets
  <1>3. /\ Collected(seen'[r]) /\ Len(seen'[r]) = 3 /\ seen'[r][1] = a /\ seen'[r][2] = t
    <2>1. /\ Collected(Append(seen[r], "committed"))
          /\ Len(Append(seen[r], "committed")) = Len(seen[r]) + 1
          /\ \A i \in 1..Len(seen[r]) : Append(seen[r], "committed")[i] = seen[r][i]
      BY <1>1, OneMore
    <2>2. 1 \in 1..Len(seen[r]) /\ 2 \in 1..Len(seen[r])
      BY <1>0
    <2> QED
      BY <1>0, <1>2, <2>1, <2>2
  <1>4. done \in Alert /\ done.status = "resolved" /\ done.resolved_at = t
    BY <1>1 DEF Alert
  <1>5. resolving(r, a)
    BY <1>0 DEF resolving
  <1> HIDE DEF a, t, done
  <1>6. /\ alerts \in Seq(Alert) /\ newest \in Seq(Nat) /\ Len(newest) = Len(alerts)
        /\ Len(alerts) \in Nat /\ now \in Nat
    BY DEF AInv, AlertTyped
  <1>7. /\ alerts' \in Seq(Alert) /\ Len(alerts') = Len(alerts) /\ alerts'[a] = done
        /\ \A b \in 1..Len(alerts) : b # a => alerts'[b] = alerts[b]
    BY <1>0, <1>1, <1>4, <1>6
  <1>8. /\ newest' \in Seq(Nat) /\ Len(newest') = Len(alerts)
        /\ newest'[a] = (IF t > newest[a] THEN t ELSE newest[a])
        /\ \A b \in 1..Len(alerts) : b # a => newest'[b] = newest[b]
    BY <1>0, <1>1, <1>6
  <1>9. Resolved \subseteq Resolved' /\ a \in Resolved'
    BY <1>1, <1>4, <1>7 DEF Resolved
  <1>10. Grown
    BY <1>0, <1>6, <1>7, <1>9 DEF Grown
  <1>11. RequestOK(r)'
    <2>1. KnownOK(r)'
      BY <1>0, <1>2 DEF AInv, RequestOK, KnownOK
    <2>2. Resolver(r)'
      <3>1. seen'[r][1] \in 1..Len(alerts') /\ seen'[r][2] \in Nat /\ seen'[r][2] < now'
        BY <1>0, <1>1, <1>3, <1>7
      <3> QED
        BY <1>3, <1>9, <3>1 DEF Resolver
    <2> QED
      BY <1>0, <1>2, <2>1, <2>2 DEF RequestOK, ListOK, DashboardOK
  <1>12. \A q \in Requests : RequestOK(q)'
    BY <1>2, <1>10, <1>11, OthersStay
  <1>13. ASSUME NEW q \in Requests, NEW b, resolving(q, b)' PROVE resolving(q, b)
    <2>1. CASE q = r
      BY <1>3, <1>5, <1>13, <2>1 DEF resolving
    <2>2. CASE q # r
      BY <1>2, <1>13, <2>2 DEF Untouched, resolving
    <2> QED
      BY <2>1, <2>2
  <1>14. ASSUME NEW b \in 1..Len(alerts') PROVE newest'[b] < now' /\ Alone(b)'
    <2>1. newest[b] < now /\ Alone(b) /\ newest[b] \in Nat /\ b \in 1..Len(alerts)
      BY <1>6, <1>7, <1>14 DEF AInv, TimesOK
    <2>2. newest'[b] < now'
      <3>1. CASE b = a
        BY <1>0, <1>1, <1>6, <1>8, <2>1, <3>1
      <3>2. CASE b # a
        BY <1>0, <1>8, <2>1, <3>2
      <3> QED
        BY <3>1, <3>2
    <2>3. ASSUME b \notin overlapped' PROVE Alone(b)'
      <3>0. b \notin overlapped
        BY <1>0, <2>3
      <3>1. ASSUME NEW p \in Requests, NEW q \in Requests, resolving(p, b)', resolving(q, b)'
            PROVE  p = q
        BY <1>13, <2>1, <3>0, <3>1 DEF Alone
      <3>2. CASE b = a
        <4>1. newest[a] < t
          <5>1. newest[a] < seen[r][2]
            BY <1>0, <1>5, <2>1, <3>0, <3>2 DEF Alone
          <5> QED
            BY <5>1 DEF t
        <4>2. newest'[a] = t
          BY <1>1, <1>8, <2>1, <3>2, <4>1
        <4>3. alerts'[b].resolved_at = newest'[b]
          BY <1>4, <1>7, <3>2, <4>2
        <4>4. ASSUME NEW p \in Requests, resolving(p, b)', Len(seen'[p]) = 2 PROVE FALSE
          <5>1. p = r
            BY <1>5, <1>13, <2>1, <3>0, <3>2, <4>4 DEF Alone
          <5>2. Len(seen'[r]) = 3 /\ Len(seen'[r]) = 2
            BY <1>3, <4>4, <5>1
          <5>3. 3 # 2
            OBVIOUS
          <5> QED
            BY ONLY <5>2, <5>3
        <4> QED
          BY <3>1, <4>3, <4>4 DEF Alone
      <3>3. CASE b # a
        <4>1. alerts'[b].resolved_at = newest'[b]
          BY <1>7, <1>8, <2>1, <3>0, <3>3 DEF Alone
        <4>2. ASSUME NEW p \in Requests, resolving(p, b)', Len(seen'[p]) = 2
              PROVE  newest'[b] < seen'[p][2]
          <5>1. p # r
            BY <1>3, <4>2
          <5>2. resolving(p, b) /\ seen'[p] = seen[p]
            BY <1>2, <1>13, <4>2, <5>1 DEF Untouched
          <5> QED
            BY <1>8, <2>1, <3>0, <3>3, <4>2, <5>2 DEF Alone
        <4> QED
          BY <3>1, <4>1, <4>2 DEF Alone
      <3> QED
        BY <3>2, <3>3
    <2>4. Alone(b)'
      BY <2>3 DEF Alone
    <2> QED
      BY <2>2, <2>4
  <1>15. AlertTyped'
    BY <1>0, <1>2, <1>7, <1>8 DEF AInv, AlertTyped
  <1>16. (answered \subseteq Resolved)'
    BY <1>0, <1>9 DEF AInv
  <1> QED
    BY <1>12, <1>14, <1>15, <1>16 DEF AInv, TimesOK

\* The answer is about an alert that the commit has resolved, and no commit makes it
\* active again.
LEMMA ResolveRefreshKeeps ==
    ASSUME AInv, NEW r \in Requests, ResolveRefresh(r)
    PROVE  AInv'
  <1> DEFINE a == seen[r][1]
             row == _serialize_alert(a)
  <1>0. /\ op[r] = "resolve" /\ Len(seen[r]) = 3 /\ Answer(r, row)
        /\ answered' = answered \cup {a} /\ UNCHANGED <<alerts, now, newest, overlapped>>
    BY DEF ResolveRefresh
  <1>1. /\ Collected(seen[r]) /\ a \in 1..Len(alerts) /\ a \in Resolved
        /\ seen[r][2] \in Nat /\ seen[r][2] < now
    <2>1. Resolver(r)
      BY DEF AInv, RequestOK
    <2>2. Len(seen[r]) # 1 /\ Len(seen[r]) # 2
      BY <1>0
    <2> QED
      BY <1>0, <2>1, <2>2 DEF Resolver
  <1> HIDE DEF row
  <1>2. /\ op' = op /\ known' = known /\ DOMAIN seen' = Requests
        /\ seen'[r] = Append(seen[r], row)
        /\ \A q \in Requests : q # r => Untouched(q)
    BY <1>0, AnswerSets
  <1>3. /\ Collected(seen'[r]) /\ Len(seen'[r]) = 4
        /\ seen'[r][1] = a /\ seen'[r][2] = seen[r][2]
    <2>1. /\ Collected(Append(seen[r], row))
          /\ Len(Append(seen[r], row)) = Len(seen[r]) + 1
          /\ \A i \in 1..Len(seen[r]) : Append(seen[r], row)[i] = seen[r][i]
      BY <1>1, OneMore
    <2>2. 1 \in 1..Len(seen[r]) /\ 2 \in 1..Len(seen[r])
      BY <1>0
    <2> QED
      BY <1>0, <1>2, <2>1, <2>2
  <1> HIDE DEF a
  <1>4. Resolved' = Resolved
    BY <1>0 DEF Resolved
  <1>5. Grown
    BY <1>0, <1>4 DEF Grown, AInv, AlertTyped
  <1>6. RequestOK(r)'
    <2>1. KnownOK(r)'
      BY <1>0, <1>2 DEF AInv, RequestOK, KnownOK
    <2>2. Resolver(r)'
      BY <1>0, <1>1, <1>3, <1>4 DEF Resolver
    <2> QED
      BY <1>0, <1>2, <2>1, <2>2 DEF RequestOK, ListOK, DashboardOK
  <1>7. \A q \in Requests : RequestOK(q)'
    BY <1>2, <1>5, <1>6, OthersStay
  <1>8. ASSUME NEW q \in Requests, NEW b, resolving(q, b)'
        PROVE  resolving(q, b) /\ seen'[q] = seen[q]
    <2>1. Len(seen'[q]) \in {2, 3}
      BY <1>8 DEF resolving
    <2>2. q # r
      BY <1>3, <2>1
    <2> QED
      BY <1>2, <1>8, <2>2 DEF Untouched, resolving
  <1>9. TimesOK'
    BY <1>0, <1>8 DEF AInv, TimesOK, Alone
  <1>10. AlertTyped' /\ (answered \subseteq Resolved)'
    BY <1>0, <1>1, <1>2, <1>4 DEF AInv, AlertTyped
  <1> QED
    BY <1>7, <1>9, <1>10 DEF AInv

\* Every step of the service keeps the invariant.
LEMMA NextAlerts == AInv /\ [MonitoringNext]_monitoringVars => AInv'
  <1> SUFFICES ASSUME AInv, [MonitoringNext]_monitoringVars PROVE AInv'
    OBVIOUS
  <1>1. CASE \E reading \in Readings : record_metric(reading)
    BY <1>1, AlertsStay DEF record_metric, readUnchanged
  <1>2. CASE collect_hypervisor_metrics
    BY <1>2, AlertsStay DEF collect_hypervisor_metrics, record_metric, readUnchanged
  <1>3. CASE FlushOnTimeout \/ Time
    BY <1>3, AlertsStay DEF FlushOnTimeout, Time, readUnchanged
  <1>4. CASE create_alert
    BY <1>4, CreateKeeps
  <1>5. ASSUME NEW r \in Requests, Request(r) PROVE AInv'
    <2>1. CASE \E a \in 1..Len(alerts) + 1 : ResolveGet(r, a)
      BY <2>1, ResolveGetKeeps
    <2> QED
      BY <1>5, <2>1, QueriesKeep, ListKeeps, DashboardKeeps, ResolveCommitKeeps, ResolveRefreshKeeps
         DEF Request
  <1>6. CASE UNCHANGED monitoringVars
    BY <1>6, AlertsStay DEF monitoringVars
  <1> QED
    BY <1>1, <1>2, <1>3, <1>4, <1>5, <1>6 DEF MonitoringNext

\* The invariant says what the lists and dashboards show of answered alerts.
LEMMA AlertsFollow == AInv => AlertsExplained
  <1> SUFFICES ASSUME AInv PROVE AlertsExplained
    OBVIOUS
  <1>1. ASSUME NEW r \in Requests, op[r] = "alerts" /\ seen[r][1]
        PROVE  seen[r][2] \cap known[r].resolved = {}
    <2>1. seen[r][1] = TRUE
      BY <1>1
    <2>2. \A a \in seen[r][2] : a \notin known[r].resolved
      BY <1>1, <2>1 DEF AInv, RequestOK, ListOK
    <2> QED
      BY <2>2
  <1>2. ASSUME NEW r \in Requests, op[r] = "dashboard"
        PROVE  seen[r][1] <= Len(alerts) - Cardinality(known[r].resolved)
    <2>1. /\ seen[r][1] \in Nat /\ Cardinality(known[r].resolved) \in Nat
          /\ seen[r][1] + Cardinality(known[r].resolved) <= Len(alerts) /\ Len(alerts) \in Nat
      BY <1>2 DEF AInv, AlertTyped, RequestOK, DashboardOK
    <2> QED
      BY <2>1
  <1>3. ASSUME NEW a \in DOMAIN alerts, alerts[a].resolved_at < newest[a]
        PROVE  a \in overlapped
    <2>1. a \in 1..Len(alerts) /\ newest[a] \in Nat
      BY <1>3 DEF AInv, AlertTyped
    <2>2. Alone(a)
      BY <2>1 DEF AInv, TimesOK
    <2> QED
      BY <1>3, <2>1, <2>2 DEF Alone
  <1> QED
    BY <1>1, <1>2, <1>3 DEF AlertsExplained

\* resolve_alert, list_alerts and get_dashboard_summary: for any number of requests and
\* alerts, an alert that resolve_alert has answered for is not active in a list or
\* dashboard asked for afterwards, and its resolved_at goes back in time only if two
\* requests were resolving it at once.
THEOREM AlertsDoExplain == MonitoringSpec => []AlertsExplained
  BY InitAlerts, NextAlerts, AlertsFollow, PTL DEF MonitoringSpec

-----------------------------------------------------------------------------
(* Least numbers, and sequences that fall. *)

\* A set of natural numbers that has a member has a least one.
LEMMA Least ==
    ASSUME NEW T, T \subseteq Nat, T # {}
    PROVE  \E x \in T : \A y \in T : x <= y
  <1>1. \E x \in T : \A y \in T : ~ (<<y, x>> \in OpToRel(<, Nat))
    BY NatLessThanWellFounded, WFMin
  <1>2. PICK x \in T : \A y \in T : ~ (<<y, x>> \in OpToRel(<, Nat))
    BY <1>1
  <1>3. ASSUME NEW y \in T PROVE x <= y
    <2>1. x \in Nat /\ y \in Nat
      OBVIOUS
    <2>2. ~(y < x)
      <3>1. y < x => <<y, x>> \in OpToRel(<, Nat)
        BY <2>1 DEF OpToRel
      <3> QED
        BY <1>2, <3>1
    <2> QED
      BY <2>1, <2>2
  <1> QED
    BY <1>3

\* A sequence of numbers none of which is below its successor falls throughout.
LEMMA Falling ==
    ASSUME NEW n \in Nat, NEW a \in [1..n -> Nat],
           \A i \in 1..n - 1 : a[i] >= a[i + 1],
           NEW i \in 1..n, NEW j \in 1..n, i < j
    PROVE  a[i] >= a[j]
  <1> DEFINE T == {k \in 1..n : i < k /\ a[i] < a[k]}
  <1> SUFFICES ASSUME a[i] < a[j] PROVE FALSE
    OBVIOUS
  <1>1. T \subseteq Nat /\ j \in T
    OBVIOUS
  <1> HIDE DEF T
  <1>2. PICK k \in T : \A l \in T : k <= l
    BY <1>1, Least
  <1> USE DEF T
  <1>3. k \in 1..n /\ i < k /\ a[i] < a[k]
    OBVIOUS
  <1>4. PICK h \in 1..n : h = k - 1
    BY <1>3
  <1>5. h \in 1..n - 1 /\ h + 1 = k
    BY <1>3, <1>4
  <1>6. a[h] >= a[k]
    BY <1>5
  <1>7. CASE h = i
    BY <1>3, <1>6, <1>7
  <1>8. CASE h # i
    <2>1. h \in T
      BY <1>3, <1>4, <1>6, <1>8
    <2> QED
      BY <1>2, <1>4, <2>1
  <1> QED
    BY <1>7, <1>8

-----------------------------------------------------------------------------
(* What a query of the newest rows returns. *)

\* A sequence of the rows in S of a table, newest first, that leaves a row numbered up
\* to m out only when it has n rows, none of them older.
Window(table, w, S, n, m) ==
    /\ Len(w) \in Nat /\ Len(w) <= n /\ DOMAIN w = 1..Len(w)
    /\ \A i \in 1..Len(w) : w[i] \in S
    /\ \A i, j \in 1..Len(w) : w[i] = w[j] => i = j
    /\ \A i, j \in 1..Len(w) : i < j => table[w[i]].at >= table[w[j]].at
    /\ \A x \in S : x <= m /\ (\A i \in 1..Len(w) : w[i] # x) =>
          /\ Len(w) = n
          /\ \A i \in 1..Len(w) : table[w[i]].at >= table[x].at

\* The rows of a table, their times below some bound.
Rows(table) ==
    /\ Len(table) \in Nat /\ DOMAIN table = 1..Len(table)
    /\ \E top \in Nat : \A i \in 1..Len(table) : table[i].at \in Nat /\ table[i].at <= top

\* The table `later` has the rows of `table` and perhaps more.
Grows(table, later) ==
    /\ Len(table) <= Len(later)
    /\ \A i \in 1..Len(table) : later[i] = table[i]

\* An answer remains the window it was while rows are added to the table.
LEMMA WindowStays ==
    ASSUME NEW t, NEW u, Rows(t), Rows(u), Grows(t, u),
           NEW w, NEW S, NEW T, NEW n \in Nat, NEW m \in Nat, m <= Len(t),
           S \subseteq 1..Len(t), S \subseteq T, T \subseteq 1..Len(u),
           \A x \in T : x <= Len(t) => x \in S,
           Window(t, w, S, n, m)
    PROVE  Window(u, w, T, n, m)
  <1>1. \A x \in S : u[x] = t[x]
    BY DEF Grows
  <1>2. \A i \in 1..Len(w) : w[i] \in S /\ w[i] \in T /\ u[w[i]] = t[w[i]]
    BY <1>1 DEF Window
  <1>3. ASSUME NEW i \in 1..Len(w), NEW j \in 1..Len(w), i < j
        PROVE  u[w[i]].at >= u[w[j]].at
    BY <1>2, <1>3 DEF Window
  <1>4. ASSUME NEW x \in T, x <= m, \A i \in 1..Len(w) : w[i] # x
        PROVE  /\ Len(w) = n
               /\ \A i \in 1..Len(w) : u[w[i]].at >= u[x].at
    <2>1. x \in S
      BY <1>4 DEF Rows
    <2> QED
      BY <1>1, <1>2, <1>4, <2>1 DEF Window
  <1> QED
    BY <1>2, <1>3, <1>4 DEF Window

\* Numbers of rows form a finite set.
LEMMA RowSets ==
    ASSUME NEW n \in Nat, NEW S, S \subseteq 1..n
    PROVE  IsFiniteSet(S) /\ Cardinality(S) \in Nat
  <1>1. IsFiniteSet(1..n)
    <2>1. 1 \in Int /\ n \in Int
      OBVIOUS
    <2> QED
      BY ONLY <2>1, FS_Interval
  <1>2. IsFiniteSet(S)
    BY <1>1, FS_Subset
  <1> QED
    BY <1>2, FS_CardinalityType

\* An arrangement of a finite set leaves no element out.
LEMMA Arranged ==
    ASSUME NEW S, IsFiniteSet(S), NEW s \in SetToSeqs(S)
    PROVE  /\ s \in [1..Cardinality(S) -> S] /\ Cardinality(S) \in Nat /\ Len(s) = Cardinality(S)
           /\ \A i, j \in 1..Cardinality(S) : s[i] = s[j] => i = j
           /\ \A x \in S : \E i \in 1..Cardinality(S) : s[i] = x
  <1> DEFINE N == Cardinality(S)
  <1>1. s \in [1..N -> S] /\ \A i, j \in 1..N : s[i] = s[j] => i = j
    BY DEF SetToSeqs
  <1>2. N \in Nat
    BY FS_CardinalityType
  <1> HIDE DEF N
  <1>3. Len(s) = N
    BY <1>1, <1>2
  <1>4. IsFiniteSet(1..N) /\ Cardinality(1..N) = N
    <2>1. 1 \in Int /\ N \in Int
      BY <1>2
    <2>2. IsFiniteSet(1..N) /\ Cardinality(1..N) = (IF 1 > N THEN 0 ELSE N - 1 + 1)
      BY ONLY <2>1, FS_Interval
    <2> QED
      BY <1>2, <2>2
  <1>5. ASSUME NEW x \in S, \A i \in 1..N : s[i] # x PROVE FALSE
    <2>2. IsFiniteSet(S \ {x}) /\ Cardinality(S \ {x}) = N - 1
      BY FS_RemoveElement DEF N
    <2>3. s \in [1..N -> S \ {x}]
      BY <1>1, <1>5
    <2>4. N - 1 < N /\ Cardinality(S \ {x}) < Cardinality(1..N)
      BY <1>2, <1>4, <2>2
    <2>5. \E i, j \in 1..N : i # j /\ s[i] = s[j]
      BY <1>4, <2>2, <2>3, <2>4, FS_PigeonHole
    <2> QED
      BY <1>1, <2>5
  <1> QED
    BY <1>1, <1>2, <1>3, <1>5 DEF N

\* Every answer of ORDER BY recorded_at DESC LIMIT n is a window of the rows of now.
LEMMA Newest ==
    ASSUME Rows(rows), NEW S, S \subseteq 1..Len(rows), NEW n \in Nat, NEW w \in NewestRows(S, n)
    PROVE  Window(rows, w, S, n, Len(rows))
  <1>1. IsFiniteSet(S)
    BY RowSets DEF Rows
  <1>2. PICK s \in SetToSeqs(S) :
           /\ \A i \in 1..Len(s) - 1 : rows[s[i]].at >= rows[s[i + 1]].at
           /\ w = firstRows(s, n)
    BY DEF NewestRows
  <1> DEFINE N == Cardinality(S)
             a == [i \in 1..N |-> rows[s[i]].at]
             L == IF N < n THEN N ELSE n
  <1>3. /\ s \in [1..N -> S] /\ N \in Nat /\ Len(s) = N
        /\ \A i, j \in 1..N : s[i] = s[j] => i = j
        /\ \A x \in S : \E i \in 1..N : s[i] = x
    BY <1>1, Arranged
  <1> HIDE DEF N
  <1>4. a \in [1..N -> Nat]
    BY <1>3 DEF Rows
  <1>5. ASSUME NEW i \in 1..N - 1 PROVE a[i] >= a[i + 1]
    <2>1. i \in 1..N /\ i + 1 \in 1..N /\ i \in 1..Len(s) - 1
      BY <1>3
    <2> QED
      BY <1>2, <2>1
  <1> HIDE DEF a
  <1>6. \A i, j \in 1..N : i < j => a[i] >= a[j]
    BY <1>3, <1>4, <1>5, Falling
  <1>7. ASSUME NEW i \in 1..N, NEW j \in 1..N, i < j PROVE rows[s[i]].at >= rows[s[j]].at
    BY <1>6, <1>7 DEF a
  <1>8. L \in Nat /\ L <= n /\ L <= N /\ (L # n => L = N)
    BY <1>3
  <1>9. s \in Seq(S) /\ w = SubSeq(s, 1, L)
    BY <1>2, <1>3 DEF firstRows
  <1> HIDE DEF L
  <1>10. Len(w) = L /\ DOMAIN w = 1..L /\ \A i \in 1..L : w[i] = s[i]
    BY <1>3, <1>8, <1>9
  <1>11. \A i \in 1..L : i \in 1..N
    BY <1>3, <1>8
  <1>12. ASSUME NEW x \in S, \A i \in 1..L : w[i] # x
         PROVE  L = n /\ \A i \in 1..L : rows[w[i]].at >= rows[x].at
    <2>1. PICK k \in 1..N : s[k] = x
      BY <1>3
    <2>2. k \notin 1..L
      BY <1>10, <1>12, <2>1
    <2>3. L < k /\ L # N
      BY <1>3, <1>8, <2>2
    <2>4. \A i \in 1..L : i < k
      BY <1>8, <2>3
    <2> QED
      BY <1>7, <1>8, <1>10, <1>11, <2>1, <2>3, <2>4
  <1>13. \A i \in 1..L : w[i] \in S
    BY <1>3, <1>10, <1>11
  <1>14. \A i, j \in 1..L : w[i] = w[j] => i = j
    BY <1>3, <1>10, <1>11
  <1>15. \A i, j \in 1..L : i < j => rows[w[i]].at >= rows[w[j]].at
    BY <1>7, <1>10, <1>11
  <1> QED
    BY <1>8, <1>10, <1>12, <1>13, <1>14, <1>15 DEF Window

-----------------------------------------------------------------------------
(* The figures that are taken from a window. *)

\* 1..n has n members.
LEMMA Counts ==
    ASSUME NEW n \in Nat
    PROVE  IsFiniteSet(1..n) /\ Cardinality(1..n) = n
  <1>1. 1 \in Int /\ n \in Int
    OBVIOUS
  <1>2. IsFiniteSet(1..n) /\ Cardinality(1..n) = (IF 1 > n THEN 0 ELSE n - 1 + 1)
    BY ONLY <1>1, FS_Interval
  <1> QED
    BY <1>2

\* firstOf returns the first row of S, or 0 if there is none.
LEMMA First ==
    ASSUME NEW w, NEW S, Len(w) \in Nat, DOMAIN w = 1..Len(w)
    PROVE  \/ /\ firstOf(w, S) = 0
              /\ \A i \in 1..Len(w) : w[i] \notin S
           \/ \E i \in 1..Len(w) : /\ firstOf(w, S) = w[i] /\ w[i] \in S
                                   /\ \A j \in 1..i - 1 : w[j] \notin S
  <1>1. CASE \A i \in DOMAIN w : w[i] \notin S
    BY <1>1 DEF firstOf
  <1>2. CASE \E i \in DOMAIN w : w[i] \in S
    <2> DEFINE T == {i \in 1..Len(w) : w[i] \in S}
               P(i) == w[i] \in S /\ \A j \in 1..i - 1 : w[j] \notin S
    <2>1. T \subseteq Nat /\ T # {}
      BY <1>2
    <2> HIDE DEF T
    <2>2. PICK k \in T : \A l \in T : k <= l
      BY <2>1, Least
    <2> USE DEF T
    <2>3. k \in DOMAIN w /\ P(k)
      BY <2>2
    <2>4. firstOf(w, S) = w[CHOOSE i \in DOMAIN w : P(i)]
      BY <1>2 DEF firstOf
    <2> HIDE DEF P
    <2>5. PICK i : i = CHOOSE h \in DOMAIN w : P(h)
      OBVIOUS
    <2>6. i \in DOMAIN w /\ P(i)
      BY <2>3, <2>5
    <2> QED
      BY <2>4, <2>5, <2>6 DEF P
  <1> QED
    BY <1>1, <1>2

\* lastOf returns a row of S, or 0 if there is none.
LEMMA Latest ==
    ASSUME NEW w, NEW S, Len(w) \in Nat, DOMAIN w = 1..Len(w)
    PROVE  \/ /\ lastOf(w, S) = 0
              /\ \A i \in 1..Len(w) : w[i] \notin S
           \/ \E i \in 1..Len(w) : lastOf(w, S) = w[i] /\ w[i] \in S
  <1> DEFINE L == Len(w)
             v == Reverse(w)
  <1>1. v = [i \in 1..L |-> w[(L - i) + 1]]
    BY DEF Reverse
  <1>2. v \in [1..L -> {w[i] : i \in 1..L}]
    <2>1. \A i \in 1..L : (L - i) + 1 \in 1..L
      OBVIOUS
    <2> QED
      BY <1>1, <2>1
  <1>3. Len(v) = L /\ DOMAIN v = 1..L
    BY <1>2
  <1>4. \A i \in 1..L : v[i] = w[(L - i) + 1] /\ (L - i) + 1 \in 1..L
    BY <1>1
  <1>5. \A i \in 1..L : \E j \in 1..L : w[i] = v[j]
    <2>1. ASSUME NEW i \in 1..L PROVE \E j \in 1..L : w[i] = v[j]
      <3>1. PICK j \in 1..L : j = (L - i) + 1
        OBVIOUS
      <3>2. (L - j) + 1 = i
        BY <3>1
      <3> QED
        BY <1>4, <3>2
    <2> QED
      BY <2>1
  <1>6. \A i \in 1..L : \E j \in 1..L : v[i] = w[j]
    BY <1>4
  <1> HIDE DEF v, L
  <1>7. \/ firstOf(v, S) = 0 /\ \A i \in 1..L : v[i] \notin S
        \/ \E i \in 1..L : firstOf(v, S) = v[i] /\ v[i] \in S
    <2>1. Len(v) \in Nat /\ DOMAIN v = 1..Len(v)
      BY <1>3 DEF L
    <2> QED
      BY <1>3, <2>1, First
  <1>8. lastOf(w, S) = firstOf(v, S)
    BY DEF lastOf, v
  <1> QED
    BY <1>5, <1>6, <1>7, <1>8 DEF L

\* A window without a row of `own`: the others filled it.
LEMMA NoneOwn ==
    ASSUME Rows(rows), NEW r, known[r].rows \in Nat, NEW n \in Nat,
           NEW S, S \subseteq 1..Len(rows), NEW own, own \subseteq S,
           NEW w, Window(rows, w, S, n, known[r].rows),
           \A i \in 1..Len(w) : w[i] \notin own
    PROVE  pushedOut(r, S, own, n)
  <1> SUFFICES ASSUME NEW i \in own, i <= known[r].rows
               PROVE  Cardinality({j \in S \ own : rows[j].at >= rows[i].at}) >= n
    BY DEF pushedOut
  <1> DEFINE D == {j \in S \ own : rows[j].at >= rows[i].at}
             f == [k \in 1..n |-> w[k]]
  <1>1. Len(w) = n /\ \A k \in 1..n : w[k] \in S /\ rows[w[k]].at >= rows[i].at
    BY DEF Window
  <1>2. \A k \in 1..n : w[k] \in D
    BY <1>1
  <1>3. IsFiniteSet(D) /\ Cardinality(D) \in Nat
    <2>1. Len(rows) \in Nat /\ D \subseteq 1..Len(rows)
      BY DEF Rows
    <2> QED
      BY <2>1, RowSets
  <1> HIDE DEF D
  <1>4. f \in [1..n -> D] /\ \A k, l \in 1..n : f[k] = f[l] => k = l
    BY <1>1, <1>2 DEF Window
  <1> HIDE DEF f
  <1>5. f \in Injection(1..n, D)
    BY <1>4 DEF Injection, IsInjective
  <1>6. Cardinality(1..n) <= Cardinality(D)
    BY <1>3, <1>5, FS_Injection
  <1>7. n <= Cardinality(D)
    BY <1>6, Counts
  <1> QED
    BY <1>3, <1>7 DEF D

\* Fewer than n rows of the query are newer than a row of its window.
LEMMA FewNewer ==
    ASSUME Rows(rows), NEW r, known[r].rows \in Nat, NEW n \in Nat,
           NEW S, S \subseteq 1..Len(rows),
           NEW w, Window(rows, w, S, n, known[r].rows), NEW k \in 1..Len(w)
    PROVE  Cardinality(newer(r, S, w[k])) < n
  <1> DEFINE D == newer(r, S, w[k])
             L == Len(w)
             K == (1..L) \ {k}
             g == [j \in D |-> CHOOSE i \in K : w[i] = j]
  <1>1. L \in Nat /\ L <= n /\ w[k] \in S /\ \A i \in 1..L : w[i] \in S
    BY DEF Window
  <1>2. \A i \in S : rows[i].at \in Nat
    BY DEF Rows
  <1>3. ASSUME NEW j \in D PROVE \E i \in K : w[i] = j
    <2>1. j \in S /\ j <= known[r].rows /\ rows[j].at > rows[w[k]].at
      BY DEF newer
    <2>2. ~(rows[w[k]].at >= rows[j].at)
      BY <1>1, <1>2, <2>1
    <2>3. \E i \in 1..L : w[i] = j
      BY <2>1, <2>2 DEF Window
    <2>4. w[k] # j
      BY <1>1, <1>2, <2>1
    <2> QED
      BY <2>3, <2>4
  <1>4. IsFiniteSet(K) /\ Cardinality(K) = L - 1
    <2>1. IsFiniteSet(1..L) /\ Cardinality(1..L) = L
      BY <1>1, Counts
    <2> QED
      BY <2>1, FS_RemoveElement
  <1> HIDE DEF D, K
  <1>5. \A j \in D : g[j] \in K /\ w[g[j]] = j
    BY <1>3
  <1>6. g \in [D -> K]
    BY <1>5
  <1> HIDE DEF g
  <1>7. g \in Injection(D, K)
    BY <1>5, <1>6 DEF Injection, IsInjective
  <1>8. IsFiniteSet(D) /\ Cardinality(D) <= L - 1
    BY <1>4, <1>7, FS_Injection
  <1>9. Cardinality(D) \in Nat
    BY <1>8, FS_CardinalityType
  <1>10. Cardinality(D) < n
    BY <1>1, <1>8, <1>9
  <1> QED
    BY <1>10 DEF D

\* The figure that the dicts keep is less than one window behind, or was pushed out.
LEMMA Within ==
    ASSUME Rows(rows), NEW r, known[r].rows \in Nat, NEW n \in Nat,
           NEW S, S \subseteq 1..Len(rows), NEW own, own \subseteq S,
           NEW w, Window(rows, w, S, n, known[r].rows),
           NEW A, \A i \in S : i \in A <=> i \in own
    PROVE  withinWindow(r, lastOf(w, A), S, own, n)
  <1>1. Len(w) \in Nat /\ DOMAIN w = 1..Len(w) /\ \A i \in 1..Len(w) : w[i] \in S
    BY DEF Window
  <1>2. PICK f : f = lastOf(w, A)
    OBVIOUS
  <1>3. CASE f = 0 /\ \A i \in 1..Len(w) : w[i] \notin A
    <2>1. pushedOut(r, S, own, n)
      BY <1>1, <1>3, NoneOwn
    <2> QED
      BY <1>2, <1>3, <2>1 DEF withinWindow
  <1>4. CASE \E i \in 1..Len(w) : f = w[i] /\ w[i] \in A
    <2>1. PICK i \in 1..Len(w) : f = w[i] /\ w[i] \in A
      BY <1>4
    <2>2. f \in own /\ f # 0
      <3>1. f \in S /\ f \in own
        BY <1>1, <2>1
      <3>2. f \in 1..Len(rows) /\ Len(rows) \in Nat
        BY <3>1 DEF Rows
      <3> QED
        BY <3>1, <3>2
    <2>3. Cardinality(newer(r, S, f)) < n
      BY <2>1, FewNewer
    <2> QED
      BY <1>2, <2>2, <2>3 DEF withinWindow
  <1> QED
    BY <1>1, <1>2, <1>3, <1>4, Latest

\* No row of `own` is newer than the first one of the window.
LEMMA FirstIsNewest ==
    ASSUME Rows(rows), NEW r, known[r].rows \in Nat, NEW n \in Nat,
           NEW S, S \subseteq 1..Len(rows), NEW own, own \subseteq S,
           NEW w, Window(rows, w, S, n, known[r].rows),
           NEW A, \A i \in S : i \in A <=> i \in own,
           NEW h \in 1..Len(w), w[h] \in A
    PROVE  newer(r, own, firstOf(w, A)) = {}
  <1>1. Len(w) \in Nat /\ DOMAIN w = 1..Len(w) /\ \A i \in 1..Len(w) : w[i] \in S
    BY DEF Window
  <1>2. PICK k \in 1..Len(w) : /\ firstOf(w, A) = w[k] /\ w[k] \in A
                               /\ \A j \in 1..k - 1 : w[j] \notin A
    BY <1>1, First
  <1>3. ASSUME NEW j \in newer(r, own, w[k]) PROVE FALSE
    <2>1. j \in own /\ j \in S /\ j <= known[r].rows /\ rows[j].at > rows[w[k]].at
      BY DEF newer
    <2>2. rows[j].at \in Nat /\ rows[w[k]].at \in Nat
      BY <1>1, <2>1 DEF Rows
    <2>3. ~(rows[w[k]].at >= rows[j].at)
      BY <2>1, <2>2
    <2>4. PICK i \in 1..Len(w) : w[i] = j
      BY <2>1, <2>3 DEF Window
    <2>5. i \notin 1..k - 1 /\ i # k
      BY <1>2, <2>1, <2>2, <2>4
    <2>6. k < i
      BY <1>1, <2>5
    <2> QED
      BY <2>3, <2>4, <2>6 DEF Window
  <1> QED
    BY <1>2, <1>3

-----------------------------------------------------------------------------
(* The answers of the metric queries while rows are added. *)

\* For every metric of its list that a usage report has asked for, a window of the rows.
UsageOK(r) ==
    op[r] = "hypervisors" =>
        /\ Collected(seen[r]) /\ Len(seen[r]) \in 1..4
        /\ \A k \in 1..Len(seen[r]) :
              Window(rows, seen[r][k], named(HypervisorMetrics[k]), UsageWindow, known[r].rows)

ProjectOK(r) ==
    op[r] = "projects" => Window(rows, seen[r][1], projectRows, ProjectWindow, known[r].rows)

MetricsOK(r) ==
    op[r] = "metrics" =>
        /\ seen[r][1] \subseteq 1..known[r].rows
        /\ Window(rows, seen[r][2], seen[r][1], Limit, known[r].rows)

LatestOK(r) ==
    op[r] = "latest" =>
        /\ seen[r][1] \subseteq 1..Len(rows) /\ seen[r][2] \subseteq 1..Len(rows)
        /\ \A i \in seen[r][1] : \E j \in seen[r][2] :
              rows[j].metric = rows[i].metric /\ rows[j].at >= rows[i].at

FigureOK(r) ==
    /\ known[r].rows \in Nat /\ known[r].rows <= Len(rows)
    /\ UsageOK(r) /\ ProjectOK(r) /\ MetricsOK(r) /\ LatestOK(r)

FInv ==
    /\ Collected(rows) /\ Rows(rows) /\ Collected(batch)
    /\ \A r \in Requests : FigureOK(r)

\* Two sequences in one.
LEMMA Joined ==
    ASSUME NEW s, Collected(s), NEW t, Collected(t)
    PROVE  /\ Collected(s \o t) /\ Len(s \o t) = Len(s) + Len(t)
           /\ Len(s) \in Nat /\ Len(t) \in Nat /\ DOMAIN s = 1..Len(s) /\ DOMAIN t = 1..Len(t)
           /\ DOMAIN (s \o t) = 1..Len(s) + Len(t)
           /\ \A i \in 1..Len(s) : (s \o t)[i] = s[i]
           /\ \A i \in 1..Len(s) + Len(t) : i > Len(s) => (s \o t)[i] = t[i - Len(s)]
  <1>1. PICK A : s \in Seq(A)
    BY DEF Collected
  <1>2. PICK B : t \in Seq(B)
    BY DEF Collected
  <1>3. s \in Seq(A \cup B) /\ t \in Seq(A \cup B)
    BY <1>1, <1>2
  <1>4. s \o t \in Seq(A \cup B)
    BY <1>3
  <1>5. Len(s \o t) = Len(s) + Len(t)
    BY <1>3
  <1>6. \A i \in 1..Len(s) : (s \o t)[i] = s[i]
    BY <1>3
  <1>7. \A i \in 1..Len(s) + Len(t) : i > Len(s) => (s \o t)[i] = t[i - Len(s)]
    BY <1>3
  <1>8. Collected(s \o t)
    BY <1>4 DEF Collected
  <1>9. Len(s) \in Nat /\ Len(t) \in Nat /\ DOMAIN s = 1..Len(s) /\ DOMAIN t = 1..Len(t)
    BY <1>3
  <1>10. DOMAIN (s \o t) = 1..Len(s) + Len(t)
    BY <1>4, <1>5
  <1> QED
    BY <1>5, <1>6, <1>7, <1>8, <1>9, <1>10

\* A batch is added to the table with the time of its transaction.
LEMMA Stored ==
    ASSUME Collected(rows), Rows(rows), NEW entries, Collected(entries),
           NEW later, later = rows \o stamped(entries)
    PROVE  Collected(later) /\ Rows(later) /\ Grows(rows, later)
  <1> DEFINE at == IF rows = <<>> THEN 1 ELSE Last(rows).at + 1
             t == stamped(entries)
  <1>1. Len(entries) \in Nat /\ DOMAIN entries = 1..Len(entries)
    BY DEF Collected
  <1>2. PICK top \in Nat : \A i \in 1..Len(rows) : rows[i].at \in Nat /\ rows[i].at <= top
    BY DEF Rows
  <1>3. at \in Nat /\ at <= top + 1
    <2>1. CASE rows = <<>>
      BY <2>1
    <2>2. CASE rows # <<>>
      <3>1. Len(rows) \in 1..Len(rows) /\ Last(rows) = rows[Len(rows)]
        BY <2>2 DEF Collected, Last
      <3> QED
        BY <1>2, <2>2, <3>1
    <2> QED
      BY <2>1, <2>2
  <1> HIDE DEF at
  <1>4. /\ t = [i \in 1..Len(entries) |->
                   [metric |-> entries[i].metric, source |-> entries[i].source,
                    project |-> entries[i].project, at |-> at]]
        /\ \A i \in 1..Len(entries) : t[i].at = at
    BY <1>1 DEF stamped, at
  <1>5. Collected(t) /\ Len(t) = Len(entries)
    <2>1. t \in [1..Len(entries) -> {t[i] : i \in 1..Len(entries)}]
      BY <1>4
    <2>2. t \in Seq({t[i] : i \in 1..Len(entries)}) /\ Len(t) = Len(entries)
      BY <1>1, <2>1
    <2> QED
      BY <2>2 DEF Collected
  <1> HIDE DEF t
  <1>6. later = rows \o t
    BY DEF t
  <1>7. /\ Collected(later) /\ Len(later) = Len(rows) + Len(t)
        /\ Len(rows) \in Nat /\ Len(t) \in Nat /\ DOMAIN later = 1..Len(later)
        /\ \A i \in 1..Len(rows) : later[i] = rows[i]
        /\ \A i \in 1..Len(later) : i > Len(rows) => later[i] = t[i - Len(rows)]
    <2>1. Collected(rows) /\ Collected(t)
      BY <1>5
    <2> QED
      BY ONLY <1>6, <2>1, Joined
  <1>8. Len(later) \in Nat /\ Grows(rows, later)
    BY <1>7 DEF Grows
  <1>9. ASSUME NEW i \in 1..Len(later) PROVE later[i].at \in Nat /\ later[i].at <= top + 1
    <2>1. CASE i <= Len(rows)
      BY <1>2, <1>7, <2>1
    <2>2. CASE i > Len(rows)
      <3>1. PICK j \in 1..Len(entries) : j = i - Len(rows)
        BY <1>5, <1>7, <2>2
      <3> QED
        BY <1>3, <1>4, <1>7, <2>2, <3>1
    <2> QED
      BY <1>7, <2>1, <2>2
  <1>10. Rows(later)
    <2>1. top + 1 \in Nat
      BY <1>2
    <2>2. \E u \in Nat : \A i \in 1..Len(later) : later[i].at \in Nat /\ later[i].at <= u
      BY <1>9, <2>1
    <2> QED
      BY <1>7, <1>8, <2>2 DEF Rows
  <1> QED
    BY <1>7, <1>8, <1>10

\* The rows of a metric, and those of the project metrics, only gain new ones.
LEMMA MatchesStay ==
    ASSUME Rows(rows), Rows(rows)', Grows(rows, rows'), NEW m
    PROVE  /\ named(m) \subseteq 1..Len(rows) /\ named(m) \subseteq named(m)'
           /\ named(m)' \subseteq 1..Len(rows')
           /\ \A x \in named(m)' : x <= Len(rows) => x \in named(m)
  BY DEF Rows, Grows, named

LEMMA ProjectMatchesStay ==
    ASSUME Rows(rows), Rows(rows)', Grows(rows, rows')
    PROVE  /\ projectRows \subseteq 1..Len(rows) /\ projectRows \subseteq projectRows'
           /\ projectRows' \subseteq 1..Len(rows')
           /\ \A x \in projectRows' : x <= Len(rows) => x \in projectRows
  <1>1. projectRows = {i \in 1..Len(rows) : rows[i].metric \in ProjectLike}
    BY DEF Rows, projectRows
  <1>2. projectRows' = {i \in 1..Len(rows') : rows'[i].metric \in ProjectLike}
    BY DEF Rows, projectRows
  <1> QED
    BY <1>1, <1>2 DEF Rows, Grows

\* What a request has in its answer stays explained while rows are added.
LEMMA FiguresStay ==
    ASSUME Rows(rows), Rows(rows)', Grows(rows, rows'), NEW q \in Requests,
           FigureOK(q), Untouched(q)
    PROVE  FigureOK(q)'
  <1> USE WindowAssumption
  <1>0. op'[q] = op[q] /\ seen'[q] = seen[q] /\ known'[q] = known[q]
    BY DEF Untouched
  <1>1. /\ known[q].rows \in Nat /\ known[q].rows <= Len(rows)
        /\ (known[q].rows \in Nat /\ known[q].rows <= Len(rows))'
    BY <1>0 DEF FigureOK, Rows, Grows
  <1>2. UsageOK(q)'
    <2> SUFFICES ASSUME op[q] = "hypervisors", NEW k \in 1..Len(seen[q])
                 PROVE  Window(rows', seen[q][k], named(HypervisorMetrics[k])', UsageWindow,
                               known[q].rows)
      BY <1>0 DEF FigureOK, UsageOK
    <2>1. Window(rows, seen[q][k], named(HypervisorMetrics[k]), UsageWindow, known[q].rows)
      BY DEF FigureOK, UsageOK
    <2> QED
      BY <1>1, <2>1, MatchesStay, WindowStays
  <1>3. ProjectOK(q)'
    <2> SUFFICES ASSUME op[q] = "projects"
                 PROVE  Window(rows', seen[q][1], projectRows', ProjectWindow, known[q].rows)
      BY <1>0 DEF ProjectOK
    <2>1. Window(rows, seen[q][1], projectRows, ProjectWindow, known[q].rows)
      BY DEF FigureOK, ProjectOK
    <2> QED
      BY <1>1, <2>1, ProjectMatchesStay, WindowStays
  <1>4. MetricsOK(q)'
    <2> SUFFICES ASSUME op[q] = "metrics"
                 PROVE  /\ seen[q][1] \subseteq 1..known[q].rows
                        /\ Window(rows', seen[q][2], seen[q][1], Limit, known[q].rows)
      BY <1>0 DEF MetricsOK
    <2>1. /\ seen[q][1] \subseteq 1..known[q].rows
          /\ Window(rows, seen[q][2], seen[q][1], Limit, known[q].rows)
      BY DEF FigureOK, MetricsOK
    <2>2. seen[q][1] \subseteq 1..Len(rows) /\ seen[q][1] \subseteq 1..Len(rows')
      BY <1>1, <2>1 DEF Rows, Grows
    <2> QED
      BY <1>1, <2>1, <2>2, WindowStays
  <1>5. LatestOK(q)'
    <2> SUFFICES ASSUME op[q] = "latest"
                 PROVE  /\ seen[q][1] \subseteq 1..Len(rows') /\ seen[q][2] \subseteq 1..Len(rows')
                        /\ \A i \in seen[q][1] : \E j \in seen[q][2] :
                              rows'[j].metric = rows'[i].metric /\ rows'[j].at >= rows'[i].at
      BY <1>0 DEF LatestOK
    <2>1. /\ seen[q][1] \subseteq 1..Len(rows) /\ seen[q][2] \subseteq 1..Len(rows)
          /\ \A i \in seen[q][1] : \E j \in seen[q][2] :
                rows[j].metric = rows[i].metric /\ rows[j].at >= rows[i].at
      BY DEF FigureOK, LatestOK
    <2>2. \A i \in seen[q][1] \cup seen[q][2] : rows'[i] = rows[i]
      BY <2>1 DEF Grows
    <2>3. seen[q][1] \subseteq 1..Len(rows') /\ seen[q][2] \subseteq 1..Len(rows')
      BY <2>1 DEF Rows, Grows
    <2> QED
      BY <2>1, <2>2, <2>3
  <1> QED
    BY <1>1, <1>2, <1>3, <1>4, <1>5 DEF FigureOK

\* A step that changes no answer and stores nothing or a batch.
LEMMA StoresKeep ==
    ASSUME FInv, UNCHANGED <<op, seen, known>>, Collected(batch)',
           \/ rows' = rows
           \/ \E entries : Collected(entries) /\ rows' = rows \o stamped(entries)
    PROVE  FInv'
  <1>1. Collected(rows') /\ Rows(rows') /\ Grows(rows, rows')
    <2>1. CASE rows' = rows
      BY <2>1 DEF FInv, Grows, Rows
    <2>2. CASE \E entries : Collected(entries) /\ rows' = rows \o stamped(entries)
      <3>1. PICK entries : Collected(entries) /\ rows' = rows \o stamped(entries)
        BY <2>2
      <3>2. Collected(rows) /\ Rows(rows)
        BY DEF FInv
      <3> QED
        BY <3>1, <3>2, Stored
    <2> QED
      BY <2>1, <2>2
  <1>2. ASSUME NEW q \in Requests PROVE FigureOK(q)'
    BY <1>1, FiguresStay DEF FInv, Untouched
  <1> QED
    BY <1>1, <1>2 DEF FInv

\* A table that nothing is added to.
LEMMA SameRows ==
    ASSUME FInv, rows' = rows
    PROVE  Rows(rows) /\ Rows(rows)' /\ Grows(rows, rows') /\ Len(rows) \in Nat
  <1>1. Rows(rows) /\ Len(rows) \in Nat
    BY DEF FInv, Rows
  <1>2. Rows(rows)'
    BY <1>1
  <1>3. Grows(rows, rows')
    BY <1>1 DEF Grows
  <1> QED
    BY <1>1, <1>2, <1>3

\* A query begins a request.
LEMMA BeginFigures ==
    ASSUME AInv, FInv, NEW r \in Requests, NEW what, NEW first, Begin(r, what, first),
           known'[r].rows = Len(rows) =>
              UsageOK(r)' /\ ProjectOK(r)' /\ MetricsOK(r)' /\ LatestOK(r)'
    PROVE  FInv'
  <1>1. rows' = rows /\ batch' = batch /\ known'[r].rows = Len(rows)
    BY DEF Begin, tablesUnchanged, AInv, AlertTyped
  <1>2. Rows(rows) /\ Rows(rows)' /\ Grows(rows, rows') /\ Len(rows) \in Nat
    BY <1>1, SameRows
  <1>3. ASSUME NEW q \in Requests PROVE FigureOK(q)'
    <2>1. CASE q = r
      BY <1>1, <1>2, <2>1 DEF FigureOK
    <2>2. CASE q # r
      <3>1. Untouched(q)
        BY <2>2, BeginSets
      <3> QED
        BY <1>2, <3>1, FiguresStay DEF FInv
    <2> QED
      BY <2>1, <2>2
  <1> QED
    BY <1>1, <1>3 DEF FInv

\* A query goes on with a request.
LEMMA AnswerFigures ==
    ASSUME AInv, FInv, NEW r \in Requests, NEW next, Answer(r, next),
           UsageOK(r)' /\ ProjectOK(r)' /\ MetricsOK(r)' /\ LatestOK(r)'
    PROVE  FInv'
  <1>1. rows' = rows /\ batch' = batch /\ known' = known
    BY DEF Answer, tablesUnchanged
  <1>2. Rows(rows) /\ Rows(rows)' /\ Grows(rows, rows') /\ Len(rows) \in Nat
    BY <1>1, SameRows
  <1>3. ASSUME NEW q \in Requests PROVE FigureOK(q)'
    <2>1. CASE q = r
      BY <1>1, <2>1 DEF FigureOK, FInv
    <2>2. CASE q # r
      <3>1. Untouched(q)
        BY <2>2, AnswerSets
      <3> QED
        BY <1>2, <3>1, FiguresStay DEF FInv
    <2> QED
      BY <2>1, <2>2
  <1> QED
    BY <1>1, <1>3 DEF FInv

\* Requests that are about alerts hold no figures.
LEMMA NoFigures ==
    ASSUME NEW r, op'[r] \notin {"metrics", "latest", "hypervisors", "projects"}
    PROVE  UsageOK(r)' /\ ProjectOK(r)' /\ MetricsOK(r)' /\ LatestOK(r)'
  BY DEF UsageOK, ProjectOK, MetricsOK, LatestOK

\* query_metrics.
LEMMA MetricsFigures ==
    ASSUME AInv, FInv, NEW r \in Requests, query_metrics(r)
    PROVE  FInv'
  <1> USE WindowAssumption
  <1>1. PICK S \in {named(reading.metric) : reading \in Readings} \cup {from(s) : s \in Sources} :
           \E w \in NewestRows(S, Limit) : Begin(r, "metrics", <<S, w>>)
    BY DEF query_metrics
  <1>2. PICK w \in NewestRows(S, Limit) : Begin(r, "metrics", <<S, w>>)
    BY <1>1
  <1>3. Rows(rows) /\ S \subseteq 1..Len(rows)
    BY DEF FInv, Rows, named, from
  <1>4. Window(rows, w, S, Limit, Len(rows))
    BY <1>3, Newest
  <1>5. op'[r] = "metrics" /\ seen'[r] = <<S, w>> /\ rows' = rows
    BY <1>2, BeginSets DEF Begin, tablesUnchanged
  <1>6. seen'[r][1] = S /\ seen'[r][2] = w
    BY <1>5
  <1>7. known'[r].rows = Len(rows) => MetricsOK(r)'
    BY <1>3, <1>4, <1>5, <1>6 DEF MetricsOK
  <1>8. UsageOK(r)' /\ ProjectOK(r)' /\ LatestOK(r)'
    BY <1>5 DEF UsageOK, ProjectOK, LatestOK
  <1> QED
    BY <1>2, <1>7, <1>8, BeginFigures

\* get_latest_metrics: the newest rows of a metric are in the answer.
LEMMA LatestFigures ==
    ASSUME AInv, FInv, NEW r \in Requests, get_latest_metrics(r)
    PROVE  FInv'
  <1> DEFINE Tops(S) == {i \in S : \A j \in S \cap named(rows[i].metric) : rows[j].at <= rows[i].at}
  <1>1. PICK S \in {DOMAIN rows} \cup {from(s) : s \in Sources} : Begin(r, "latest", <<S, Tops(S)>>)
    BY DEF get_latest_metrics
  <1>2. Rows(rows) /\ S \subseteq 1..Len(rows)
    BY DEF FInv, Rows, from
  <1>3. op'[r] = "latest" /\ seen'[r] = <<S, Tops(S)>> /\ rows' = rows
    BY <1>1, BeginSets DEF Begin, tablesUnchanged
  <1>4. ASSUME NEW i \in S
        PROVE  \E j \in Tops(S) : rows[j].metric = rows[i].metric /\ rows[j].at >= rows[i].at
    <2>1. PICK top \in Nat : \A k \in 1..Len(rows) : rows[k].at \in Nat /\ rows[k].at <= top
      BY <1>2 DEF Rows
    <2> DEFINE Same == {k \in S : rows[k].metric = rows[i].metric}
               T == {top - rows[k].at : k \in Same}
    <2>2. \A k \in Same : k \in S /\ rows[k].at \in Nat /\ top - rows[k].at \in Nat
      BY <1>2, <2>1
    <2>3. T \subseteq Nat /\ T # {}
      <3>1. i \in Same
        OBVIOUS
      <3>2. top - rows[i].at \in T
        BY <3>1
      <3> QED
        BY <2>2, <3>2
    <2> HIDE DEF T
    <2>4. PICK x \in T : \A y \in T : x <= y
      BY <2>3, Least
    <2>5. PICK j \in Same : x = top - rows[j].at
      BY DEF T
    <2>6. ASSUME NEW k \in Same PROVE rows[k].at <= rows[j].at
      <3>1. top - rows[k].at \in T
        BY DEF T
      <3>2. top - rows[j].at <= top - rows[k].at
        BY <2>4, <2>5, <3>1
      <3> QED
        BY <2>2, <3>2
    <2>7. j \in Tops(S)
      <3>1. ASSUME NEW k \in S \cap named(rows[j].metric) PROVE rows[k].at <= rows[j].at
        <4>1. k \in Same
          BY DEF named
        <4> QED
          BY <2>6, <4>1
      <3> QED
        BY <3>1
    <2>8. i \in Same
      OBVIOUS
    <2> QED
      BY <2>2, <2>6, <2>7, <2>8
  <1>5. Tops(S) \subseteq S
    OBVIOUS
  <1>6. PICK W : W = Tops(S)
    OBVIOUS
  <1> HIDE DEF Tops
  <1>7. seen'[r][1] = S /\ seen'[r][2] = W
    BY <1>3, <1>6
  <1>8. LatestOK(r)'
    BY <1>2, <1>3, <1>4, <1>5, <1>6, <1>7 DEF LatestOK
  <1>9. UsageOK(r)' /\ ProjectOK(r)' /\ MetricsOK(r)'
    BY <1>3 DEF UsageOK, ProjectOK, MetricsOK
  <1> QED
    BY <1>1, <1>8, <1>9, BeginFigures

\* A metric of the list of get_hypervisor_usage: every window of it is one of the table.
LEMMA UsageWindows ==
    ASSUME FInv, NEW k \in 1..4, NEW w \in window(k), NEW m \in Nat, m <= Len(rows)
    PROVE  Window(rows, w, named(HypervisorMetrics[k]), UsageWindow, m)
  <1>1. Rows(rows) /\ named(HypervisorMetrics[k]) \subseteq 1..Len(rows) /\ UsageWindow \in Nat
    BY WindowAssumption DEF FInv, Rows, named
  <1>2. Window(rows, w, named(HypervisorMetrics[k]), UsageWindow, Len(rows))
    BY <1>1, Newest DEF window
  <1>3. PICK S : S = named(HypervisorMetrics[k])
    OBVIOUS
  <1>4. \A x \in S : x <= m => x <= Len(rows)
    BY <1>1, <1>3 DEF Rows
  <1>5. Window(rows, w, S, UsageWindow, Len(rows))
    BY <1>2, <1>3
  <1>6. Window(rows, w, S, UsageWindow, m)
    BY <1>4, <1>5 DEF Window
  <1> QED
    BY <1>3, <1>6

\* get_hypervisor_usage, each of its four queries.
LEMMA UsageFigures ==
    ASSUME AInv, FInv, NEW r \in Requests, get_hypervisor_usage(r)
    PROVE  FInv'
  <1>0. Len(HypervisorMetrics) = 4
    BY DEF HypervisorMetrics
  <1>1. ASSUME NEW w \in window(1), Begin(r, "hypervisors", <<w>>) PROVE FInv'
    <2>1. op'[r] = "hypervisors" /\ seen'[r] = <<w>> /\ rows' = rows
      BY <1>1, BeginSets DEF Begin, tablesUnchanged
    <2>2. Collected(seen'[r]) /\ Len(seen'[r]) = 1 /\ seen'[r][1] = w
      BY <2>1, FirstAnswer
    <2>3. Window(rows, w, named(HypervisorMetrics[1]), UsageWindow, Len(rows))
      <3>1. 1 \in 1..4 /\ Len(rows) \in Nat /\ Len(rows) <= Len(rows)
        BY DEF FInv, Rows
      <3> QED
        BY <3>1, UsageWindows
    <2>4. named(HypervisorMetrics[1])' = named(HypervisorMetrics[1])
      BY <2>1 DEF named
    <2>5. ASSUME known'[r].rows = Len(rows) PROVE UsageOK(r)'
      <3>1. ASSUME NEW k \in 1..Len(seen'[r])
            PROVE  Window(rows', seen'[r][k], named(HypervisorMetrics[k])', UsageWindow,
                          known'[r].rows)
        <4>1. k = 1
          BY <2>2, <3>1
        <4> QED
          BY <2>1, <2>2, <2>3, <2>4, <2>5, <4>1
      <3> QED
        BY <2>2, <3>1 DEF UsageOK
    <2>6. ProjectOK(r)' /\ MetricsOK(r)' /\ LatestOK(r)'
      BY <2>1 DEF ProjectOK, MetricsOK, LatestOK
    <2> QED
      BY <1>1, <2>5, <2>6, BeginFigures
  <1>2. ASSUME op[r] = "hypervisors", Len(seen[r]) < 4,
               NEW w \in window(Len(seen[r]) + 1), Answer(r, w)
        PROVE  FInv'
    <2>1. op' = op /\ seen'[r] = Append(seen[r], w) /\ known' = known /\ rows' = rows
      BY <1>2, AnswerSets DEF Answer, tablesUnchanged
    <2>2. UsageOK(r) /\ Collected(seen[r]) /\ Len(seen[r]) \in 1..4
      BY <1>2 DEF FInv, FigureOK, UsageOK
    <2>3. /\ Collected(seen'[r]) /\ Len(seen'[r]) = Len(seen[r]) + 1
          /\ \A i \in 1..Len(seen[r]) : seen'[r][i] = seen[r][i]
      BY <2>1, <2>2, OneMore
    <2>4. seen'[r][Len(seen'[r])] = w
      <3>1. PICK A : seen[r] \in Seq(A)
        BY <2>2 DEF Collected
      <3> QED
        BY <2>1, <2>3, <3>1
    <2>5. UsageOK(r)'
      <3>1. ASSUME NEW k \in 1..Len(seen'[r])
            PROVE  Window(rows', seen'[r][k], named(HypervisorMetrics[k])', UsageWindow,
                          known'[r].rows)
        <4>1. named(HypervisorMetrics[k])' = named(HypervisorMetrics[k])
          BY <2>1 DEF named
        <4>2. CASE k <= Len(seen[r])
          <5>1. k \in 1..Len(seen[r])
            BY <2>2, <2>3, <4>2
          <5>2. Window(rows, seen[r][k], named(HypervisorMetrics[k]), UsageWindow, known[r].rows)
            BY <1>2, <2>2, <5>1 DEF UsageOK
          <5> QED
            BY <2>1, <2>3, <4>1, <5>1, <5>2
        <4>3. CASE k > Len(seen[r])
          <5>1. k = Len(seen[r]) + 1 /\ k \in 1..4 /\ seen'[r][k] = w
            BY <1>2, <2>2, <2>3, <2>4, <4>3
          <5>2. known[r].rows \in Nat /\ known[r].rows <= Len(rows)
            BY DEF FInv, FigureOK
          <5>3. Window(rows, w, named(HypervisorMetrics[k]), UsageWindow, known[r].rows)
            BY <5>1, <5>2, UsageWindows
          <5> QED
            BY <2>1, <4>1, <5>1, <5>3
        <4> QED
          BY <2>2, <4>2, <4>3
      <3>2. Len(seen'[r]) \in 1..4
        BY <1>2, <2>2, <2>3
      <3> QED
        BY <2>3, <3>1, <3>2 DEF UsageOK
    <2>6. ProjectOK(r)' /\ MetricsOK(r)' /\ LatestOK(r)'
      BY <1>2, <2>1 DEF ProjectOK, MetricsOK, LatestOK
    <2> QED
      BY <1>2, <2>5, <2>6, AnswerFigures
  <1> QED
    BY <1>0, <1>1, <1>2 DEF get_hypervisor_usage

\* get_project_usage.
LEMMA ProjectFigures ==
    ASSUME AInv, FInv, NEW r \in Requests, get_project_usage(r)
    PROVE  FInv'
  <1>1. PICK w \in NewestRows(projectRows, ProjectWindow) : Begin(r, "projects", <<w>>)
    BY DEF get_project_usage
  <1>2. Rows(rows) /\ projectRows \subseteq 1..Len(rows) /\ ProjectWindow \in Nat
    BY WindowAssumption DEF FInv, Rows, projectRows
  <1>3. Window(rows, w, projectRows, ProjectWindow, Len(rows))
    BY <1>2, Newest
  <1>4. op'[r] = "projects" /\ seen'[r] = <<w>> /\ rows' = rows
    BY <1>1, BeginSets DEF Begin, tablesUnchanged
  <1>5. seen'[r][1] = w /\ projectRows' = projectRows
    BY <1>4 DEF projectRows
  <1>6. known'[r].rows = Len(rows) => ProjectOK(r)'
    BY <1>3, <1>4, <1>5 DEF ProjectOK
  <1>7. UsageOK(r)' /\ MetricsOK(r)' /\ LatestOK(r)'
    BY <1>4 DEF UsageOK, MetricsOK, LatestOK
  <1> QED
    BY <1>1, <1>6, <1>7, BeginFigures

\* The requests that are about alerts.
LEMMA AlertFigures ==
    ASSUME AInv, FInv, NEW r \in Requests,
           \/ list_alerts(r) \/ get_dashboard_summary(r)
           \/ \E a \in 1..Len(alerts) + 1 : ResolveGet(r, a)
           \/ ResolveCommit(r) \/ ResolveRefresh(r)
    PROVE  FInv'
  <1>1. ASSUME NEW what \in {"alerts", "dashboard", "resolve"}, NEW first, Begin(r, what, first)
        PROVE  FInv'
    <2>1. op'[r] = what
      BY <1>1, BeginSets
    <2> QED
      BY <1>1, <2>1, NoFigures, BeginFigures
  <1>2. ASSUME NEW next, Answer(r, next), op[r] \in {"resolve", "dashboard"}
        PROVE  FInv'
    <2>1. op'[r] = op[r]
      BY <1>2, AnswerSets
    <2> QED
      BY <1>2, <2>1, NoFigures, AnswerFigures
  <1>3. CASE list_alerts(r)
    BY <1>1, <1>3 DEF list_alerts
  <1>4. CASE get_dashboard_summary(r)
    BY <1>1, <1>2, <1>4 DEF get_dashboard_summary
  <1>5. CASE \E a \in 1..Len(alerts) + 1 : ResolveGet(r, a)
    BY <1>1, <1>5 DEF ResolveGet
  <1>6. CASE ResolveCommit(r)
    BY <1>2, <1>6 DEF ResolveCommit
  <1>7. CASE ResolveRefresh(r)
    BY <1>2, <1>7 DEF ResolveRefresh
  <1> QED
    BY <1>3, <1>4, <1>5, <1>6, <1>7

\* record_metric, alone or from collect_hypervisor_metrics.
LEMMA RecordFigures ==
    ASSUME FInv, NEW reading, record_metric(reading)
    PROVE  FInv'
  <1>1. UNCHANGED <<op, seen, known>>
    BY DEF record_metric, readUnchanged, history
  <1>2. Collected(Append(batch, reading))
    BY OneMore DEF FInv
  <1>3. Collected(<<>>)
    <2>1. <<>> \in Seq({})
      OBVIOUS
    <2> QED
      BY <2>1 DEF Collected
  <1>4. CASE size + 1 >= BatchSize
    <2>1. rows' = rows \o stamped(Append(batch, reading)) /\ batch' = <<>>
      BY <1>4 DEF record_metric
    <2> QED
      BY <1>1, <1>2, <1>3, <2>1, StoresKeep
  <1>5. CASE ~(size + 1 >= BatchSize)
    <2>1. batch' = Append(batch, reading) /\ rows' = rows
      BY <1>5 DEF record_metric
    <2> QED
      BY <1>1, <1>2, <2>1, StoresKeep
  <1> QED
    BY <1>4, <1>5

\* Nothing is recorded, nothing is asked.
LEMMA InitFigures == MonitoringInit => FInv
  <1> SUFFICES ASSUME MonitoringInit PROVE FInv
    OBVIOUS
  <1>1. rows = <<>> /\ batch = <<>>
    BY DEF MonitoringInit
  <1>2. <<>> \in Seq({}) /\ Len(<<>>) = 0 /\ DOMAIN <<>> = 1..0
    OBVIOUS
  <1>3. Collected(rows) /\ Collected(batch)
    BY <1>1, <1>2 DEF Collected
  <1>4. Rows(rows)
    BY <1>1, <1>2 DEF Rows
  <1>5. \A r \in Requests : op[r] = "none" /\ known[r].rows = 0
    BY DEF MonitoringInit
  <1>6. \A r \in Requests : FigureOK(r)
    BY <1>1, <1>2, <1>5 DEF FigureOK, UsageOK, ProjectOK, MetricsOK, LatestOK
  <1> QED
    BY <1>3, <1>4, <1>6 DEF FInv

\* Every action keeps the answers explained.
LEMMA NextFigures == AInv /\ FInv /\ [MonitoringNext]_monitoringVars => FInv'
  <1> SUFFICES ASSUME AInv, FInv, [MonitoringNext]_monitoringVars PROVE FInv'
    OBVIOUS
  <1>1. CASE \E reading \in Readings : record_metric(reading)
    BY <1>1, RecordFigures
  <1>2. CASE collect_hypervisor_metrics
    BY <1>2, RecordFigures DEF collect_hypervisor_metrics
  <1>3. CASE FlushOnTimeout
    <2>1. /\ UNCHANGED <<op, seen, known>> /\ Collected(batch)
          /\ rows' = rows \o stamped(batch) /\ batch' = <<>>
      BY <1>3 DEF FlushOnTimeout, readUnchanged, history, FInv
    <2>2. Collected(batch)'
      <3>1. <<>> \in Seq({})
        OBVIOUS
      <3> QED
        BY <2>1, <3>1 DEF Collected
    <2> QED
      BY <2>1, <2>2, StoresKeep
  <1>4. CASE Time \/ create_alert \/ UNCHANGED monitoringVars
    <2>1. UNCHANGED <<op, seen, known>> /\ batch' = batch /\ rows' = rows
      BY <1>4 DEF Time, create_alert, monitoringVars, readUnchanged, tablesUnchanged, history
    <2>2. Collected(batch)'
      BY <2>1 DEF FInv
    <2> QED
      BY <2>1, <2>2, StoresKeep
  <1>5. CASE \E r \in Requests : Request(r)
    BY <1>5, MetricsFigures, LatestFigures, UsageFigures, ProjectFigures, AlertFigures DEF Request
  <1> QED
    BY <1>1, <1>2, <1>3, <1>4, <1>5 DEF MonitoringNext

-----------------------------------------------------------------------------
(* What the windows explain. *)

\* get_hypervisor_usage.
LEMMA UsageFollows == FInv => UsageExplained
  <1> SUFFICES ASSUME FInv, NEW r \in Requests, op[r] = "hypervisors", Len(seen[r]) = 4,
                      NEW host \in Sources
               PROVE  LET own(k) == named(HypervisorMetrics[k]) \cap from(host)
                          usage == HypervisorUsage(r, host)
                      IN  IF host \in reportedHosts(r)
                          THEN /\ newer(r, own(1), usage[1]) = {}
                               /\ \A k \in 2..4 :
                                     withinWindow(r, usage[k], named(HypervisorMetrics[k]),
                                                  own(k), UsageWindow)
                          ELSE pushedOut(r, named(HypervisorMetrics[1]), own(1), UsageWindow)
    BY DEF UsageExplained
  <1> DEFINE S(k) == named(HypervisorMetrics[k])
             own(k) == S(k) \cap from(host)
             usage == HypervisorUsage(r, host)
  <1>1. Rows(rows) /\ known[r].rows \in Nat /\ UsageWindow \in Nat
    BY WindowAssumption DEF FInv, FigureOK
  <1>2. \A k \in 1..4 : Window(rows, seen[r][k], S(k), UsageWindow, known[r].rows)
    BY DEF FInv, FigureOK, UsageOK
  <1>3. \A k \in 1..4 : S(k) \subseteq 1..Len(rows) /\ own(k) \subseteq S(k)
    BY <1>1 DEF Rows, named
  <1>4. \A k \in 1..4 : \A i \in S(k) : i \in from(host) <=> i \in own(k)
    OBVIOUS
  <1>5. /\ usage[1] = firstOf(seen[r][1], from(host))
        /\ \A k \in 2..4 : usage[k] = lastOf(seen[r][k], from(host))
    BY DEF HypervisorUsage, HypervisorMetrics
  <1>6. \A i \in S(1) : i \in from(host) <=> rows[i].source = host
    BY DEF named, from
  <1>7. /\ DOMAIN seen[r][1] = 1..Len(seen[r][1])
        /\ \A i \in 1..Len(seen[r][1]) : seen[r][1][i] \in S(1)
    BY <1>2 DEF Window
  <1> HIDE DEF S, own, usage
  <1>8. CASE host \in reportedHosts(r)
    <2>1. PICK h \in 1..Len(seen[r][1]) : seen[r][1][h] \in from(host)
      BY <1>6, <1>7, <1>8 DEF reportedHosts
    <2>2. newer(r, own(1), usage[1]) = {}
      <3>1. /\ S(1) \subseteq 1..Len(rows) /\ own(1) \subseteq S(1)
            /\ Window(rows, seen[r][1], S(1), UsageWindow, known[r].rows)
            /\ \A i \in S(1) : i \in from(host) <=> i \in own(1)
        BY <1>2, <1>3, <1>4
      <3>2. newer(r, own(1), firstOf(seen[r][1], from(host))) = {}
        BY <1>1, <2>1, <3>1, FirstIsNewest
      <3> QED
        BY <1>5, <3>2
    <2>3. ASSUME NEW k \in 2..4 PROVE withinWindow(r, usage[k], S(k), own(k), UsageWindow)
      <3>1. k \in 1..4
        OBVIOUS
      <3> QED
        BY <1>1, <1>2, <1>3, <1>4, <1>5, <3>1, Within
    <2> QED
      BY <1>8, <2>2, <2>3 DEF S, own, usage
  <1>9. CASE host \notin reportedHosts(r)
    <2>1. \A i \in 1..Len(seen[r][1]) : seen[r][1][i] \notin own(1)
      BY <1>4, <1>6, <1>7, <1>9 DEF reportedHosts
    <2>2. pushedOut(r, S(1), own(1), UsageWindow)
      BY <1>1, <1>2, <1>3, <2>1, NoneOwn
    <2> QED
      BY <1>9, <2>2 DEF S, own
  <1> QED
    BY <1>8, <1>9

\* get_project_usage.
LEMMA ProjectUsageFollows == FInv => ProjectUsageExplained
  <1> SUFFICES ASSUME FInv, NEW r \in Requests, op[r] = "projects",
                      NEW reading \in Readings, reading.metric \in ProjectMetrics
               PROVE  withinWindow(r, ProjectUsage(r, reading.project)[reading.metric], projectRows,
                                   ofProject(reading.metric, reading.project), ProjectWindow)
    BY DEF ProjectUsageExplained
  <1>1. Rows(rows) /\ known[r].rows \in Nat /\ ProjectWindow \in Nat
    BY WindowAssumption DEF FInv, FigureOK
  <1>2. Window(rows, seen[r][1], projectRows, ProjectWindow, known[r].rows)
    BY DEF FInv, FigureOK, ProjectOK
  <1>3. /\ projectRows \subseteq 1..Len(rows)
        /\ ofProject(reading.metric, reading.project) \subseteq projectRows
    BY <1>1, LikeAssumption DEF Rows, projectRows, ofProject, named
  <1>4. ProjectUsage(r, reading.project)[reading.metric]
          = lastOf(seen[r][1], ofProject(reading.metric, reading.project))
    BY DEF ProjectUsage
  <1> QED
    BY <1>1, <1>2, <1>3, <1>4, Within

\* query_metrics and get_latest_metrics.
LEMMA ListsFollow == FInv => ListsExplained
  <1> SUFFICES ASSUME FInv, NEW r \in Requests
               PROVE  /\ op[r] = "metrics" =>
                            LET found == ToSet(seen[r][2]) IN
                              \A i \in seen[r][1] \ found : \A j \in found :
                                  rows[i].at <= rows[j].at
                      /\ op[r] = "latest" =>
                            \A i \in seen[r][1] : \E j \in seen[r][2] :
                                rows[j].metric = rows[i].metric /\ rows[j].at >= rows[i].at
    BY DEF ListsExplained
  <1>1. ASSUME op[r] = "metrics", NEW i \in seen[r][1] \ ToSet(seen[r][2]),
               NEW j \in ToSet(seen[r][2])
        PROVE  rows[i].at <= rows[j].at
    <2>1. /\ seen[r][1] \subseteq 1..known[r].rows /\ known[r].rows \in Nat
          /\ Window(rows, seen[r][2], seen[r][1], Limit, known[r].rows)
          /\ known[r].rows <= Len(rows) /\ Rows(rows)
      BY <1>1 DEF FInv, FigureOK, MetricsOK
    <2>2. PICK k \in 1..Len(seen[r][2]) : j = seen[r][2][k]
      BY <2>1 DEF Window, ToSet
    <2>3. \A l \in 1..Len(seen[r][2]) : seen[r][2][l] # i
      BY <2>1 DEF Window, ToSet
    <2>4. i <= known[r].rows /\ i \in seen[r][1] /\ seen[r][2][k] \in seen[r][1]
      BY <2>1 DEF Window
    <2>5. rows[j].at >= rows[i].at
      BY <2>1, <2>2, <2>3, <2>4 DEF Window
    <2>6. rows[i].at \in Nat /\ rows[j].at \in Nat
      BY <2>1, <2>2, <2>4 DEF Rows
    <2> QED
      BY <2>5, <2>6
  <1>2. op[r] = "latest" =>
           \A i \in seen[r][1] : \E j \in seen[r][2] :
               rows[j].metric = rows[i].metric /\ rows[j].at >= rows[i].at
    BY DEF FInv, FigureOK, LatestOK
  <1> QED
    BY <1>1, <1>2

\* get_hypervisor_usage, get_project_usage, query_metrics and get_latest_metrics: for any
\* number of requests, any windows and whatever is recorded between the queries, each
\* figure is as new as its window allows and what is missing was pushed out.
THEOREM FiguresDoExplain == MonitoringSpec => []FiguresExplained
  <1>1. FInv => FiguresExplained
    BY UsageFollows, ProjectUsageFollows, ListsFollow DEF FiguresExplained
  <1> QED
    BY <1>1, InitAlerts, NextAlerts, InitFigures, NextFigures, PTL DEF MonitoringSpec
=============================================================================
