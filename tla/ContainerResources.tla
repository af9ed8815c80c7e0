------------------------- MODULE ContainerResources -------------------------
(***************************************************************************)
(* CPU and memory of a container: what Docker's HostConfig asks for, the   *)
(* defaults of the server and of the tenant's dink-resource-defaults       *)
(* ConfigMap, what the Deployment's template and its running Pod have, and *)
(* what inspect reads back (container.go, container_create.go,             *)
(* container_inspect.go, core/config/config.go).                           *)
(*                                                                         *)
(* CPU is counted in nanos where Docker does and in millis where           *)
(* Kubernetes does; 0 stands for a value that is not set.                  *)
(***************************************************************************)
EXTENDS Integers

CONSTANTS NanosPerMilli,   \* 1_000_000 in the code
          DefaultPeriod,   \* 100_000 in the code: a quota's period, in micros
          MicrosPerQuota,  \* 1000 in the code: quota * 1000 / period are millis
          MaxNanos,        \* the largest int64
          Nanos, Quotas, Periods, Bytes,   \* what clients ask for
          Overrides        \* what a tenant's defaults may say

VARIABLES server,    \* kubernetes.defaultResources
          tenant,    \* the tenant's overrides; AllUnset when there are none
          workload,  \* the Deployment: its HostConfig annotation and its template
          pod,       \* the running Pod's resources
          report     \* what the last inspect said, and what was in force

vars == <<server, tenant, workload, pod, report>>

Names == {"cpu", "memory"}
Kinds == {"limits", "requests"}
Unset == [n \in Names |-> 0]
AllUnset == [k \in Kinds |-> Unset]
Nothing == [there |-> FALSE]
Least(a, b) == IF a < b THEN a ELSE b
Or(a, b) == IF a # 0 THEN a ELSE b

Options == [nanos : Nanos, quota : Quotas, period : Periods, memory : Bytes,
            reservation : Bytes, cpuRequest : {0}, other : BOOLEAN]

-----------------------------------------------------------------------------
QuotaMillis(h) == (h.quota * MicrosPerQuota) \div Or(h.period, DefaultPeriod)

\* The values Docker accepts and Kubernetes cannot express, and the rest of
\* HostConfig's resources, are refused.
Accepted(h) ==
    /\ h.nanos >= 0 /\ h.memory >= 0 /\ h.reservation >= 0 /\ h.quota >= -1 /\ h.period >= 0
    /\ h.memory > 0 => h.reservation <= h.memory
    /\ ~(h.nanos > 0 /\ h.quota > 0)
    /\ h.nanos % NanosPerMilli = 0
    /\ IF h.quota > 0
       THEN /\ h.quota <= MaxNanos \div MicrosPerQuota
            /\ (h.quota * MicrosPerQuota) % Or(h.period, DefaultPeriod) = 0
       ELSE h.period = 0
    /\ ~h.other

Asked == {h \in Options : Accepted(h)}

\* What an accepted HostConfig means to Kubernetes.
Declared(h) ==
    [limits |-> [cpu |-> IF h.quota > 0 THEN QuotaMillis(h) ELSE h.nanos \div NanosPerMilli,
                 memory |-> h.memory],
     requests |-> [cpu |-> 0, memory |-> h.reservation]]

\* Defaults are positive, CPU in whole millis that fit NanoCPUs, and no
\* request exceeds its limit (ResourceDefaults.Validate).  CPU is in nanos.
ValidDefaults(d) ==
    /\ \A k \in Kinds, n \in Names : d[k][n] >= 0
    /\ \A k \in Kinds : d[k].cpu % NanosPerMilli = 0 /\ d[k].cpu <= MaxNanos
    /\ \A n \in Names : d.requests[n] # 0 /\ d.limits[n] # 0 => d.requests[n] <= d.limits[n]

\* The tenant's values override the server's one by one.
Defaults == [k \in Kinds |-> [n \in Names |-> Or(tenant[k][n], server[k][n])]]

Quantity(d, k, n) == IF n = "cpu" THEN d[k].cpu \div NanosPerMilli ELSE d[k].memory

Limits(r, d) == [n \in Names |-> Or(r.limits[n], Quantity(d, "limits", n))]

\* A default request is capped at the limit.
Request(r, d, n) ==
    LET q == Quantity(d, "requests", n)
        limit == Limits(r, d)[n]
    IN  Or(r.requests[n], IF limit # 0 THEN Least(q, limit) ELSE q)

WithDefaults(r, d) ==
    [limits |-> Limits(r, d), requests |-> [n \in Names |-> Request(r, d, n)]]

\* Mutant: an asked reservation may exceed a default limit.
Fits_Any(r) == TRUE

Fits(r) == \A n \in Names : r.limits[n] # 0 => r.requests[n] <= r.limits[n]

StoredRequests(h, r) ==
    [h EXCEPT !.reservation = r.requests.memory, !.cpuRequest = r.requests.cpu]

\* The HostConfig that is stored names the defaults as if they were asked for.
Stored(h, r) ==
    [StoredRequests(h, r) EXCEPT
        !.nanos = IF Declared(h).limits.cpu = 0 THEN r.limits.cpu * NanosPerMilli ELSE @,
        !.memory = r.limits.memory]

-----------------------------------------------------------------------------
Init ==
    /\ server \in {AllUnset,
                   [limits |-> [cpu |-> 2 * NanosPerMilli, memory |-> 2],
                    requests |-> [cpu |-> NanosPerMilli, memory |-> 1]]}
    /\ tenant = AllUnset /\ workload = Nothing /\ pod = Nothing /\ report = Nothing

\* An operator changes the tenant's defaults; only a creation reads them.
SetTenantDefaults ==
    /\ ~workload.there /\ tenant' \in Overrides
    /\ report' = Nothing
    /\ UNCHANGED <<server, workload, pod>>

\* ContainerCreate, as far as resources go; refused requests change nothing.
Create(h) ==
    LET r == WithDefaults(Declared(h), Defaults)
    IN  /\ ~workload.there /\ ~pod.there
        /\ ValidDefaults(Defaults) /\ Fits(r)
        /\ workload' = [there |-> TRUE, asked |-> h, host |-> Stored(h, r), template |-> r]
        /\ report' = Nothing
        /\ UNCHANGED <<server, tenant, pod>>

\* ContainerUpdate replaces HostConfig's resources and the template's.
Update(h) ==
    /\ workload.there
    /\ workload' = [there |-> TRUE, asked |-> h,
                    host |-> [h EXCEPT !.cpuRequest = workload.host.cpuRequest],
                    template |-> Declared(h)]
    /\ report' = Nothing
    /\ UNCHANGED <<server, tenant, pod>>

\* Removal waits for the Pod.
Remove ==
    /\ workload.there /\ ~pod.there /\ workload' = Nothing
    /\ report' = Nothing
    /\ UNCHANGED <<server, tenant, pod>>

\* The Pod starts from the template, which admission may change.
PodStarts ==
    /\ workload.there /\ ~pod.there
    /\ \E n \in Names : \E v \in {0, 1, 2, workload.template.limits[n]} :
          pod' = [there |-> TRUE,
                  has |-> [workload.template EXCEPT !.limits[n] = v,
                             !.requests[n] = IF v = 0 THEN @ ELSE Least(@, v)]]
    /\ report' = Nothing
    /\ UNCHANGED <<server, tenant, workload>>

PodStops ==
    /\ pod.there /\ pod' = Nothing
    /\ report' = Nothing
    /\ UNCHANGED <<server, tenant, workload>>

\* The CPU is only written again when it differs from what is declared.
ReconcileCPU(h, actual) ==
    IF ~Accepted(h) \/ Declared(h).limits.cpu = actual.limits.cpu THEN h
    ELSE [h EXCEPT !.quota = 0, !.period = 0, !.nanos = actual.limits.cpu * NanosPerMilli]

Reconcile(h, actual) ==
    [ReconcileCPU(h, actual) EXCEPT !.memory = actual.limits.memory,
        !.reservation = actual.requests.memory, !.cpuRequest = actual.requests.cpu]

\* The running Pod's resources, or the template's.
InForce == IF pod.there THEN pod.has ELSE workload.template

\* inspectContainer.
Inspect ==
    /\ workload.there
    /\ report' = [there |-> TRUE, host |-> Reconcile(workload.host, InForce)]
    /\ UNCHANGED <<server, tenant, workload, pod>>

Next ==
    \/ SetTenantDefaults \/ Remove \/ PodStarts \/ PodStops \/ Inspect
    \/ \E h \in Asked : Create(h) \/ Update(h)

Spec == Init /\ [][Next]_vars

-----------------------------------------------------------------------------
\* The types of the variables.
TypeOK ==
    /\ workload.there => Accepted(workload.asked) /\ Accepted(workload.host)
    /\ report.there => Accepted(report.host)
    /\ ValidDefaults(server)

\* Kubernetes takes the template: no request exceeds its limit, whatever mix
\* of asked and default values it has (applyResourceDefaults, ContainerUpdate).
RequestsFit ==
    workload.there =>
       LET t == workload.template
       IN  \A n \in Names : t.limits[n] = 0 \/ t.requests[n] <= t.limits[n]

\* A value the client asked for is never replaced by a default, and a quota is
\* the same CPU share as the NanoCPUs that stand for it (applyResourceDefaults).
ExplicitWins ==
    workload.there =>
       LET h == workload.asked
           t == workload.template
       IN  /\ h.memory > 0 => t.limits.memory = h.memory
           /\ h.reservation > 0 => t.requests.memory = h.reservation
           /\ h.nanos > 0 => t.limits.cpu * NanosPerMilli = h.nanos
           /\ h.quota > 0 => t.limits.cpu * Or(h.period, DefaultPeriod) = h.quota * MicrosPerQuota

\* What inspect reports, read as a request, is what the running Pod has, or
\* else the template (reconcileInspectResources).
InspectIsTrue ==
    report.there =>
       LET now == IF pod.there THEN pod.has ELSE workload.template
       IN  /\ Declared(report.host).limits = now.limits
           /\ report.host.reservation = now.requests.memory
           /\ report.host.cpuRequest = now.requests.cpu
=============================================================================
