---------------------------- MODULE MCMonitoring ----------------------------
(* Two hosts and a project; windows of two rows, so that older rows stay     *)
(* in a window and newer ones push a host or a project out of it; the last   *)
(* reading matches the pattern of the project metrics and is none of them.   *)
EXTENDS Monitoring

reading(m, s, p) == [metric |-> m, source |-> s, project |-> p]

MCReadings == {
    reading("hypervisor_cpu_usage", "h1", "unknown"),
    reading("hypervisor_memory_usage", "h1", "unknown"),
    reading("hypervisor_memory_usage", "h2", "unknown"),
    reading("project_total_vcpus", "openstack", "p1"),
    reading("projects_total", "openstack", "unknown")}

MCProjectLike == ProjectMetrics \cup {"projects_total"}
=============================================================================
