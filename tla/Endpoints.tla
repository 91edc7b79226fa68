------------------------------ MODULE Endpoints ------------------------------
(***************************************************************************)
(* The mutating endpoints under api/v1/endpoints and the service methods   *)
(* they call, reduced to what decides how an operation can end: what a     *)
(* method looks up first, what it changes and in how many calls, whether   *)
(* it blocks the event loop, and whether endpoint and method agree on the  *)
(* method's name, its arguments, the request's fields and the result's.    *)
(*                                                                         *)
(* A service is a function from method names to methods; an endpoint file  *)
(* is the set of its operations, as module TrackedOperation runs them.     *)
(***************************************************************************)
EXTENDS Naturals

CONSTANT InstanceCount       \* payload.instance_count of a batch deployment

ASSUME InstanceCountAssumption == InstanceCount \in Nat \ {0}

-----------------------------------------------------------------------------
(* Methods.                                                                *)
(*   blocks    an SDK method: it runs without awaiting                     *)
(*   lookup    "absent" / "present": it first demands that of the resource *)
(*   effect    what it does to the resources of the name it was given      *)
(*   calls     how many calls with an effect it makes                      *)
(*   strict    the store itself refuses to create what exists, or to       *)
(*             delete what does not                                        *)
(*   tolerant  it stops at the first failing call and returns normally     *)
(*   args, needs, result   its parameters, the payload fields it reads     *)
(*             beyond the common ones, the field that carries the new id   *)

SdkMethod(lookup, effect) ==
    [blocks |-> TRUE, lookup |-> lookup, effect |-> effect, calls |-> 1, strict |-> FALSE,
     tolerant |-> FALSE, args |-> 1, needs |-> {}, result |-> "id"]

\* SessionLocal methods await.  The tables with a unique name refuse a second row.
DbMethod(lookup, effect) ==
    [SdkMethod(lookup, effect) EXCEPT !.blocks = FALSE, !.strict = (effect = "create")]

\* Kubernetes names are unique within a namespace.
K8sMethod(effect) ==
    [SdkMethod("none", effect) EXCEPT !.strict = TRUE, !.result = "name"]

compute_service ==
    [create_server       |-> SdkMethod("none", "create"),
     perform_action      |-> [SdkMethod("present", "change") EXCEPT !.args = 2],
     delete_server       |-> SdkMethod("none", "delete"),
     resize_server       |-> [SdkMethod("present", "change") EXCEPT !.args = 2],
     confirm_resize      |-> SdkMethod("present", "change"),
     revert_resize       |-> SdkMethod("present", "change"),
     create_server_image |-> [SdkMethod("present", "change") EXCEPT !.args = 2]]

\* The methods of ComputeService that look up a volume, or its attachment, as well.
compute_volumes ==
    [attach_volume |-> [SdkMethod("present", "change") EXCEPT !.args = 2],
     detach_volume |-> [SdkMethod("present", "change") EXCEPT !.args = 2]]

\* The network, then its subnet.
network_service ==
    [create_network |-> [SdkMethod("absent", "create") EXCEPT !.calls = 2],
     delete_network |-> SdkMethod("none", "delete")]

router_service ==
    [create_router |-> SdkMethod("absent", "create"),
     delete_router |-> SdkMethod("none", "delete"),
     attach_subnet |-> [SdkMethod("present", "change") EXCEPT !.args = 2],
     detach_subnet |-> [SdkMethod("present", "change") EXCEPT !.args = 2]]

security_group_service ==
    [create_security_group |-> SdkMethod("none", "create"),
     delete_security_group |-> SdkMethod("none", "delete"),
     create_rule           |-> SdkMethod("none", "change"),
     delete_rule           |-> SdkMethod("none", "change")]

volume_service ==
    [create_volume |-> SdkMethod("none", "create"),
     delete_volume |-> SdkMethod("none", "delete")]

image_service ==
    [create_image |-> [SdkMethod("none", "create") EXCEPT !.needs = {"tags", "architecture"}],
     delete_image |-> SdkMethod("none", "delete")]

flavor_service ==
    [create_flavor |-> [SdkMethod("none", "create") EXCEPT !.needs = {"extra_specs"}],
     delete_flavor |-> SdkMethod("none", "delete")]

keypair_service ==
    [create_keypair |-> [SdkMethod("absent", "create") EXCEPT !.needs = {"type"}, !.result = "name"],
     delete_keypair |-> SdkMethod("none", "delete")]

storage_service ==
    [create_pool |-> DbMethod("none", "create"),
     delete_pool |-> DbMethod("present", "delete")]

\* batch_deploy makes servers, one call each, and leaves the cluster as it is.
cluster_service ==
    [create_cluster |-> DbMethod("absent", "create"),
     delete_cluster |-> DbMethod("present", "delete"),
     batch_deploy   |-> [DbMethod("present", "change") EXCEPT
                            !.calls = InstanceCount, !.tolerant = TRUE, !.args = 2]]

migration_service ==
    [create_migration |-> [DbMethod("none", "create") EXCEPT !.strict = FALSE]]

operations_service ==
    [create_scaling_policy |-> DbMethod("none", "create"),
     delete_scaling_policy |-> DbMethod("present", "delete"),
     create_scheduled_task |-> DbMethod("none", "create"),
     delete_scheduled_task |-> DbMethod("present", "delete")]

\* KubernetesService, kind by kind.
kubernetes_pods ==
    [create_pod |-> K8sMethod("create"),
     delete_pod |-> K8sMethod("delete")]

kubernetes_deployments ==
    [create_deployment |-> K8sMethod("create"),
     delete_deployment |-> K8sMethod("delete"),
     scale_deployment  |-> [K8sMethod("change") EXCEPT !.args = 2]]

kubernetes_services ==
    [create_service |-> K8sMethod("create"),
     delete_service |-> K8sMethod("delete")]

tenant_service ==
    [create_project |-> SdkMethod("none", "create"),
     delete_project |-> SdkMethod("none", "delete")]

-----------------------------------------------------------------------------
(* Endpoints. *)

\* What becomes of service.method(args..., payload) when the endpoint then reads
\* result.`reads` ("-": nothing).  raises: always before the method has an
\* effect (no such method, other arguments, a payload without the field),
\* always after it (a result without the field), or only when a call fails.
Tracked(service, method, args, payload, reads) ==
    LET m == IF method \in DOMAIN service
             THEN service[method]
             ELSE [SdkMethod("none", "change") EXCEPT !.args = 0]
    IN  [blocks |-> m.blocks, lookup |-> m.lookup, effect |-> m.effect, calls |-> m.calls,
         strict |-> m.strict, tolerant |-> m.tolerant,
         raises |-> CASE args # m.args \/ ~(m.needs \subseteq payload) -> "before"
                      [] reads \notin {"-", m.result}                  -> "after"
                      [] OTHER                                         -> "onFault"]

\* An endpoint that passes its only argument on and ignores the result.
TrackedById(service, method) == Tracked(service, method, 1, {}, "-")

servers ==
    {Tracked(compute_service, "create_server", 1, {}, "id"),
     Tracked(compute_service, "perform_action", 2, {}, "-"),
     TrackedById(compute_service, "delete_server")}

attachments ==
    {Tracked(compute_volumes, "attach_volume", 2, {}, "-"),
     Tracked(compute_volumes, "detach_volume", 2, {}, "-")}

resizes ==
    {Tracked(compute_service, "resize_server", 2, {}, "-"),
     TrackedById(compute_service, "confirm_resize"),
     TrackedById(compute_service, "revert_resize"),
     Tracked(compute_service, "create_server_image", 2, {}, "-")}

networks ==
    {Tracked(network_service, "create_network", 1, {}, "network_id"),
     TrackedById(network_service, "delete_network")}

routers ==
    {Tracked(router_service, "create_router", 1, {}, "router_id"),
     TrackedById(router_service, "delete_router"),
     Tracked(router_service, "add_interface", 2, {}, "-"),
     Tracked(router_service, "remove_interface", 2, {}, "-")}

security_groups ==
    {Tracked(security_group_service, "create_security_group", 1, {}, "security_group_id"),
     TrackedById(security_group_service, "delete_security_group"),
     Tracked(security_group_service, "create_rule", 2, {}, "rule_id"),
     TrackedById(security_group_service, "delete_rule")}

volumes ==
    {Tracked(volume_service, "create_volume", 1, {}, "id"),
     TrackedById(volume_service, "delete_volume")}

images ==
    {Tracked(image_service, "create_image", 1, {}, "id"),
     TrackedById(image_service, "delete_image")}

flavors ==
    {Tracked(flavor_service, "create_flavor", 1, {}, "id"),
     TrackedById(flavor_service, "delete_flavor")}

keypairs ==
    {Tracked(keypair_service, "create_keypair", 1, {}, "-"),
     TrackedById(keypair_service, "delete_keypair")}

storage ==
    {Tracked(storage_service, "create_pool", 1, {}, "id"),
     TrackedById(storage_service, "delete_pool")}

clusters ==
    {Tracked(cluster_service, "create_cluster", 1, {}, "id"),
     TrackedById(cluster_service, "delete_cluster"),
     Tracked(cluster_service, "batch_deploy", 2, {}, "-")}

migrations == {Tracked(migration_service, "create_migration", 1, {}, "id")}

scaling_policies ==
    {Tracked(operations_service, "create_scaling_policy", 1, {}, "id"),
     TrackedById(operations_service, "delete_scaling_policy")}

scheduled_tasks ==
    {Tracked(operations_service, "create_scheduled_task", 1, {}, "id"),
     TrackedById(operations_service, "delete_scheduled_task")}

pods ==
    {Tracked(kubernetes_pods, "create_pod", 1, {}, "name"),
     TrackedById(kubernetes_pods, "delete_pod")}

deployments ==
    {Tracked(kubernetes_deployments, "create_deployment", 1, {}, "name"),
     TrackedById(kubernetes_deployments, "delete_deployment"),
     Tracked(kubernetes_deployments, "scale_deployment", 2, {}, "name")}

services ==
    {Tracked(kubernetes_services, "create_service", 1, {}, "name"),
     TrackedById(kubernetes_services, "delete_service")}

tenants ==
    {Tracked(tenant_service, "create_project", 1, {}, "id"),
     TrackedById(tenant_service, "delete_project")}

\* The operations on one kind of resource; operations on different kinds share
\* no resource.
Families ==
    {servers \cup attachments \cup resizes, networks, routers, security_groups, volumes, images, flavors, keypairs,
     storage, clusters, migrations, scaling_policies, scheduled_tasks, pods, deployments,
     services, tenants}
=============================================================================
