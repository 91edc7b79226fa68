----------------------------- MODULE PlanService -----------------------------
(***************************************************************************)
(* VMwarePlanService (services/vmware/plan_service): a plan from assessed  *)
(* VMs, with the steps for each, its downtime and an order.                *)
(***************************************************************************)
EXTENDS Compatibility, MappingEngine

CONSTANTS LargeDiskGB, MediumDiskGB       \* 500 and 100 in the code

Step(action, minutes) == [action |-> action, estimated_minutes |-> minutes]

_build_steps(mapping) ==
    LET networks == mapping.network_mappings
        disks    == mapping.disk_mappings
    IN  (IF mapping.flavor_match = NoFlavor THEN <<>> ELSE <<Step("verify_flavor", 1)>>)
        \o [i \in DOMAIN networks |-> IF networks[i].match_type # "not_found"
                                      THEN Step("verify_network", 1)
                                      ELSE Step("create_network", 3)]
        \o [i \in DOMAIN disks |-> Step("create_volume", IF disks[i].bootable THEN 2 ELSE 1)]
        \o <<Step("import_image", 15), Step("create_server", 5), Step("cleanup", 1)>>

_estimate_downtime(vm) ==
    CASE vm.power_state = "poweredOff" -> 0
      [] vm.power_state = "suspended"  -> 5
      [] OTHER -> IF total_disk(vm) > LargeDiskGB THEN 30
                  ELSE IF total_disk(vm) > MediumDiskGB THEN 15 ELSE 10

total_minutes(items) ==
    FoldLeft(LAMBDA sum, item : sum + item.estimated_minutes, 0, items)

\* Networks that were found.
target_network_ids(mapping) ==
    SelectSeq([i \in DOMAIN mapping.network_mappings |->
                  mapping.network_mappings[i].openstack_network_id],
              LAMBDA id : id # NoName)

planVM(vm, mapping, priority) ==
    [vm_id |-> vm.id, vm_name |-> vm.name, priority |-> priority,
     target_flavor_id |-> mapping.flavor_match.flavor_id,
     target_network_ids |-> target_network_ids(mapping),
     estimated_downtime_minutes |-> _estimate_downtime(vm),
     steps |-> _build_steps(mapping),
     estimated_minutes |-> total_minutes(_build_steps(mapping))]

\* The key of the sort.  Names are numbers.
before(p, q) ==
    \/ p.priority < q.priority
    \/ p.priority = q.priority /\ p.vm_name <= q.vm_name

\* vms is a sequence of records vm, compatibility, mapping; overrides gives
\* the priority of some VMs.
generate_plan(vms, overrides) ==
    LET chosen   == SelectSeq(vms, LAMBDA v : v.compatibility.compatible)
        priority(v) == IF v.vm.id \in DOMAIN overrides THEN overrides[v.vm.id] ELSE 5
        planned  == [i \in DOMAIN chosen |->
                       planVM(chosen[i].vm, chosen[i].mapping, priority(chosen[i]))]
    IN  [vms |-> SortSeq(planned, before), total_vms |-> Len(planned),
         total_estimated_minutes |-> total_minutes(planned)]
=============================================================================
