---------------------------- MODULE MappingEngine ----------------------------
(***************************************************************************)
(* VMwareMappingEngine (services/vmware/mapping_engine): the OpenStack     *)
(* flavor nearest to a VM, a network for each adapter, a volume for each   *)
(* disk.                                                                   *)
(*                                                                         *)
(* The engine compares weighted distances of normalised differences.  The  *)
(* model compares their squares, multiplied by the denominators, so that   *)
(* they are integers: Distance is proportional to the square of the code's *)
(* distance by a factor that is the same for all flavors of a list.  The   *)
(* weights 0.4, 0.4, 0.2 become 2, 2, 1, the penalty 1.5 becomes 9 : 4.    *)
(***************************************************************************)
EXTENDS VCenterInventory

-----------------------------------------------------------------------------
(* Flavors. *)

target(vm) ==
    [vcpus |-> vm.hardware.cpu_count, ram |-> vm.hardware.memory_mb, disk |-> total_disk(vm)]

\* The largest value in a dimension, 1 if that is 0.
largest(flavors, Dim(_)) ==
    LET m == Max({Dim(flavors[i]) : i \in DOMAIN flavors}) IN IF m = 0 THEN 1 ELSE m

under(flavor, t) == flavor.vcpus < t.vcpus \/ flavor.ram < t.ram \/ flavor.disk < t.disk

square(x) == x * x

\* Faulty variant: disks are not compared.
DistanceWithoutDisk(flavors, flavor, t) ==
    (IF under(flavor, t) THEN 9 ELSE 4)
        * (square((t.vcpus - flavor.vcpus) * largest(flavors, LAMBDA f : f.ram))
           + square((t.ram - flavor.ram) * largest(flavors, LAMBDA f : f.vcpus)))

Distance(flavors, flavor, t) ==
    LET cpus == largest(flavors, LAMBDA f : f.vcpus)
        rams == largest(flavors, LAMBDA f : f.ram)
        gbs  == largest(flavors, LAMBDA f : f.disk)
    IN  (IF under(flavor, t) THEN 9 ELSE 4)
        * (2 * square((t.vcpus - flavor.vcpus) * rams * gbs)
           + 2 * square((t.ram - flavor.ram) * cpus * gbs)
           + square((t.disk - flavor.disk) * cpus * rams))

\* distance < best_score: the first of the nearest wins.
nearer(flavors, i, j, t) ==
    \/ Distance(flavors, flavors[i], t) < Distance(flavors, flavors[j], t)
    \/ Distance(flavors, flavors[i], t) = Distance(flavors, flavors[j], t) /\ i <= j

NoFlavor == [flavor_id |-> NoName]

_match_flavor(flavors, vm) ==
    IF flavors = <<>> THEN NoFlavor
    ELSE LET t    == target(vm)
             best == flavors[CHOOSE i \in DOMAIN flavors :
                               \A j \in DOMAIN flavors : nearer(flavors, i, j, t)]
         IN  [flavor_id |-> best.id, vcpus |-> best.vcpus, ram |-> best.ram, disk |-> best.disk,
              overprovisioned |-> best.vcpus >= t.vcpus /\ best.ram >= t.ram /\ best.disk >= t.disk,
              underprovisioned |-> under(best, t)]

-----------------------------------------------------------------------------
(* Networks and disks.  A network's name is a record of its letters and its *)
(* case, so that two names can differ in case only.                         *)

matches(networks, Same(_)) == SelectSeq(networks, LAMBDA net : Same(net.name))

\* The exact name first, then the name without regard to case.
_map_networks(networks, vm) ==
    LET map(nic) ==
            LET exact == matches(networks, LAMBDA n : n = nic.network_name)
                lower == matches(networks, LAMBDA n : n.letters = nic.network_name.letters)
            IN  CASE exact # <<>> -> [openstack_network_id |-> exact[1].id, match_type |-> "exact_name"]
                  [] exact = <<>> /\ lower # <<>> ->
                        [openstack_network_id |-> lower[1].id, match_type |-> "case_insensitive"]
                  [] OTHER -> [openstack_network_id |-> NoName, match_type |-> "not_found"]
        nics == vm.hardware.nics
    IN  [i \in DOMAIN nics |-> map(nics[i])]

\* The first disk is taken for the boot disk.
_map_disks(vm) ==
    LET disks == vm.hardware.disks
    IN  [i \in DOMAIN disks |->
            [openstack_size_gb |-> disks[i].capacity_gb,
             openstack_volume_type |-> IF disks[i].thin_provisioned THEN "ceph-rbd" ELSE "ceph",
             bootable |-> i = 1]]

map_vm(flavors, networks, vm) ==
    [vm_id |-> vm.id, flavor_match |-> _match_flavor(flavors, vm),
     network_mappings |-> _map_networks(networks, vm), disk_mappings |-> _map_disks(vm)]
=============================================================================
