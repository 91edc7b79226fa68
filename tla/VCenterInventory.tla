--------------------------- MODULE VCenterInventory ---------------------------
(***************************************************************************)
(* What the backend makes of a vCenter object: VMwareClientFactory         *)
(* (clients/vmware/connection) turns a pyVmomi object into a dictionary,   *)
(* VMwareInventoryService (services/vmware/inventory_service) turns that   *)
(* into the VMSummary that compatibility, mapping and plan work on.        *)
(*                                                                         *)
(* A vCenter VM is a record.  Its guest OS is the set of the known name    *)
(* fragments ("supported", "unsupported") its full name contains, {} for a *)
(* name with none of them, and NoName for no name at all.  A disk's size   *)
(* is in kilobytes, KBPerGB to a gigabyte.                                 *)
(***************************************************************************)
EXTENDS Integers, Sequences, SequencesExt

CONSTANTS KBPerGB, NoName

ASSUME KBPerGBAssumption == KBPerGB \in Nat \ {0}

-----------------------------------------------------------------------------
(* pyVmomi's classes.  isinstance is true of a class and of those above it. *)

superclasses(class) ==
    CASE class = "ParaVirtualSCSIController" -> {"VirtualSCSIController"}
      [] class = "VirtualLsiLogicController" -> {"VirtualSCSIController"}
      [] class \in {"VirtualVmxnet3", "VirtualVmxnet2", "VirtualE1000e", "VirtualE1000",
                    "VirtualPCNet32", "VirtualSriovEthernetCard"} -> {"VirtualEthernetCard"}
      [] OTHER -> {}

isinstance(dev, class) == class \in {dev.class} \cup superclasses(dev.class)

devices(vm, class) ==
    SelectSeq(vm.device, LAMBDA dev : isinstance(dev, class))

-----------------------------------------------------------------------------
(* Attribute extraction. *)

\* Deduplicate by disk_file.
sameDisk(d, e) == d.disk_file = e.disk_file

\* Whole gigabytes of a device.
capacity(dev) == dev.capacityInKB \div KBPerGB

\* The elements of s that are like none before them.
firsts(s, Same(_, _)) ==
    LET kept == SelectSeq([i \in 1..Len(s) |-> i],
                          LAMBDA i : \A j \in 1..(i - 1) : ~Same(s[j], s[i]))
    IN  [k \in 1..Len(kept) |-> s[kept[k]]]

\* The files of the layout, with no size, and then the devices.  Without a
\* layout the devices are not looked at.
_extract_vm_disks(vm) ==
    LET files == [i \in 1..Len(vm.layout) |->
                    [disk_file |-> vm.layout[i], capacity_gb |-> 0, thin_provisioned |-> TRUE]]
        devs  == devices(vm, "VirtualDisk")
        disks == [i \in 1..Len(devs) |->
                    [disk_file |-> devs[i].label, capacity_gb |-> capacity(devs[i]),
                     thin_provisioned |-> devs[i].thin]]
    IN  IF vm.layout = <<>> THEN <<>> ELSE firsts(files \o disks, sameDisk)

nic_type(dev) ==
    CASE isinstance(dev, "VirtualVmxnet3")           -> "vmxnet3"
      [] isinstance(dev, "VirtualVmxnet2")           -> "vmxnet2"
      [] isinstance(dev, "VirtualE1000e")            -> "e1000e"
      [] isinstance(dev, "VirtualE1000")             -> "e1000"
      [] isinstance(dev, "VirtualPCNet32")           -> "pcnet32"
      [] isinstance(dev, "VirtualSriovEthernetCard") -> "sriov"
      [] OTHER                                       -> "unknown"

_extract_vm_nics(vm) ==
    LET cards == devices(vm, "VirtualEthernetCard")
    IN  [i \in 1..Len(cards) |->
            [network_name |-> cards[i].network, nic_type |-> nic_type(cards[i])]]

\* The same classes once more, for the list of types that get_vm_detail returns
\* beside the adapters.
_get_nic_types(vm) ==
    LET cards == devices(vm, "VirtualEthernetCard")
    IN  [i \in 1..Len(cards) |-> nic_type(cards[i])]

\* The SCSI test comes first, so a paravirtual controller is reported by its
\* subType or as lsilogic.
controller(dev) ==
    IF isinstance(dev, "VirtualSCSIController")
    THEN IF dev.subType # "" THEN dev.subType ELSE "lsilogic"
    ELSE CASE isinstance(dev, "VirtualAHCIController")     -> "sata"
           [] isinstance(dev, "VirtualNVMEController")     -> "nvme"
           [] isinstance(dev, "ParaVirtualSCSIController") -> "pvscsi"
           [] isinstance(dev, "VirtualIDEController")      -> "ide"

_get_disk_controller_types(vm) ==
    LET controllers == SelectSeq(vm.device, LAMBDA dev : \E class \in
            {"VirtualSCSIController", "VirtualAHCIController", "VirtualNVMEController",
             "ParaVirtualSCSIController", "VirtualIDEController"} : isinstance(dev, class))
    IN  [i \in 1..Len(controllers) |-> controller(controllers[i])]

\* A guest object always has the attribute, so the summary's name is used only
\* for a VM without one.
guest_fullname(vm) == IF vm.guest.present THEN vm.guest.name ELSE vm.summaryName

_get_firmware(vm) == vm.firmware

_get_secure_boot(vm) == vm.bootOptions = "secure"

_get_tools_status(vm) == IF vm.guest.present THEN vm.guest.tools ELSE ""

-----------------------------------------------------------------------------
(* get_vm_detail and _build_vm_summary.  hardware is always there. *)

get_vm_detail(vm) ==
    [id |-> vm.id, name |-> vm.name, power_state |-> vm.powerState,
     guest_os |-> guest_fullname(vm), cpu_count |-> vm.numCPU, memory_mb |-> vm.memoryMB,
     disks |-> _extract_vm_disks(vm), nics |-> _extract_vm_nics(vm),
     firmware |-> _get_firmware(vm), secure_boot_enabled |-> _get_secure_boot(vm),
     vmware_tools_status |-> _get_tools_status(vm),
     disk_controller_types |-> _get_disk_controller_types(vm),
     nic_types |-> _get_nic_types(vm)]

\* The label of a disk is its disk_file.
VMDisk(d) == [label |-> d.disk_file, capacity_gb |-> d.capacity_gb,
              thin_provisioned |-> d.thin_provisioned]

_build_vm_summary(vm) ==
    LET detail == get_vm_detail(vm)
    IN  [id |-> detail.id, name |-> detail.name, power_state |-> detail.power_state,
         guest_os |-> detail.guest_os,
         hardware |-> [cpu_count |-> detail.cpu_count, memory_mb |-> detail.memory_mb,
                       disks |-> [i \in DOMAIN detail.disks |-> VMDisk(detail.disks[i])],
                       nics |-> detail.nics],
         firmware |-> detail.firmware, secure_boot_enabled |-> detail.secure_boot_enabled,
         vmware_tools_status |-> detail.vmware_tools_status,
         disk_controller_types |-> detail.disk_controller_types]

total_disk(summary) ==
    FoldLeft(LAMBDA sum, d : sum + d.capacity_gb, 0, summary.hardware.disks)
=============================================================================
