---------------------------- MODULE Compatibility ----------------------------
(***************************************************************************)
(* VMwareCompatibilityService (services/vmware/compatibility): eleven      *)
(* checks append issues, the issues that are not marked compatible lower a *)
(* score, and the score and the critical issues decide.                    *)
(*                                                                         *)
(* Scores are in hundredths.  A check is the sequence of the issues it     *)
(* appends; messages are left out.                                         *)
(***************************************************************************)
EXTENDS VCenterInventory, FiniteSets

CONSTANTS MaxVCPUs, MaxMemoryMB, MaxDiskGB    \* 128, 524288 and 2000 in the code

Issue(severity, category) ==
    [severity |-> severity, category |-> category, compatible |-> FALSE]

Note(severity, category) ==
    [severity |-> severity, category |-> category, compatible |-> TRUE]

If(condition, issue) == IF condition THEN <<issue>> ELSE <<>>

-----------------------------------------------------------------------------
(* The checks. *)

_check_power_state(vm) == If(vm.power_state = "suspended", Issue("critical", "os"))

\* Unsupported names are tried first; a name can match both lists.
_check_os_compat(vm) ==
    CASE vm.guest_os = NoName          -> <<Issue("high", "os")>>
      [] vm.guest_os # NoName /\ "unsupported" \in vm.guest_os -> <<Issue("critical", "os")>>
      [] OTHER -> If("supported" \notin vm.guest_os, Note("low", "os"))

_check_cpu(vm) ==
    If(vm.hardware.cpu_count <= 0, Issue("critical", "cpu"))
    \o If(vm.hardware.cpu_count > MaxVCPUs, Note("low", "cpu"))

_check_memory(vm) ==
    If(vm.hardware.memory_mb <= 0, Issue("critical", "memory"))
    \o If(vm.hardware.memory_mb > MaxMemoryMB, Note("low", "memory"))

_check_disk(vm) ==
    If(vm.hardware.disks = <<>>, Issue("high", "disk"))
    \o If(total_disk(vm) > MaxDiskGB, Note("low", "disk"))

_check_network(vm) == If(vm.hardware.nics = <<>>, Note("low", "network"))

_check_firmware(vm) == If(vm.firmware = "efi", Note("medium", "firmware"))

_check_secure_boot(vm) == If(vm.secure_boot_enabled, Issue("high", "firmware"))

_check_vmware_tools(vm) ==
    If(vm.vmware_tools_status \in {"toolsNotInstalled", "toolsNotRunning"},
       Note("medium", "vmware_tools"))

NoIssue == [severity |-> "none", category |-> "none", compatible |-> TRUE]

\* The issues of a list of types, each type reported once.
issuesOf(types, IssueOf(_)) ==
    LET seen == firsts(types, LAMBDA s, t : s = t)
    IN  SelectSeq([i \in DOMAIN seen |-> IssueOf(seen[i])], LAMBDA issue : issue # NoIssue)

controllerIssue(ctype) ==
    CASE ctype = "ide"      -> Issue("high", "disk_controller")
      [] ctype = "lsilogic" -> Note("low", "disk_controller")
      [] ctype = "nvme"     -> Note("medium", "disk_controller")
      [] OTHER              -> NoIssue

\* Faulty variant: a type is reported for each controller that has it.
_check_every_controller(vm) ==
    LET types == vm.disk_controller_types
    IN  SelectSeq([i \in DOMAIN types |-> controllerIssue(types[i])], LAMBDA issue : issue # NoIssue)

_check_disk_controllers(vm) == issuesOf(vm.disk_controller_types, controllerIssue)

nicIssue(ntype) ==
    CASE ntype = "e1000"                           -> Note("low", "nic")
      [] ntype \in {"vmxnet2", "sriov", "unknown"} -> Note("medium", "nic")
      [] OTHER                                     -> NoIssue

_check_nic_types(vm) ==
    issuesOf([i \in DOMAIN vm.hardware.nics |-> vm.hardware.nics[i].nic_type], nicIssue)

-----------------------------------------------------------------------------
(* The verdict. *)

SCORE_WEIGHTS == [critical |-> 30, high |-> 20, medium |-> 10, low |-> 5, info |-> 0]

\* Weights are taken off one by one and never below 0.
score(issues) ==
    LET number(severity) == Cardinality({i \in DOMAIN issues :
                               issues[i].severity = severity /\ ~issues[i].compatible})
        off == [s \in DOMAIN SCORE_WEIGHTS |-> number(s) * SCORE_WEIGHTS[s]]
    IN  Max({0, 100 - SumFunction(off)})

has_critical(issues) ==
    \E i \in DOMAIN issues : issues[i].severity = "critical" /\ ~issues[i].compatible

evaluate(vm) ==
    LET issues == _check_power_state(vm) \o _check_os_compat(vm) \o _check_cpu(vm)
                  \o _check_memory(vm) \o _check_disk(vm) \o _check_network(vm)
                  \o _check_firmware(vm) \o _check_secure_boot(vm) \o _check_vmware_tools(vm)
                  \o _check_disk_controllers(vm) \o _check_nic_types(vm)
    IN  [vm_id |-> vm.id, issues |-> issues, score |-> score(issues),
         compatible |-> score(issues) >= 50 /\ ~has_critical(issues)]
=============================================================================
