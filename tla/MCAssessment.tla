---------------------------- MODULE MCAssessment ----------------------------
(* Scenarios of three sorts: one VM of every description, planned; one VM of   *)
(* several sizes against lists of flavors; requests that meet each other and a *)
(* vCenter that changes.                                                       *)
EXTENDS Assessment

CONSTANTS v1, v2, v3, r1, r2

Name(letters, upper) == [letters |-> letters, upper |-> upper]

Disk(label, kb)    == [class |-> "VirtualDisk", label |-> label, capacityInKB |-> kb, thin |-> FALSE]
Scsi(class, sub)   == [class |-> class, subType |-> sub]
Other(class)       == [class |-> class]
Card(class, net)   == [class |-> class, network |-> net]

Plain(id, name) ==
    [id |-> id, name |-> name, powerState |-> "poweredOn", numCPU |-> 1, memoryMB |-> 1,
     guest |-> [present |-> TRUE, name |-> {"supported"}, tools |-> "toolsOk"],
     summaryName |-> {"supported"}, firmware |-> "bios", bootOptions |-> "plain",
     layout |-> <<"d1.vmdk">>,
     device |-> <<Scsi("ParaVirtualSCSIController", ""), Disk("Hard disk 1", 2),
                  Card("VirtualVmxnet3", Name("lan", FALSE))>>]

DeviceLists ==
    {<<>>,
     <<Other("VirtualIDEController"), Other("VirtualIDEController"), Disk("Hard disk 1", 3)>>,
     <<Other("VirtualNVMEController"), Disk("Hard disk 1", 5), Disk("Hard disk 2", 4),
       Card("VirtualE1000", Name("lan", TRUE)), Card("VirtualSriovEthernetCard", Name("dmz", FALSE))>>,
     <<Scsi("VirtualLsiLogicController", "lsilogic"), Other("VirtualIDEController"),
       Disk("Hard disk 1", 4), Disk("Hard disk 2", 4), Card("VirtualEthernetCard", Name("lan", FALSE))>>}

Described ==
    {[Plain(v1, 1) EXCEPT !.powerState = power, !.numCPU = cpus, !.memoryMB = mb, !.guest = guest,
                          !.bootOptions = boot, !.layout = layout, !.device = devs,
                          !.firmware = IF boot = "secure" THEN "efi" ELSE "bios"] :
        power \in {"poweredOn", "poweredOff", "suspended"}, cpus \in {0, 3}, mb \in {0, 3},
        guest \in {[present |-> TRUE, name |-> n, tools |-> "toolsNotRunning"] :
                       n \in {NoName, {}, {"supported"}, {"supported", "unsupported"}}}
                  \cup {[present |-> FALSE, name |-> NoName, tools |-> ""]},
        boot \in {"plain", "secure"}, layout \in {<<>>, <<"d1.vmdk">>}, devs \in DeviceLists}

Flavor(id, c, m, d) == [id |-> id, vcpus |-> c, ram |-> m, disk |-> d]

FlavorLists ==
    {<<>>, <<Flavor("s", 1, 1, 1), Flavor("m", 2, 2, 2), Flavor("l", 4, 4, 4)>>,
     <<Flavor("l", 4, 4, 4), Flavor("c", 4, 1, 0), Flavor("m", 2, 2, 1), Flavor("n", 1, 3, 2)>>,
     <<Flavor("d", 4, 4, 5), Flavor("l", 4, 4, 2)>>}

Sized ==
    {[Plain(v1, 1) EXCEPT !.numCPU = c, !.memoryMB = m, !.device = <<Disk("Hard disk 1", kb)>>] :
        c \in 1..4, m \in 1..4, kb \in 1..5}

Networks == <<[id |-> "n1", name |-> Name("lan", TRUE)], [id |-> "n2", name |-> Name("lan", FALSE)]>>

Request(kind, ids, mapping, limit) ==
    [kind |-> kind, vm_ids |-> ids, include_mapping |-> mapping, max_concurrency |-> limit]

Nothing == Request("none", <<>>, FALSE, 1)

Scenario(inventories, flavors, q1, q2) ==
    [inventories |-> inventories, flavors |-> flavors, networks |-> Networks,
     requests |-> [r \in Requests |-> IF r = r1 THEN q1 ELSE q2]]

One(vm) == <<[id \in {v1} |-> vm]>>

Two(first, second) == [id \in {v1, v2} |-> IF id = v1 THEN first ELSE second]

\* v1 is suspended and v2 vanishes, at once or one after the other.
Suspended == [Plain(v1, 2) EXCEPT !.powerState = "suspended"]
Changing  == <<Two(Plain(v1, 2), Plain(v2, 1)), [id \in {v1} |-> Suspended]>>
Stepwise  == <<Two(Plain(v1, 2), Plain(v2, 1)), Two(Suspended, Plain(v2, 1)), [id \in {v1} |-> Suspended]>>

\* A VM that is off has a name before that of one that runs, and a disk of a gigabyte
\* and a half.
OneOff == <<Two(Plain(v1, 2), [Plain(v2, 1) EXCEPT !.powerState = "poweredOff",
                                                   !.device = <<Disk("Hard disk 1", 3)>>])>>

Parallel == Request("parallel", <<v1, v2>>, TRUE, 1)

\* Pairs of requests.
Meetings ==
    {<<Parallel, Request("assess", <<v1, v3, v2>>, TRUE, 1)>>,
     <<Parallel, Request("parallel", <<v2>>, FALSE, 1)>>,
     <<Parallel, Request("progress", <<>>, FALSE, 1)>>,
     <<Request("parallel", <<>>, TRUE, 1), Request("plan", <<v1, v2, v1>>, TRUE, 1)>>,
     <<Request("assess", <<>>, TRUE, 1), Request("single", <<v2>>, FALSE, 1)>>}

\* Requests that meet only a vCenter that changes more often.
Alone ==
    {Request("parallel", <<v1, v1, v3>>, FALSE, 2), Request("assess", <<v1, v3, v2>>, TRUE, 1),
     Request("plan", <<v1, v2, v1>>, TRUE, 1)}

OffPlanned == Scenario(OneOff, <<Flavor("m", 2, 2, 2)>>, Request("plan", <<v1, v2>>, TRUE, 1), Nothing)

MCScenarios ==
    {Scenario(One(vm), <<Flavor("m", 2, 2, 2)>>, Request("single", <<v1>>, TRUE, 1), Nothing) :
        vm \in Described}
    \cup {Scenario(One(vm), flavors, Request("plan", <<v1>>, TRUE, 1), Nothing) :
            vm \in Sized, flavors \in FlavorLists}
    \cup {Scenario(Changing, <<Flavor("m", 2, 2, 2)>>, pair[1], pair[2]) : pair \in Meetings}
    \cup {Scenario(Stepwise, <<Flavor("m", 2, 2, 2)>>, q, Nothing) : q \in Alone}
    \cup {OffPlanned}
=============================================================================
