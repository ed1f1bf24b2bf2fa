------------------------------- MODULE Discovery -------------------------------
(***************************************************************************)
(* From the bus to the device files: the pci module finds and publishes    *)
(* functions (src/kernel/modules/pci/src/), mdev asks modprobe for the     *)
(* module of each and writes its name to the attach file                   *)
(* (src/userspace/programs/system/mdev/), the ahci module probes the ports *)
(* of a controller and parses the partition table of each disk             *)
(* (src/kernel/modules/ahci/src/, src/kernel/modules/partition/parse.hpp). *)
(* mdev is one process that takes the devices one by one.                  *)
(***************************************************************************)
EXTENDS Integers, SequencesExt, FiniteSetsExt

CONSTANTS
    Machines,       \* what may be on the bus: sequences of [header, driver, ports : <<port>>]
    Taken,          \* sets of names that may be in devfs before the module comes
    PerSector       \* entries_per_sector of a partition table

\* A port is [status, gpt]; a gpt is [magic, crc, count, entries : <<Unused or <<first, last>> >>]
\* with the entries of whole sectors.  The table checksum on disk is over `count` entries.
Unused == <<>>

VARIABLES
    machine,        \* what is on the bus in this behaviour
    pci_devices,    \* the functions found
    published,      \* those with a directory and a link in sysfs
    bound,          \* those with a link in bus/pci/drivers: their driver was attached
    step,           \* [pc, dev, port, part]: where pci's init, mdev or the attach call is
    cached,         \* modules the manager knows
    drives,         \* [minor |-> [start, end, node]] of drive.cpp, as a sequence
    drive_count,
    nodes,          \* device files: <<name, minor>>
    links,          \* by-id links: <<what, target>>
    faulted,        \* a null pointer was followed
    taken           \* the names that were in devfs

discVars == <<machine, pci_devices, published, bound, step, cached, drives, drive_count, nodes, links,
              faulted, taken>>
minor_num == Len(drives)
Goto(pc) == step' = [step EXCEPT !.pc = pc]

Init ==
    /\ machine \in Machines
    /\ pci_devices = <<>> /\ published = {} /\ bound = {} /\ cached = {}
    /\ step = [pc |-> "detect", dev |-> 1, port |-> 1, part |-> 1]
    /\ drives = <<>> /\ drive_count = 0 /\ nodes = {} /\ links = {} /\ faulted = FALSE
    /\ taken \in Taken

-----------------------------------------------------------------------------
\* detect_pci(): functions with an ordinary header.
DetectPci ==
    /\ step.pc = "detect"
    /\ pci_devices' = SelectSeq(machine, LAMBDA f : f.header = 0)
    /\ Goto("publish")
    /\ UNCHANGED <<machine, taken, published, bound, cached, drives, drive_count, nodes, links, faulted>>

\* The loop of pci's init(): the directory, its nodes and the link of a device.  When a
\* node cannot be made init() returns, and the manager does not keep the module.
Publish ==
    /\ step.pc = "publish"
    /\ \/ /\ step.dev <= Len(pci_devices)
          /\ published' = published \cup {step.dev}
          /\ step' = [step EXCEPT !.dev = @ + 1]
       \/ step.dev <= Len(pci_devices) /\ Goto("failed") /\ UNCHANGED published
       \/ step.dev > Len(pci_devices) /\ step' = [step EXCEPT !.pc = "mdev", !.dev = 1] /\ UNCHANGED published
    /\ UNCHANGED <<machine, taken, pci_devices, bound, cached, drives, drive_count, nodes, links, faulted>>

\* probe_bus() of mdev: modprobe fails when no module matches the alias; a module that
\* does not load makes no difference to it.
NextDevice == step' = [step EXCEPT !.pc = "mdev", !.dev = @ + 1]
ProbeBus ==
    /\ step.pc = "mdev" /\ step.dev \in published
    /\ LET driver == pci_devices[step.dev].driver IN
        \/ driver = "none" /\ NextDevice /\ UNCHANGED cached
        \/ driver # "none" /\ Goto("attach") /\ cached' \in {cached, cached \cup {driver}}
    /\ UNCHANGED <<machine, taken, pci_devices, published, bound, drives, drive_count, nodes, links, faulted>>

\* uevent_dev_attach_wcb(): a module that is known must export pci_driver.
Attach ==
    /\ step.pc = "attach"
    /\ LET driver == pci_devices[step.dev].driver IN
        /\ IF driver \notin cached THEN NextDevice
           ELSE IF driver = "ahci" THEN step' = [step EXCEPT !.pc = "port", !.port = 1]
           ELSE Goto("stopped")
        /\ faulted' = (driver \in cached /\ driver # "ahci")
    /\ UNCHANGED <<machine, taken, pci_devices, published, bound, cached, drives, drive_count, nodes, links>>

-----------------------------------------------------------------------------
Port == pci_devices[step.dev].ports[step.port]
NextPort == step' = [step EXCEPT !.pc = "port", !.port = @ + 1]
DiskName == <<"ahci", drive_count>>

\* add_dev(): EEXIST for a name that is in devfs, the node stays null then
NoNode == <<>>
Refused(name) == name \in taken \/ \E n \in nodes : n[1] = name
AddDev(name) == IF Refused(name) THEN nodes ELSE nodes \cup {<<name, minor_num>>}
NodeOf(name) == IF Refused(name) THEN NoNode ELSE name

\* init_drive() for one port of init_pci_dev(): absent, inactive and unknown devices are
\* passed over, the kernel panics over an enclosure bridge or a port multiplier; a disk
\* gets a minor, an entry with no end, and a device file, without which its partitions
\* are not looked for and it is not counted.
InitDrive ==
    /\ step.pc = "port" /\ step.port <= Len(pci_devices[step.dev].ports)
    /\ IF Port.status \in {"ata", "atapi"}
       THEN /\ drives' = Append(drives, [start |-> 0, end |-> 0, node |-> NodeOf(DiskName)])
            /\ nodes' = AddDev(DiskName)
            /\ IF Refused(DiskName) THEN NextPort
               ELSE Goto(IF Port.status = "ata" THEN "parse" ELSE "counted")
       ELSE /\ IF Port.status = "bridge" THEN Goto("panic") ELSE NextPort
            /\ UNCHANGED <<drives, nodes>>
    /\ UNCHANGED <<machine, taken, pci_devices, published, bound, cached, drive_count, links, faulted>>

\* Variant: the entries end at the first unused one.
MutParsed(gpt) ==
    LET first == SelectInSeq(gpt.entries, LAMBDA e : e = Unused) IN
    IF first = 0 THEN gpt.entries ELSE SubSeq(gpt.entries, 1, first - 1)

\* parse_partitions(): whole sectors of entries are read and checked, the unused ones
\* left out.  Nothing, when there is no table or a checksum does not match.
Parsed(gpt) == SelectSeq(gpt.entries, LAMBDA e : e # Unused)
HasTable(gpt) == gpt.magic /\ gpt.crc /\ gpt.count % PerSector = 0

\* find_partitions() follows the pointer it gets, also when that is null.
FindPartitions ==
    /\ step.pc = "parse"
    /\ IF HasTable(Port.gpt)
       THEN /\ step' = [step EXCEPT !.pc = "partition", !.part = 1]
            /\ links' = links \cup {<<<<"disk", step.dev, step.port>>, DiskName>>}
            /\ UNCHANGED faulted
       ELSE Goto("stopped") /\ faulted' = TRUE /\ UNCHANGED links
    /\ UNCHANGED <<machine, taken, pci_devices, published, bound, cached, drives, drive_count, nodes>>

\* Its loop: a minor, an entry, a device file and, if there is one, a link by id, which
\* names the disk.
AddPartition ==
    LET parts == Parsed(Port.gpt)  name == DiskName \o <<"p", minor_num>> IN
    /\ step.pc = "partition"
    /\ IF step.part > Len(parts) THEN Goto("counted") /\ UNCHANGED <<drives, nodes, links>>
       ELSE /\ drives' = Append(drives, [start |-> parts[step.part][1], end |-> parts[step.part][2],
                                         node |-> NodeOf(name)])
            /\ nodes' = AddDev(name)
            /\ links' = IF Refused(name) THEN links
                        ELSE links \cup {<<<<"part", step.dev, step.port, step.part>>, DiskName>>}
            /\ step' = [step EXCEPT !.part = @ + 1]
    /\ UNCHANGED <<machine, taken, pci_devices, published, bound, cached, drive_count, faulted>>

\* The end of init_drive(): the disk is counted.
CountDrive ==
    /\ step.pc = "counted"
    /\ drive_count' = drive_count + 1
    /\ NextPort
    /\ UNCHANGED <<machine, taken, pci_devices, published, bound, cached, drives, nodes, links, faulted>>

\* init_pci_dev() returns; the link in bus/pci/drivers is made, mdev goes on.
Attached ==
    /\ step.pc = "port" /\ step.port > Len(pci_devices[step.dev].ports)
    /\ NextDevice
    /\ bound' = bound \cup {step.dev}
    /\ UNCHANGED <<machine, taken, pci_devices, published, cached, drives, drive_count, nodes, links, faulted>>

Next ==
    \/ DetectPci \/ Publish \/ ProbeBus \/ Attach
    \/ InitDrive \/ FindPartitions \/ AddPartition \/ CountDrive \/ Attached

-----------------------------------------------------------------------------
\* The disks of the controllers that were attached, and the ranges expected of the n-th:
\* its partitions too, unless its name or that of a disk before it is taken, after
\* which all disks ask for that name.
Disks ==
    LET ports == FlattenSeq([i \in 1..Cardinality(bound) |->
                                pci_devices[SetToSortSeq(bound, <)[i]].ports])
    IN  SelectSeq(ports, LAMBDA port : port.status \in {"ata", "atapi"})
RangesOf(n) ==
    LET named == \A k \in 0..(n - 1) : <<"ahci", k>> \notin taken
        parts == IF named /\ Disks[n].status = "ata" THEN Disks[n].gpt.entries ELSE <<>>
    IN  <<<<0, 0>>>> \o SelectSeq(parts, LAMBDA e : e # Unused)

\* Whenever mdev is between two devices, drive.cpp's map has the range of every disk and
\* used partition of the controllers attached so far, in their order and under minors
\* that count up; the device files are those of the entries that got one, with their
\* minors and no two with the same name; and an entry has none only because a name is
\* taken (drive.cpp:31, 119, 126, 134).
DrivesExact ==
    step.pc = "mdev" =>
        /\ [i \in DOMAIN drives |-> <<drives[i].start, drives[i].end>>]
               = FlattenSeq([n \in DOMAIN Disks |-> RangesOf(n)])
        /\ nodes = {<<drives[i].node, i - 1>> :
                       i \in {j \in DOMAIN drives : drives[j].node # NoNode}}
        /\ \A i, j \in DOMAIN drives :
              i # j /\ drives[i].node = drives[j].node => drives[i].node = NoNode
        /\ \A i \in DOMAIN drives : drives[i].node = NoNode =>
              \E name \in taken : Len(name) = 2 \/ name[4] = i - 1

=============================================================================
