------------------------------- MODULE MCBoot -------------------------------
\* Starting up: the cores, the interrupt machinery, the modules modprobe asks for
\* and the devices they find.  A behaviour is one of a single part, as `part` says.
\*
\* Cores: machines with three cores, with LAPIC ids that are not their linear ids, a
\*   core listed twice or not there, overrides before and after their I/O APIC, one
\*   and two cores with an address override, and no valid root table.
\* Frames: two cores, two user threads and a kernel thread that becomes one, page faults
\*   inside system calls.
\* Handlers: the clock and two handlers that come and go, two interrupts.
\* Modprobe: four modules with dependencies in every order, some named by aliases or
\*   missing, up to three requests.
\* Wildcards: patterns of up to four and strings of up to four characters.
\* Modules: two processes that load three modules.
\* Devices: a bridge, a function without driver, two disk controllers with three
\*   ports of seven kinds, a function whose module is not a PCI driver, and names
\*   that are taken in devfs.
EXTENDS Boot, SequencesExt

CONSTANTS Parts, PerSector

VARIABLES
    part,
    probe,
    computer, pci_devices, published, bound, step, cached, drives, drive_count, nodes,
    links, faulted, taken

-----------------------------------------------------------------------------
Lapic(id, flags) == [type |-> "lapic", id |-> id, flags |-> flags]
IoApic(base, entries) == [type |-> "ioapic", base |-> base, entries |-> entries]
Override(irq, gsi) == [type |-> "override", irq |-> irq, gsi |-> gsi]
Tables == <<<<"APIC", 100>>, <<"HPET", 200>>, <<"APIC", 300>>>>

CpuMachines == {
    [bsp |-> 0, present |-> {0, 1, 2}, roots |-> [xsdt |-> Tables],
     records |-> <<Lapic(0, 1), Lapic(1, 1), Lapic(2, 1), IoApic(0, 24), Override(0, 2),
                   Override(9, 9)>>],
    [bsp |-> 2, present |-> {0, 2, 4}, roots |-> [rsdt |-> Tables, xsdt |-> <<Tables[1]>>],
     records |-> <<Override(5, 5), IoApic(0, 4), Lapic(4, 2), Lapic(2, 1), Lapic(4, 1),
                   IoApic(4, 4), Override(7, 4), Lapic(0, 1), Lapic(6, 0)>>],
    [bsp |-> 0, present |-> {0, 1}, roots |-> [rsdt |-> Tables],
     records |-> <<[type |-> "nmi"], Lapic(0, 1), Lapic(1, 3), Lapic(3, 2),
                   IoApic(0, 8), Override(0, 2), Override(3, 2)>>],
    [bsp |-> 0, present |-> {0}, roots |-> [rsdt |-> Tables],
     records |-> <<Lapic(0, 1), Lapic(3, 0), [type |-> "address"], IoApic(0, 8), Override(0, 2)>>],
    [bsp |-> 0, present |-> {0, 3}, roots |-> [rsdt |-> Tables],
     records |-> <<[type |-> "address"], Lapic(0, 1), Lapic(3, 3), IoApic(0, 8)>>],
    [bsp |-> 0, present |-> {0}, roots |-> <<>>, records |-> <<Lapic(0, 1)>>]}

cpu == <<machine, phase, acpi_tables, lapic_addr, bsp_apic_id, index, core_map, ioApics, routed,
         starting, started, answered, ap, lost, clock>>

stacks == <<current_thread, stack, kernel, frames, rsp0, smashed, trampled>>

list == <<head, next, reg, at, called, stable, raced, interrupts, time_ms, current_time, uptime>>

-----------------------------------------------------------------------------
Modules == {<<"a">>, <<"b">>, <<"c">>, <<"d">>}
\* what modules.dep may name below a module, an alias or a missing module too
Below(m) == CASE m = <<"a">> -> {} [] m = <<"b">> -> {<<"a">>, <<"q">>}
              [] m = <<"c">> -> {<<"a">>, <<"w", "z">>}
              [] m = <<"d">> -> {<<"a">>, <<"b">>, <<"x">>}
\* dependencies in one order or the other
Listings(S) == {s \in UNION {[1..n -> S] : n \in 0..Cardinality(S)} :
                   \A i, j \in DOMAIN s : s[i] = s[j] => i = j}
Probing == INSTANCE Modprobe WITH
    Names <- Modules, HashedAliases <- {<<<<"x">>, <<"c">>>>},
    PatternAliases <- <<<<<<"y", "*">>, <<"x">>>>, <<<<"*", "z">>, <<"b">>>>>>
\* what the aliases stand for
Meant == [n \in Modules \union {<<"x">>, <<"y", "z">>, <<"w", "z">>, <<"q">>} |->
             IF n \in Modules THEN {n} ELSE IF n = <<"w", "z">> THEN {<<"b">>}
             ELSE IF n = <<"q">> THEN {} ELSE {<<"c">>}]
Asked == DOMAIN Meant
Requests == UNION {[1..n -> Asked] : n \in 1..2} \union [1..3 -> Modules]

NoProbe == [deps |-> <<>>, requests |-> <<>>, order |-> <<>>]
ProbeModules ==
    /\ probe = NoProbe
    /\ \E requests \in Requests : \E d \in Listings(Below(<<"d">>)) :
       \E c \in Listings(Below(<<"c">>)) : \E b \in Listings(Below(<<"b">>)) :
         LET deps == (<<"a">> :> <<>>) @@ (<<"b">> :> b) @@ (<<"c">> :> c) @@ (<<"d">> :> d)
         IN probe' = [deps |-> deps, requests |-> requests,
                      order |-> Probing!OrderedModules(deps, requests)]

Strings(S, n) == UNION {[1..k -> S] : k \in 0..n}
MatchName ==
    /\ probe = NoProbe
    /\ \E w \in Strings({"a", "b", "*", "?"}, 4), s \in Strings({"a", "b"}, 4) :
         probe' = [deps |-> w, requests |-> s,
                   order |-> <<Probing!Strmatch(w, s), Probing!Matches(w, s)>>]

ModuleDeps == [m \in {"a", "b", "c"} |->
                  CASE m = "a" -> <<>> [] m = "b" -> <<"a">> [] m = "c" -> <<"a", "b">>]
ModuleNeeds == [m \in {"a", "b", "c"} |-> IF m = "a" THEN {} ELSE {"a"}]
loading == <<f_next_major, f_module_cache, f_module_map, module, todo, loader, initialised>>
Orders == {<<"a", "b">>, <<"a", "b", "c">>}

-----------------------------------------------------------------------------
Gpt(magic, crc, count, entries) ==
    [magic |-> magic, crc |-> crc, count |-> count, entries |-> entries]
Port(status, gpt) == [status |-> status, gpt |-> gpt]
Good == Gpt(TRUE, TRUE, 4, <<<<1, 2>>, <<>>, <<3, 5>>, <<>>>>)
Ports == {Port("none", Good), Port("atapi", Good), Port("ata", Good),
          Port("ata", Gpt(TRUE, TRUE, 2, <<<<>>, <<4, 6>>>>)),
          Port("ata", Gpt(TRUE, TRUE, 3, <<<<1, 2>>, <<3, 4>>, <<5, 6>>, <<>>>>)),
          Port("ata", Gpt(FALSE, TRUE, 4, Good.entries)), Port("bridge", Good)}
Function(header, driver, ports) == [header |-> header, driver |-> driver, ports |-> ports]
Computers == {<<Function(1, "ahci", <<>>), Function(0, "none", <<>>),
                Function(0, "ahci", <<p, q>>), Function(0, "ahci", <<r>>),
                Function(0, "test", <<>>)>> : p, q, r \in Ports}
Devices == INSTANCE Discovery WITH machine <- computer, Machines <- Computers,
    Taken <- {{}, {<<"ahci", 1>>}, {<<"ahci", 0, "p", 1>>}}
devices == <<computer, pci_devices, published, bound, step, cached, drives, drive_count, nodes,
             links, faulted, taken>>

-----------------------------------------------------------------------------
all == <<part, cpu, stacks, list, probe, loading, devices>>

MCInit ==
    /\ part \in Parts
    /\ Cpu!Init /\ (part = "cores" \/ machine = CHOOSE m \in CpuMachines : TRUE)
    /\ Stacks!Init
    /\ List!Init
    /\ probe = NoProbe
    /\ Loading!Init(IF part = "modules" THEN Orders ELSE {<<>>})
    /\ computer \in (IF part = "devices" THEN Computers ELSE {CHOOSE c \in Computers : TRUE})
    /\ Devices!Init /\ (part = "devices" \/ taken = {})

MCNext ==
    /\ UNCHANGED part
    /\ \/ part = "cores" /\ Cpu!Next /\ UNCHANGED <<stacks, list, probe, loading, devices>>
       \/ part = "frames" /\ Stacks!Next /\ UNCHANGED <<cpu, list, probe, loading, devices>>
       \/ part = "handlers" /\ List!Next /\ UNCHANGED <<cpu, stacks, probe, loading, devices>>
       \/ part = "modprobe" /\ ProbeModules /\ UNCHANGED <<cpu, stacks, list, loading, devices>>
       \/ part = "wildcards" /\ MatchName /\ UNCHANGED <<cpu, stacks, list, loading, devices>>
       \/ part = "modules" /\ Loading!Next /\ UNCHANGED <<cpu, stacks, list, probe, devices>>
       \/ part = "devices" /\ Devices!Next /\ UNCHANGED <<cpu, stacks, list, probe, loading>>

\* the boot core and the started cores keep running
MCSpec ==
    /\ MCInit /\ [][MCNext]_all
    /\ WF_cpu(Cpu!Boot) /\ WF_cpu(\E id \in DOMAIN ap : Cpu!Core(id))

-----------------------------------------------------------------------------
\* init_cpu ends although start-up interrupts get lost (cpu.cpp:404).
BootCompletes == part = "cores" => Cpu!BootCompletes
\* modprobe passes to init_module the modules it was asked for, by name or alias, and
\* what they depend on, directly or not, and nothing else; every dependency comes before
\* the module; and nothing at all is passed when a request or a dependency is not found
\* (handle_dependencies, main).
DependenciesFirst ==
    part = "modprobe" /\ probe # NoProbe =>
        LET o == probe.order
            MeantBy(names) == UNION {Meant[n] : n \in names}
            Below1(S) == S \union MeantBy(UNION {ToSet(probe.deps[m]) : m \in S})
            needed == Below1(Below1(Below1(MeantBy(ToSet(probe.requests)))))
            named == ToSet(probe.requests) \union UNION {ToSet(probe.deps[m]) : m \in needed}
        IN  IF <<"q">> \in named THEN o = <<>>
            ELSE /\ ToSet(o) = needed
                 /\ \A i \in DOMAIN o : \A n \in ToSet(probe.deps[o[i]]) :
                       \E j \in 1..(i - 1) : o[j] \in Meant[n]
\* strmatch() with its single backup decides what a wildcard means (strmatch).
WildcardExact == part = "wildcards" /\ probe # NoProbe => probe.order[1] = probe.order[2]
\* f_dependencies holds the numbers of the modules the header names (module.hpp:34).
DependencyNumbers == Loading!DependencyNumbers
\* Disks and partitions have a range, a minor and a name of their own, unless it is taken
\* (drive.cpp:31).
DrivesExact == Devices!DrivesExact
=============================================================================
