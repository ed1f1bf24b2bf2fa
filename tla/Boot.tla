-------------------------------- MODULE Boot --------------------------------
(***************************************************************************)
(* The kernel's side of starting up and of taking interrupts, as parts     *)
(* that share no state: the start of the cores, the kernel stacks, the     *)
(* handlers of a vector and the module loader, with the properties that    *)
(* are checked for small instances (MCBoot) and proved for all             *)
(* (BootProofs).                                                           *)
(***************************************************************************)
EXTENDS Integers, Sequences, FiniteSets

CONSTANTS Machines, ApicIds,                        \* of CpuStart
          Cores, Threads, KernelThreads, Nested,    \* of InterruptFrames
          Registrars, MaxInterrupts, MsPerSecond,   \* of InterruptHandlers
          Procs, Deps, Needs, MaxMajor              \* of ModuleManager

VARIABLES
    machine, phase, acpi_tables, lapic_addr, bsp_apic_id, index, core_map, ioApics, routed,
    starting, started, answered, ap, lost, clock,
    current_thread, stack, kernel, frames, rsp0, smashed, trampled,
    head, next, reg, at, called, stable, raced, interrupts, time_ms, current_time, uptime,
    f_next_major, f_module_cache, f_module_map, module, todo, loader, initialised

Cpu == INSTANCE CpuStart
Stacks == INSTANCE InterruptFrames
List == INSTANCE InterruptHandlers
Loading == INSTANCE ModuleManager

\* A module's header names modules there are.
ModuleAssumption == MaxMajor \in Nat /\ Deps \in [DOMAIN Deps -> Seq(DOMAIN Deps)]

HandlerAssumption ==
    /\ List!Clock \notin Registrars /\ List!Null \notin Registrars
    /\ MsPerSecond \in Nat \ {0}

\* What the MADT may hold: cores with the two bits of their flags that parse_madt looks at,
\* I/O APICs, overrides of interrupt lines, and records whose contents are not used.
MadtRecords ==
    [type : {"lapic"}, id : Nat, flags : 0..3] \cup [type : {"ioapic"}, base : Nat, entries : Nat]
    \cup [type : {"override"}, irq : Nat, gsi : Nat] \cup [type : {"address", "nmi"}]

CpuAssumption == \A m \in Machines : m.records \in Seq(MadtRecords)

\* A core's name stands for its idle task.
FrameAssumption == Cores \cap Threads = {}

ASSUME BootAssumption ==
    Cores # {} /\ FrameAssumption /\ CpuAssumption /\ ModuleAssumption /\ HandlerAssumption

-----------------------------------------------------------------------------
\* Linear ids are 0 to n - 1 with the boot core 0 unless an address override is misread, and no two cores share the boot
\* stack (cpu.cpp:99, 409); interrupt overrides behind their I/O APIC's record are
\* routed (cpu.cpp:138, 153).
CoresExact == Cpu!CoresExact /\ Cpu!LinesRouted
\* Frames from user mode start at the running thread's empty stack (interrupts.cpp:267),
\* as long as no core has used a stack that another had not left.
FramesSafe == Stacks!FramesSafe
\* An interrupt calls the registered handlers exactly once (interrupts.cpp:260).
HandlersCalled == List!HandlersCalled
\* A module is initialised after its dependencies (module_manager.cpp:49).
DependenciesInitialised == Loading!DependenciesInitialised

=============================================================================
