------------------------------ MODULE CpuStart ------------------------------
(***************************************************************************)
(* How the kernel finds and starts its processors: the ACPI tables         *)
(* (acpi.cpp), the records of the MADT with the cores, the I/O APICs and   *)
(* the interrupt overrides (cpu.cpp, apic.cpp), the start of the other     *)
(* cores one by one (cpu.cpp, ap_starter.s, Scheduler) and the clock       *)
(* (time.cpp).                                                             *)
(*                                                                         *)
(* All the starting cores use the one stack below 0x3000 until the         *)
(* scheduler has switched them to their idle thread; the boot core waits   *)
(* for that, sends the start-up interrupt twice if the core does not       *)
(* answer, and has no other way to go on.  The local APIC's delivery is    *)
(* external: a start-up interrupt is ignored by a core that is not waiting *)
(* for one, and the first one sent to a core may get lost.                 *)
(***************************************************************************)
EXTENDS Integers, Sequences, FiniteSets, SequencesExt

CONSTANTS
    Machines,  \* the firmware tables and cores the kernel may find
    ApicIds    \* what a page that is not the local APIC's may hold in place of an id

VARIABLES
    machine,
    phase,        \* where init_acpi and init_cpu are
    acpi_tables,  \* signature -> address
    lapic_addr,
    bsp_apic_id,
    index,        \* MADT record parse_madt is at
    core_map,     \* LAPIC id -> linear id
    ioApics,      \* the I/O APICs found, in order
    routed,       \* redirection entries written: GSI -> vector
    starting,     \* LAPIC id of the core init_cpu is starting, with its SIPIs
    started,      \* LAPIC ids init_cpu is done with
    answered,     \* the word at 0x2000
    ap,           \* what every other core is doing
    lost,         \* cores whose first start-up interrupt got lost
    clock         \* whether time_interrupt will be called

cpuVars == <<machine, phase, acpi_tables, lapic_addr, bsp_apic_id, index, core_map, ioApics,
             routed, starting, started, answered, ap, lost, clock>>

NoCore == [id |-> -1, sipis |-> 0]
Lapics == {r.id : r \in {q \in ToSet(machine.records) : q.type = "lapic"}}

Init ==
    /\ machine \in Machines
    /\ phase = "acpi" /\ acpi_tables = <<>> /\ lapic_addr = "none" /\ index = 1
    /\ bsp_apic_id = 0
    /\ core_map = <<>> /\ ioApics = <<>> /\ routed = <<>>
    /\ starting = NoCore /\ started = {} /\ answered = FALSE
    /\ ap = [i \in Lapics \ {machine.bsp} |-> "off"] /\ lost = {} /\ clock = FALSE

\* UnorderedMap::insert: a key that is there keeps its value
Put(f, k, v) == IF k \in DOMAIN f THEN f
                ELSE [x \in DOMAIN f \union {k} |-> IF x = k THEN v ELSE f[x]]

PutAll(pairs) == FoldLeft(LAMBDA f, pair : Put(f, pair[1], pair[2]), <<>>, pairs)

\* init_acpi: the XSDT when the long checksum is right, else the RSDT
InitAcpi ==
    /\ phase = "acpi"
    /\ IF "xsdt" \in DOMAIN machine.roots \/ "rsdt" \in DOMAIN machine.roots
       THEN /\ acpi_tables' = PutAll(IF "xsdt" \in DOMAIN machine.roots
                                     THEN machine.roots.xsdt ELSE machine.roots.rsdt)
            /\ phase' = "madt"
       ELSE phase' = "panic" /\ UNCHANGED acpi_tables
    /\ UNCHANGED <<machine, lapic_addr, bsp_apic_id, index, core_map, ioApics, routed, starting,
                   started, answered, ap, lost, clock>>

\* an address override among the records of the MADT
Overridden == \E r \in ToSet(machine.records) : r.type = "address"

\* the first pass over the records: an override is read from the wrong place,
\* sixteen bytes into the record instead of two, and what is mapped is then not
\* the local APIC; the boot core's id is read from there and gets the number 0
MapLapic ==
    /\ phase = "madt"
    /\ lapic_addr' = IF Overridden THEN "beyond" ELSE "table"
    /\ bsp_apic_id' \in (IF Overridden THEN ApicIds ELSE {machine.bsp})
    /\ core_map' = Put(<<>>, bsp_apic_id', 0)
    /\ phase' = "records"
    /\ UNCHANGED <<machine, acpi_tables, index, ioApics, routed, starting, started,
                   answered, ap, lost, clock>>

\* add_ioapic: the number of lines is asked of the chip
AddIoapic(r) == Append(ioApics, [base |-> r.base, entries |-> r.entries])

Covers(apic, gsi) == gsi >= apic.base /\ gsi < apic.base + apic.entries

\* add_ioapic_intentry: without an I/O APIC for the line nothing is written
Route(routes, vector, gsi) ==
    IF \E a \in ToSet(ioApics) : Covers(a, gsi)
    THEN [g \in DOMAIN routes \union {gsi} |-> IF g = gsi THEN vector ELSE routes[g]]
    ELSE routes

\* core_map.insert() of a core that is enabled or can be: its id is the map's size
AddCore(r) == Put(core_map, r.id, Cardinality(DOMAIN core_map))

ParseRecord ==
    /\ phase = "records" /\ index <= Len(machine.records)
    /\ LET r == machine.records[index]
       IN /\ core_map' = IF r.type = "lapic" /\ r.flags \in 1..3 THEN AddCore(r) ELSE core_map
          /\ ioApics' = IF r.type = "ioapic"
                        THEN AddIoapic(r) ELSE ioApics
          /\ routed' = IF r.type = "override" THEN Route(routed, r.irq + 32, r.gsi)
                       ELSE routed
    /\ index' = index + 1
    /\ UNCHANGED <<machine, phase, acpi_tables, lapic_addr, bsp_apic_id, starting, started,
                   answered, ap, lost, clock>>

\* get_ioapic_intentry() = 0x10000 both for a line nobody routed and for one
\* that does not exist
Legacy(routes, vector, gsi) ==
    IF gsi \in DOMAIN routes THEN routes ELSE Route(routes, vector, gsi)

RecordsDone ==
    /\ phase = "records" /\ index > Len(machine.records)
    /\ routed' = Legacy(Legacy(routed, 33, 1), 36, 4)
    /\ phase' = "cores"
    /\ UNCHANGED <<machine, acpi_tables, lapic_addr, bsp_apic_id, index, core_map, ioApics,
                   starting, started, answered, ap, lost, clock>>

-----------------------------------------------------------------------------
(* init_cpu's loop over core_map, in the order of its buckets.             *)

\* send_ipi writes the local APIC's registers, where that is what is mapped, and
\* the interrupt reaches another core that is there
Reaches(id) == lapic_addr = "table" /\ id \in DOMAIN ap \cap machine.present

\* Variant: the starter's word keeps the answer of the core before
MutStartCore(id) ==
    /\ phase = "cores" /\ starting = NoCore
    /\ id \in DOMAIN core_map \ started
    /\ IF core_map[id] = 0
       THEN started' = started \union {id} /\ UNCHANGED <<starting, ap>>
       ELSE /\ starting' = [id |-> id, sipis |-> 0]
            /\ ap' = IF Reaches(id) THEN [ap EXCEPT ![id] = "waiting"] ELSE ap
            /\ UNCHANGED started
    /\ UNCHANGED <<machine, phase, acpi_tables, lapic_addr, bsp_apic_id, index, core_map, ioApics,
                   routed, answered, lost, clock>>

\* the starter's word is cleared, the core is reset by an INIT
StartCore(id) ==
    /\ phase = "cores" /\ starting = NoCore
    /\ id \in DOMAIN core_map \ started
    /\ answered' = FALSE
    /\ IF core_map[id] = 0
       THEN started' = started \union {id} /\ UNCHANGED <<starting, ap>>
       ELSE /\ starting' = [id |-> id, sipis |-> 0]
            /\ ap' = IF Reaches(id) THEN [ap EXCEPT ![id] = "waiting"] ELSE ap
            /\ UNCHANGED started
    /\ UNCHANGED <<machine, phase, acpi_tables, lapic_addr, bsp_apic_id, index, core_map, ioApics,
                   routed, lost, clock>>

OnBootStack == {i \in DOMAIN ap : ap[i] \in {"starter", "starting", "leaving"}}

\* the ten milliseconds before the first start-up interrupt are enough for a
\* core that called itself idle to get off the boot stack
Settled == \A i \in DOMAIN ap : ap[i] # "leaving"

\* a start-up interrupt, then a millisecond in which the core may answer
SendSipi ==
    LET id == starting.id
    IN /\ starting # NoCore /\ starting.sipis < 2 /\ Settled
       /\ starting.sipis = 1 => ~answered
       /\ starting' = [starting EXCEPT !.sipis = @ + 1]
       /\ \/ /\ ap' = IF Reaches(id) /\ ap[id] = "waiting"
                      THEN [ap EXCEPT ![id] = "starter"] ELSE ap
             /\ UNCHANGED lost
          \/ id \notin lost /\ lost' = lost \union {id} /\ UNCHANGED ap
       /\ UNCHANGED <<machine, phase, acpi_tables, lapic_addr, bsp_apic_id, index, core_map, ioApics,
                      routed, started, answered, clock>>

IsIdle(id) == id \in DOMAIN ap /\ ap[id] \in {"leaving", "idle"}

\* Variant: the next core is started without waiting for this one
MutCoreIsUp ==
    /\ starting # NoCore
    /\ answered \/ starting.sipis = 2
    /\ started' = started \union {starting.id} /\ starting' = NoCore
    /\ UNCHANGED <<machine, phase, acpi_tables, lapic_addr, bsp_apic_id, index, core_map, ioApics,
                   routed, answered, ap, lost, clock>>

\* the loop ends after an answer or two tries; then the boot core spins
CoreIsUp ==
    /\ starting # NoCore
    /\ (starting.sipis > 0 /\ answered) \/ starting.sipis = 2
    /\ IsIdle(starting.id)
    /\ started' = started \union {starting.id} /\ starting' = NoCore
    /\ UNCHANGED <<machine, phase, acpi_tables, lapic_addr, bsp_apic_id, index, core_map, ioApics,
                   routed, answered, ap, lost, clock>>

\* ap_starter.s: say that the core is there; core_init: tables, timer and the
\* first task switch; schedule() calls the core idle before interrupt_handle
\* has left the stack
Answer(id) ==
    /\ ap[id] = "starter"
    /\ ap' = [ap EXCEPT ![id] = "starting"] /\ answered' = TRUE
    /\ UNCHANGED <<machine, phase, acpi_tables, lapic_addr, bsp_apic_id, index, core_map, ioApics,
                   routed, starting, started, lost, clock>>

FirstSwitch(id) ==
    /\ ap[id] = "starting"
    /\ ap' = [ap EXCEPT ![id] = "leaving"]
    /\ UNCHANGED <<machine, phase, acpi_tables, lapic_addr, bsp_apic_id, index, core_map, ioApics,
                   routed, starting, started, answered, lost, clock>>

LeaveStack(id) ==
    /\ ap[id] = "leaving"
    /\ ap' = [ap EXCEPT ![id] = "idle"]
    /\ UNCHANGED <<machine, phase, acpi_tables, lapic_addr, bsp_apic_id, index, core_map, ioApics,
                   routed, starting, started, answered, lost, clock>>

\* init_time: the HPET interrupts through line 2, which is the clock's only if
\* an override routed it to vector 0x20
InitTime ==
    /\ phase = "cores" /\ starting = NoCore /\ started = DOMAIN core_map
    /\ phase' = "done"
    /\ clock' = ("HPET" \in DOMAIN acpi_tables /\ 2 \in DOMAIN routed /\ routed[2] = 32)
    /\ UNCHANGED <<machine, acpi_tables, lapic_addr, bsp_apic_id, index, core_map, ioApics, routed,
                   starting, started, answered, ap, lost>>

Boot == \/ InitAcpi \/ MapLapic \/ ParseRecord \/ RecordsDone \/ SendSipi \/ CoreIsUp
        \/ InitTime \/ \E id \in DOMAIN core_map : StartCore(id)
Core(id) == Answer(id) \/ FirstSwitch(id) \/ LeaveStack(id)

Next == Boot \/ \E id \in DOMAIN ap : Core(id)

Spec == Init /\ [][Next]_cpuVars

-----------------------------------------------------------------------------
Enabled == {r.id : r \in {q \in ToSet(machine.records) : q.type = "lapic" /\ q.flags > 0}}

\* Once the MADT is parsed the usable cores have the linear ids 0 to n - 1,
\* whatever the order of the records and however often a core is listed, and the
\* boot core has 0 (cpu.cpp:99 "BSP is always guaranteed to be core 0") unless an
\* address override was misread; no two cores are ever on the one boot stack,
\* also when start-up interrupts are lost or answers late; and init_cpu ends
\* with every other core of the map in its idle thread.
CoresExact ==
    /\ Cardinality(OnBootStack) <= 1
    /\ phase \in {"cores", "done"} =>
         /\ DOMAIN core_map = Enabled \union {bsp_apic_id}
         /\ {core_map[i] : i \in DOMAIN core_map} = 0..(Cardinality(DOMAIN core_map) - 1)
         /\ ~Overridden => machine.bsp \in DOMAIN core_map /\ core_map[machine.bsp] = 0
    /\ phase = "done" => \A i \in DOMAIN core_map : core_map[i] = 0 \/ IsIdle(i)

\* Every interrupt override that comes after the record of its I/O APIC is
\* routed, the last one for a line winning, and the serial port's line too
\* when no override takes it (cpu.cpp:153 "Map some legacy entries").
LinesRouted ==
    LET rs == machine.records
        Known(i) == \E j \in 1..(i - 1) :
                       rs[j].type = "ioapic" /\ Covers(rs[j], rs[i].gsi)
        Over(g) == {i \in 1..Len(rs) : rs[i].type = "override" /\ rs[i].gsi = g /\ Known(i)}
    IN phase \in {"cores", "done"} =>
         /\ \A i \in 1..Len(rs) : rs[i].type = "override" /\ Known(i)
                                  /\ (\A j \in Over(rs[i].gsi) : j <= i) =>
               routed[rs[i].gsi] = rs[i].irq + 32
         /\ Over(4) = {} /\ (\E a \in ToSet(ioApics) : Covers(a, 4)) => routed[4] = 36

\* A machine with ACPI tables, without an address override and with all of its
\* usable cores there finishes init_cpu, although the first start-up interrupt
\* of every core may be lost (cpu.cpp:404 sends two).
BootCompletes ==
    (DOMAIN machine.roots # {} /\ ~Overridden /\ Enabled \subseteq machine.present)
        ~> (phase = "done")
=============================================================================
