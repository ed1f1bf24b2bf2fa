------------------------------ MODULE ModuleManager ----------------------------
(***************************************************************************)
(* Kernel modules: ModuleManager and Module (src/kernel/src/modules/), and *)
(* the modprobe processes that call init_module for one module after the   *)
(* other, whatever the call returns.  load_module() holds no lock after    *)
(* generate_major(), so loads of two processes interleave, and their       *)
(* unlocked insertions into a map may lose an entry.  parse_module_header  *)
(* converts the answer of find_module() to a number through its operator   *)
(* bool: every dependency that is found becomes number 1, any other 0.     *)
(***************************************************************************)
EXTENDS Integers, SequencesExt

CONSTANTS
    Procs,          \* processes running modprobe
    Deps,           \* [name |-> dependencies in the module header, a sequence]
    Needs,          \* [name |-> the dependencies whose symbols it is linked to]
    MaxMajor        \* bound on load attempts

VARIABLES
    f_next_major,
    f_module_cache, \* <<name, major>> pairs
    f_module_map,   \* majors of the loaded modules
    module,         \* [major |-> [name, dependencies]] of every Module object
    todo,           \* what each process has still to load
    loader,         \* the load_module() each process is in: [pc, major, cache, map]
    initialised     \* history: names of modules whose init() has returned 0

moduleVars == <<f_next_major, f_module_cache, f_module_map, module, todo, loader, initialised>>
Resting == [pc |-> "idle", major |-> 0, cache |-> {}, map |-> {}]

\* Each process starts with a list modprobe has ordered.
Init(lists) ==
    /\ f_next_major = 1 /\ f_module_cache = {} /\ f_module_map = {}
    /\ module = [n \in 1..MaxMajor |-> [name |-> <<>>, dependencies |-> <<>>]]
    /\ todo \in [Procs -> lists]
    /\ loader = [p \in Procs |-> Resting]
    /\ initialised = {}

Major(p) == loader[p].major
At(p, pc) == loader[p].pc = pc
Goto(p, pc) == loader' = [loader EXCEPT ![p].pc = pc]
Return(p) == loader' = [loader EXCEPT ![p] = Resting]

\* load_module() up to load(): a number is taken under f_lock.
New(p) ==
    /\ At(p, "idle") /\ todo[p] # <<>> /\ f_next_major <= MaxMajor
    /\ loader' = [loader EXCEPT ![p] =
            [pc |-> "load", major |-> f_next_major, cache |-> {}, map |-> {}]]
    /\ module' = [module EXCEPT ![f_next_major].name = Head(todo[p])]
    /\ todo' = [todo EXCEPT ![p] = Tail(@)]
    /\ f_next_major' = f_next_major + 1
    /\ UNCHANGED <<f_module_cache, f_module_map, initialised>>

\* Module::load() until the image is in place: not an ELF file, or no room, or placed.
Load(p) ==
    /\ At(p, "load")
    /\ Goto(p, "parse") \/ Return(p)
    /\ UNCHANGED <<f_next_major, f_module_cache, f_module_map, module, todo, initialised>>

\* find_module() as a number: whether the name is in the cache.
FindModule(name) == IF \E c \in f_module_cache : c[1] = name THEN 1 ELSE 0

\* parse_module_header_v1()
ParseHeader(p) ==
    /\ At(p, "parse")
    /\ LET deps == Deps[module[Major(p)].name] IN
       module' = [module EXCEPT ![Major(p)].dependencies = [i \in DOMAIN deps |-> FindModule(deps[i])]]
    /\ Goto(p, "link")
    /\ UNCHANGED <<f_next_major, f_module_cache, f_module_map, todo, initialised>>

\* What link() meets first when it looks for a symbol of the module `owner` in the
\* modules of its list: that module, no Module at all, or the end of the list.
Lookup(major, owner) ==
    LET numbers == module[major].dependencies
        k == SelectInSeq(numbers, LAMBDA n : n \notin f_module_map \/ module[n].name = owner)
    IN  IF k = 0 THEN "undefined" ELSE IF numbers[k] \in f_module_map THEN "found" ELSE "fault"

\* link(): a symbol that is not found ends the load, a missing Module is dereferenced
\* and its address faults: the process never returns from the call.
Link(p) ==
    /\ At(p, "link")
    /\ LET outcomes == {Lookup(Major(p), owner) : owner \in Needs[module[Major(p)].name]} IN
        \/ outcomes \subseteq {"found"} /\ Goto(p, "init")
        \/ "undefined" \in outcomes /\ Return(p)
        \/ "fault" \in outcomes /\ Goto(p, "faulted")
    /\ UNCHANGED <<f_next_major, f_module_cache, f_module_map, module, todo, initialised>>

\* Variant: init() before the dependencies are looked up.
MutInitModule(p) ==
    /\ At(p, "init")
    /\ \/ Goto(p, "cache") /\ initialised' = initialised \cup {module[Major(p)].name}
       \/ Return(p) /\ UNCHANGED initialised
    /\ UNCHANGED <<f_next_major, f_module_cache, f_module_map, module, todo>>

\* init(): preinit() wants a Module for every dependency (all in the map have been
\* initialised), and the module's own init may fail.
InitModule(p) ==
    /\ At(p, "init")
    /\ \/ /\ ToSet(module[Major(p)].dependencies) \subseteq f_module_map
          /\ Goto(p, "cache")
          /\ initialised' = initialised \cup {module[Major(p)].name}
       \/ Return(p) /\ UNCHANGED initialised
    /\ UNCHANGED <<f_next_major, f_module_cache, f_module_map, module, todo>>

\* An insertion walks to the end of a chain and links its entry there.  When another
\* process has linked one since, either both entries are there or the first is lost.
Walk(p) ==
    /\ \/ At(p, "cache") /\ loader' = [loader EXCEPT ![p].cache = f_module_cache, ![p].pc = "cacheLink"]
       \/ At(p, "map") /\ loader' = [loader EXCEPT ![p].map = f_module_map, ![p].pc = "mapLink"]
    /\ UNCHANGED <<f_next_major, f_module_cache, f_module_map, module, todo, initialised>>

\* f_module_cache.insert(): a name that is there stays.
LinkCache(p) ==
    LET entry == <<module[Major(p)].name, Major(p)>>
        old == loader[p].cache
        duplicate == \E c \in old : c[1] = entry[1]
    IN  /\ At(p, "cacheLink")
        /\ IF duplicate THEN UNCHANGED f_module_cache
           ELSE f_module_cache' \in {f_module_cache \cup {entry}, old \cup {entry}}
        /\ Goto(p, "map")
        /\ UNCHANGED <<f_next_major, f_module_map, module, todo, initialised>>

\* f_module_map.insert(), and the return.
LinkMap(p) ==
    /\ At(p, "mapLink")
    /\ f_module_map' \in {f_module_map \cup {Major(p)}, loader[p].map \cup {Major(p)}}
    /\ Return(p)
    /\ UNCHANGED <<f_next_major, f_module_cache, module, todo, initialised>>

Next == \E p \in Procs :
    New(p) \/ Load(p) \/ ParseHeader(p) \/ Link(p) \/ InitModule(p)
        \/ Walk(p) \/ LinkCache(p) \/ LinkMap(p)

Spec(lists) == Init(lists) /\ [][Next]_moduleVars

-----------------------------------------------------------------------------
\* A module is initialised only after every module it names as a dependency has been
\* (a failed dependency stops it although modprobe goes on), and what the cache names
\* is a module of that name that has been initialised (module_manager.cpp:50-54).
DependenciesInitialised ==
    /\ \A name \in initialised : ToSet(Deps[name]) \subseteq initialised
    /\ \A c \in f_module_cache : module[c[2]].name = c[1] /\ c[1] \in initialised

\* f_dependencies holds the numbers of the modules the header names, as the comment
\* in module.hpp says ("List of major numbers of dependency modules").
DependencyNumbers ==
    \A n \in f_module_map : \A i \in DOMAIN module[n].dependencies :
        module[module[n].dependencies[i]].name = Deps[module[n].name][i]

=============================================================================
