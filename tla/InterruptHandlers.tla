------------------------- MODULE InterruptHandlers -------------------------
(***************************************************************************)
(* The list of handlers of one interrupt vector (interrupts.cpp):          *)
(* register_handler, unregister_handler and the loop of interrupt_handle   *)
(* that calls them, and the clock's handler (time.cpp).  Nothing is        *)
(* locked: the loop runs on the boot core while other cores, or the thread *)
(* it interrupted, are changing the list.  An entry is never freed.        *)
(***************************************************************************)
EXTENDS Integers, FiniteSets

CONSTANTS
    Registrars,   \* threads that register a handler of their own, once
    MaxInterrupts,
    MsPerSecond   \* 1000 in time.cpp

VARIABLES
    head,       \* handlers[vector]
    next,       \* next of every entry; an entry is named after its handler
    reg,        \* what every registrar is doing
    at,         \* entry the loop of interrupt_handle is at
    called,     \* how often this interrupt called every handler
    stable,     \* handlers registered from before this interrupt till now
    raced,      \* two changes of the list overlapped
    interrupts, time_ms, current_time, uptime

listVars == <<head, next, reg, at, called, stable, raced, interrupts, time_ms,
              current_time, uptime>>

Clock == "clock"
Null == "null"
Handlers == Registrars \union {Clock}

\* init_time has registered the clock
Init ==
    /\ head = Clock /\ next = [h \in Handlers |-> Null]
    /\ reg = [t \in Registrars |-> [pc |-> "out", at |-> Null, prev |-> Null]]
    /\ at = Null /\ called = [h \in Handlers |-> 0] /\ stable = {} /\ raced = FALSE
    /\ interrupts = 0 /\ time_ms = 0 /\ current_time = 0 /\ uptime = 0

Busy(t) == reg[t].pc \notin {"out", "in", "gone"}

\* a change of the list begins
Begin(t, from, to) ==
    /\ reg[t].pc = from
    /\ reg' = [reg EXCEPT ![t] = [pc |-> to, at |-> head, prev |-> Null]]
    /\ raced' = (raced \/ \E u \in Registrars \ {t} : Busy(u))

\* register_handler: a new entry, then to the end of the list
Register(t) ==
    /\ Begin(t, "out", "append")
    /\ next' = [next EXCEPT ![t] = Null]
    /\ UNCHANGED <<head, at, called, stable, interrupts, time_ms, current_time, uptime>>

ToEnd(t) ==
    /\ reg[t].pc = "append" /\ reg[t].at # Null /\ next[reg[t].at] # Null
    /\ reg' = [reg EXCEPT ![t].at = next[@]]
    /\ UNCHANGED <<head, next, at, called, stable, raced, interrupts, time_ms,
                   current_time, uptime>>

\* Variant: the new entry is put before the rest of the list it does not point to
MutLink(t) ==
    /\ reg[t].pc = "append"
    /\ head' = t /\ UNCHANGED next
    /\ reg' = [reg EXCEPT ![t].pc = "in"]
    /\ UNCHANGED <<at, called, stable, raced, interrupts, time_ms, current_time, uptime>>

\* the entry is put at the end the search found
Link(t) ==
    /\ reg[t].pc = "append" /\ (reg[t].at = Null \/ next[reg[t].at] = Null)
    /\ IF reg[t].at = Null THEN head' = t /\ UNCHANGED next
       ELSE next' = [next EXCEPT ![reg[t].at] = t] /\ UNCHANGED head
    /\ reg' = [reg EXCEPT ![t].pc = "in"]
    /\ UNCHANGED <<at, called, stable, raced, interrupts, time_ms, current_time, uptime>>

\* unregister_handler: look for the entry, then take it out of the list
Unregister(t) ==
    /\ Begin(t, "in", "remove")
    /\ stable' = stable \ {t}
    /\ UNCHANGED <<head, next, at, called, interrupts, time_ms, current_time, uptime>>

Search(t) ==
    /\ reg[t].pc = "remove" /\ reg[t].at \notin {t, Null}
    /\ reg' = [reg EXCEPT ![t].at = next[@], ![t].prev = reg[t].at]
    /\ UNCHANGED <<head, next, at, called, stable, raced, interrupts, time_ms,
                   current_time, uptime>>

Unlink(t) ==
    /\ reg[t].pc = "remove" /\ reg[t].at \in {t, Null}
    /\ CASE reg[t].at = Null -> UNCHANGED <<head, next>>
         [] reg[t].at = t /\ reg[t].prev = Null -> head' = next[t] /\ UNCHANGED next
         [] OTHER -> next' = [next EXCEPT ![reg[t].prev] = next[t]] /\ UNCHANGED head
    /\ reg' = [reg EXCEPT ![t].pc = "gone"]
    /\ UNCHANGED <<at, called, stable, raced, interrupts, time_ms, current_time, uptime>>

-----------------------------------------------------------------------------
(* interrupt_handle, for a vector above the exceptions.                    *)

Interrupt ==
    /\ at = Null /\ interrupts < MaxInterrupts /\ head # Null
    /\ interrupts' = interrupts + 1
    /\ at' = head /\ called' = [h \in Handlers |-> 0]
    /\ stable' = {Clock} \union {t \in Registrars : reg[t].pc = "in"}
    /\ UNCHANGED <<head, next, reg, raced, time_ms, current_time, uptime>>

\* time_interrupt counts; the serial driver's handler is Terminal's
Tick ==
    IF at = Clock
    THEN /\ uptime' = uptime + 1
         /\ time_ms' = (time_ms + 1) % MsPerSecond
         /\ current_time' = current_time + (IF time_ms + 1 = MsPerSecond THEN 1 ELSE 0)
    ELSE UNCHANGED <<uptime, time_ms, current_time>>

Call ==
    /\ at # Null
    /\ called' = [called EXCEPT ![at] = @ + 1]
    /\ Tick
    /\ at' = next[at]
    /\ UNCHANGED <<head, next, reg, stable, raced, interrupts>>

Change(t) == \/ Register(t) \/ ToEnd(t) \/ Link(t)
             \/ Unregister(t) \/ Search(t) \/ Unlink(t)

Next == Interrupt \/ Call \/ \E t \in Registrars : Change(t)

Spec == Init /\ [][Next]_listVars

-----------------------------------------------------------------------------
\* As long as no two changes of a list overlap, an interrupt calls every
\* handler that was registered before it came and stays registered exactly
\* once, whatever is registered and unregistered while the loop is under way
\* (interrupts.cpp:260), and the clock counts every interrupt.
HandlersCalled ==
    raced \/ /\ at = Null /\ interrupts > 0 => \A h \in stable : called[h] = 1
             /\ \A h \in Handlers : called[h] <= 1
             /\ uptime = (current_time * MsPerSecond) + time_ms
             /\ uptime + (IF at # Null /\ called[Clock] = 0 THEN 1 ELSE 0) = interrupts
=============================================================================
