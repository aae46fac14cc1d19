---------------------------- MODULE BuildStagger ----------------------------
(***************************************************************************)
(* When the pool of one outbound opens its TCP connections                 *)
(* (mirage/core/conn_pool.py, _reserve_build_slot and its callers).        *)
(*                                                                         *)
(* warmup, _schedule_refills and the fallback of acquire reserve a slot    *)
(* from the cursor _next_build_at and sleep until it comes; probe_once     *)
(* connects at once.  Time is discrete and the loop is not overloaded: a   *)
(* task whose slot has come runs before time goes on.                      *)
(***************************************************************************)
EXTENDS Integers, Sequences

CONSTANTS Step,         \* _stagger_step
          Jitter,       \* _stagger_jitter
          MaxSlots,     \* bound: slots reserved in a behaviour
          MaxProbes,    \* bound: probe_once calls in a behaviour
          MaxTime       \* bound: the clock

ASSUME StaggerAssumption ==
    /\ Step \in Nat
    /\ Jitter \in Nat
    /\ Jitter <= Step
    /\ MaxSlots \in Nat /\ MaxProbes \in Nat /\ MaxTime \in Nat

VARIABLES now,          \* time.monotonic()
          nextBuildAt,  \* self._next_build_at
          slots,        \* the slot given to each reservation, in order
          pending,      \* the reservations whose task still sleeps
          launches      \* connects so far: when, and for which reservation
                        \* (a negative id is a connect of probe_once)

staggerVars == <<now, nextBuildAt, slots, pending, launches>>

StaggerInit ==
    /\ now = 0
    /\ nextBuildAt = 0
    /\ slots = <<>>
    /\ pending = {}
    /\ launches = {}

\* Mutant: every caller starts a stair of its own
NextSlot_FromNow == now

\* a cursor in the past starts a new stair from now
NextSlot == IF nextBuildAt < now THEN now ELSE nextBuildAt

\* _reserve_build_slot
ReserveBuildSlot ==
    /\ Len(slots) < MaxSlots
    /\ slots' = Append(slots, NextSlot)
    /\ pending' = pending \cup {Len(slots) + 1}
    /\ \E j \in -Jitter .. Jitter : nextBuildAt' = NextSlot + Step + j
    /\ UNCHANGED <<now, launches>>

\* Mutant: the task connects without its delay
Launch_NoDelay(i) ==
    /\ pending' = pending \ {i}
    /\ launches' = launches \cup {[at |-> now, id |-> i]}
    /\ UNCHANGED <<now, nextBuildAt, slots>>

\* the task wakes up and connects
Launch(i) ==
    /\ slots[i] <= now
    /\ pending' = pending \ {i}
    /\ launches' = launches \cup {[at |-> now, id |-> i]}
    /\ UNCHANGED <<now, nextBuildAt, slots>>

\* the task wakes up and finds the queue full; its slot stays unused
GiveUp(i) ==
    /\ slots[i] <= now
    /\ pending' = pending \ {i}
    /\ UNCHANGED <<now, nextBuildAt, slots, launches>>

\* probe_once: _build_one without a slot
ProbeOnce ==
    /\ \E k \in 1 .. MaxProbes :
        /\ \A l \in launches : l.id # -k
        /\ launches' = launches \cup {[at |-> now, id |-> -k]}
    /\ UNCHANGED <<now, nextBuildAt, slots, pending>>

Tick ==
    /\ now < MaxTime
    /\ \A i \in pending : slots[i] > now
    /\ now' = now + 1
    /\ UNCHANGED <<nextBuildAt, slots, pending, launches>>

StaggerNext ==
    \/ ReserveBuildSlot
    \/ \E i \in pending : Launch(i) \/ GiveUp(i)
    \/ ProbeOnce
    \/ Tick

StaggerSpec == StaggerInit /\ [][StaggerNext]_staggerVars

-----------------------------------------------------------------------------
\* The clock and the cursor never go below zero; only reserved slots pend.
StaggerTypeOK ==
    /\ now \in Nat
    /\ nextBuildAt \in Nat
    /\ slots \in Seq(Nat)
    /\ pending \subseteq DOMAIN slots
    /\ \A l \in launches : l.at \in Nat /\ l.id \in Int

\* Two slots are at least Step - Jitter apart, whichever callers reserved
\* them and however long the pool was idle in between.
SlotsSpaced ==
    \A i, j \in DOMAIN slots : i < j => slots[j] - slots[i] >= Step - Jitter

\* So are two connects of tasks that reserved a slot.
ReservedLaunchesSpaced ==
    \A l, m \in launches :
        l.id > 0 /\ m.id > 0 /\ l.id < m.id => m.at - l.at >= Step - Jitter
=============================================================================
