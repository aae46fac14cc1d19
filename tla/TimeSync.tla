------------------------------ MODULE TimeSync ------------------------------
(***************************************************************************)
(* The corrected clock (mirage/core/time_sync.py): servers are asked one    *)
(* after the other, and the median of up to three answers against the local *)
(* clock at the end makes the offset.                                      *)
(***************************************************************************)
EXTENDS Integers, Sequences, SequencesExt, FiniteSets

CONSTANTS UdpServers, TcpServers,   \* how many there are of each kind
          Honest,      \* errors of an honest answer, around 0
          Lies,        \* errors of a wrong one
          Skews,       \* how far the system clock may be behind real time
          MaxOffset,   \* max_offset_sec
          MaxClock, MaxSteps   \* bounds: system time; times it is set

VARIABLES clock,       \* time.time()
          skew,        \* real time - clock
          offset,      \* TimeSync._offset
          phase,       \* "starting", "idle", "udp", "https"
          initial,     \* the query under way is the one of the start
          asked,       \* servers asked in this phase
          samples,     \* the answers so far by time: [time, lie]
          began,       \* clock when the query began
          last,        \* [skew, wait, lies, n] of the last success
          steps

timeVars == <<clock, skew, offset, phase, initial, asked, samples, began, last, steps>>

Corrected == clock + offset
Querying == phase \in {"udp", "https"}

Init ==
    /\ clock = 0 /\ skew \in Skews
    /\ offset = 0 /\ phase = "starting" /\ initial = FALSE
    /\ asked = 0 /\ samples = <<>> /\ began = 0 /\ steps = 0
    /\ last = [skew |-> 0, wait |-> 0, lies |-> 0, n |-> 0]

(* initial_sync, and each turn of _loop.                                     *)
Begin ==
    /\ phase \in {"starting", "idle"}
    /\ initial' = (phase = "starting")
    /\ phase' = "udp" /\ asked' = 0 /\ samples' = <<>> /\ began' = clock
    /\ UNCHANGED <<clock, skew, offset, last, steps>>

Servers == IF phase = "udp" THEN UdpServers ELSE TcpServers
Asking == Querying /\ asked < Servers /\ Len(samples) < 3

(* samples.sort() at the end: here each answer is put in its place, behind   *)
(* the answers that are not later.                                           *)
Answer(e) ==
    /\ Asking
    /\ asked' = asked + 1
    /\ LET s == [time |-> clock + skew + e, lie |-> e \in Lies] IN
         \E n \in 1 .. Len(samples) + 1 :
            /\ \A i \in DOMAIN samples : samples[i].time <= s.time <=> i < n
            /\ samples' = InsertAt(samples, n, s)
    /\ UNCHANGED <<clock, skew, offset, phase, initial, began, last, steps>>

NoAnswer ==
    /\ Asking
    /\ asked' = asked + 1
    /\ UNCHANGED <<clock, skew, offset, phase, initial, samples, began, last, steps>>

(* No UDP server answered: ask for the Date of HTTPS servers.                *)
FallBack ==
    /\ phase = "udp" /\ ~Asking /\ samples = <<>>
    /\ phase' = "https" /\ asked' = 0
    /\ UNCHANGED <<clock, skew, offset, initial, samples, began, last, steps>>

(* Mutant: the smallest answer.                                              *)
Median_First == samples[1].time

Median == samples[Len(samples) \div 2 + 1].time
NewOffset(t) == t - clock

Plausible(new) == new <= MaxOffset /\ -new <= MaxOffset
Over == Querying /\ ~Asking /\ (samples # <<>> \/ phase = "https")

Return == /\ phase' = "idle" /\ initial' = FALSE
          /\ asked' = 0 /\ samples' = <<>> /\ began' = 0

Succeed ==
    /\ Over /\ samples # <<>>
    /\ Plausible(NewOffset(Median))
    /\ offset' = NewOffset(Median)
    /\ last' = [skew |-> skew, wait |-> clock - began, n |-> Len(samples),
                lies |-> Cardinality({i \in DOMAIN samples : samples[i].lie})]
    /\ Return
    /\ UNCHANGED <<clock, skew, steps>>

(* Nobody answered, or the offset is taken for a hijack: it stays.           *)
Fail ==
    /\ Over
    /\ samples # <<>> => ~Plausible(NewOffset(Median))
    /\ Return
    /\ UNCHANGED <<clock, skew, offset, last, steps>>

(* startup_timeout cancels the first query; its samples are lost.            *)
GiveUp ==
    /\ Querying /\ initial
    /\ Return
    /\ UNCHANGED <<clock, skew, offset, last, steps>>

Pass ==
    /\ clock < MaxClock
    /\ clock' = clock + 1
    /\ UNCHANGED <<skew, offset, phase, initial, asked, samples, began, last, steps>>

(* The system clock is set while nothing is asked.                           *)
SetClock ==
    /\ steps < MaxSteps /\ ~Querying /\ phase # "starting"
    /\ \E s \in Skews : skew' = s /\ clock' = clock + skew - s
    /\ steps' = steps + 1
    /\ UNCHANGED <<offset, phase, initial, asked, samples, began, last>>

Query == Begin \/ NoAnswer \/ FallBack \/ Succeed \/ Fail \/ GiveUp
         \/ \E e \in Honest \cup Lies : Answer(e)
Next == Query \/ Pass \/ SetClock

TimeSpec == Init /\ [][Next]_timeVars

-----------------------------------------------------------------------------
(* What a query sets is as good as its answers were, less the time it took,  *)
(* and one wrong answer among three does not matter (time_sync.py:259-309).  *)
OffsetHonest ==
    last.n > 0 /\ (last.lies = 0 \/ (last.lies = 1 /\ last.n = 3)) =>
        LET err == offset - last.skew
        IN  /\ \E h \in Honest : err <= h
            /\ \E h \in Honest : err >= h - last.wait
=============================================================================
