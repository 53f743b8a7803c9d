---- MODULE Statistics ----
(***************************************************************************)
(* pyzor::statistics_ring (common/statistics.cpp): a counter of events     *)
(* with a ring of one bucket for each of the last Seconds seconds.  A      *)
(* server has five; they decide nothing but the numbers that it answers    *)
(* to "statistics", so they are a record here and not part of its state.   *)
(*                                                                         *)
(* The code keeps a time in every bucket but reads only that of the        *)
(* current one, which is the field time here.                              *)
(***************************************************************************)
EXTENDS Integers, FiniteSetsExt, SequencesExt

CONSTANT Seconds  \* number of buckets: 300 in the programs

ASSUME StatisticsAssumption == Seconds \in Nat \ {0}

Slots == 0 .. Seconds - 1

\* statistics_ring::statistics_ring
NewRing(now) ==
    [counts |-> [i \in Slots |-> 0], current |-> 0, time |-> now, total |-> 0]

\* The slots that advance() enters when it moves from ring.time to now.
Entered(ring, now) ==
    {(ring.current + k) % Seconds : k \in 1 .. now - ring.time}

\* mutant of Advance: moves on without clearing the buckets it enters.
AdvanceUncleared(ring, now) ==
    IF now <= ring.time THEN ring
    ELSE [ring EXCEPT !.current = (@ + now - ring.time) % Seconds, !.time = now]

\* statistics_ring::advance: a bucket for every second that went by; none, when
\* the clock was set back.
Advance(ring, now) ==
    IF now <= ring.time THEN ring
    ELSE [ring EXCEPT
            !.counts = [i \in Slots |-> IF i \in Entered(ring, now) THEN 0 ELSE @[i]],
            !.current = (@ + now - ring.time) % Seconds,
            !.time = now]

\* mutant of Report: does not count in total_.
ReportUntotalled(ring, now) ==
    LET moved == Advance(ring, now)
     IN [moved EXCEPT !.counts[moved.current] = @ + 1]

\* statistics_ring::report
Report(ring, now) ==
    LET moved == Advance(ring, now)
     IN [moved EXCEPT !.counts[moved.current] = @ + 1, !.total = @ + 1]

\* The sum that average() divides by the number of buckets.
InRing(ring) ==
    MapThenSumSet(LAMBDA i : ring.counts[i], Slots)

\* The ring that is made at the first of some times, reports an event at each of
\* those after it but the last, and is averaged at the last.
RingOf(times) ==
    LET events == SubSeq(times, 2, Len(times) - 1)
        reported == FoldLeft(LAMBDA ring, t : Report(ring, t), NewRing(times[1]), events)
     IN Advance(reported, Last(times))

\* The second that a ring stands at: a clock that was set back does not move it.
StandsAt(times, i) == Max({times[j] : j \in 1 .. i})

\* The buckets hold exactly the events of the Seconds seconds up to the one the
\* ring stands at, however long nothing came and however the clock jumped; the
\* total holds all.
CountsWindow(times) ==
    LET n == Len(times)
        recent == {i \in 2 .. n - 1 : StandsAt(times, i) > StandsAt(times, n) - Seconds}
     IN InRing(RingOf(times)) = Cardinality(recent) /\ RingOf(times).total = n - 2

====
