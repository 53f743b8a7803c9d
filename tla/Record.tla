---- MODULE Record ----
(***************************************************************************)
(* pyzor::record (common/record.cpp): what the database keeps for a        *)
(* digest, and the operations an update performs on it.                    *)
(*                                                                         *)
(* A record holds two marks, for reports and for whitelistings, each with  *)
(* a count and the times of the first and the last one.  A time of 0 means *)
(* "never".  The code's fields report_count_, report_entered_, ... are     *)
(* r.report.count, r.report.entered, ...                                   *)
(***************************************************************************)
EXTENDS Integers

CONSTANT CountModulus  \* counts are stored modulo this, 2^32 in the code

ASSUME CountModulusAssumption == CountModulus \in Nat \ {0}

Marks == [count : Nat, entered : Nat, updated : Nat]

Records == [entered : Nat, updated : Nat, report : Marks, whitelist : Marks]

NoMark == [count |-> 0, entered |-> 0, updated |-> 0]

EmptyRecord ==
    [entered |-> 0, updated |-> 0, report |-> NoMark, whitelist |-> NoMark]

Later(s, t) == IF s < t THEN t ELSE s

Earlier(s, t) == IF s < t THEN s ELSE t

\* The time an operation is given; 0 stands for the caller's clock.
TimeOf(t, now) == IF t = 0 THEN now ELSE t

\* One more report, or whitelisting, at time t.  With a time of its own, an
\* update older than the last one only counts.
Counted(mark, t, now) ==
    LET at == TimeOf(t, now)
    IN  [count   |-> (mark.count + 1) % CountModulus,
         entered |-> IF mark.entered = 0 /\ (t = 0 \/ mark.updated < at)
                       THEN at ELSE mark.entered,
         updated |-> IF t = 0 \/ mark.updated < at THEN at ELSE mark.updated]

\* mutant of Touched: the record takes the time of the latest update to arrive.
TouchedAsArrived(r, t, now) ==
    [r EXCEPT !.entered = IF @ = 0 THEN TimeOf(t, now) ELSE @,
              !.updated = TimeOf(t, now)]

Touched(r, t, now) ==
    [r EXCEPT !.entered = IF @ = 0 THEN TimeOf(t, now) ELSE @,
              !.updated = Later(@, TimeOf(t, now))]

\* record::report
Report(r, t, now) ==
    [Touched(r, t, now) EXCEPT !.report = Counted(@, t, now)]

\* mutant of Whitelist: a whitelisting takes a report back.
WhitelistTakesBack(r, t, now) ==
    [Touched(r, t, now) EXCEPT !.whitelist = Counted(@, t, now),
                               !.report.count = @ - 1]

\* record::whitelist
Whitelist(r, t, now) ==
    [Touched(r, t, now) EXCEPT !.whitelist = Counted(@, t, now)]

\* mutant of Reset: the last times survive the reset.
ResetCounts(r, t, now) ==
    [r EXCEPT !.updated = TimeOf(t, now), !.report.count = 0,
              !.whitelist.count = 0]

\* record::reset: the counts and the last times go, the first times stay.
Reset(r, t, now) ==
    [r EXCEPT !.updated = TimeOf(t, now),
              !.report.count = 0, !.report.updated = 0,
              !.whitelist.count = 0, !.whitelist.updated = 0]

====
