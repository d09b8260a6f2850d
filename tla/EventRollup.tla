----------------------------- MODULE EventRollup -----------------------------
(***************************************************************************)
(* The daily rollups of the event log: the aggregator that recomputes them *)
(* (components/event-aggregator/module.ts, app/modules/database/           *)
(* repositories/event-aggregate/module.ts) against the writer of events    *)
(* and the sweep of events past their retention.  Every process of the     *)
(* server runs an aggregator; a database lock has one recompute run at a   *)
(* time (SQLite has no such lock, and one process).                        *)
(*                                                                         *)
(* Time is counted in parts of a day, of which a day has DayLength.  An    *)
(* event is named by the instant it was recorded at; a rollup holds the    *)
(* events it counted instead of their number.                              *)
(***************************************************************************)
EXTENDS Naturals, FiniteSets, FiniteSetsExt

CONSTANTS
    Aggregator, \* the processes
    MaxTime,    \* bound of the clock
    DayLength,
    Retention,  \* how long an event is kept, in parts of a day
    Fill,       \* EVENT_AGGREGATE_BACKFILL_DAYS
    MaxEvents   \* bound of the events recorded

RollupAssumption ==
    /\ MaxTime \in Nat /\ MaxEvents \in Nat
    /\ DayLength \in Nat \ {0} /\ DayLength <= MaxTime
    /\ Retention \in Nat \ {0} /\ Fill \in Nat \ {0}

Instant == 0 .. MaxTime
DayOf(t) == (t \div DayLength) + 1
EndOf(d) == d * DayLength
Day == 1 .. DayOf(MaxTime)
NoDay == 0
Unset == DayOf(MaxTime) + 1

VARIABLES
    now,
    events,    \* auth_events: the events on disk
    recorded,  \* every event there was
    rollup,    \* rollup[d].of: the events counted; .over: createdAt is past the day
    pc,        \* pc[a]: where the pass of aggregator a stands
    pass,      \* pass[a]: its today, its start, the day at hand and what it read of it
    cursor,    \* cursor[a]: where its last walk stopped; Unset in a fresh process
    settled,   \* events a final rollup has counted
    early,     \* days read before they ended and stamped after
    contested  \* days made final while another walk had them down as missing

log == <<now, events, recorded>>
ghosts == <<settled, early, contested>>
vars == <<log, rollup, pc, pass, cursor, ghosts>>

NoPass == [today |-> NoDay, start |-> 0, day |-> NoDay, read |-> {}, over |-> FALSE,
           todo |-> {}, stop |-> Unset]
NoRows == [of |-> {}, over |-> FALSE]

Init ==
    /\ now = DayLength
    /\ events = {} /\ recorded = {}
    /\ rollup = [d \in Day |-> NoRows]
    /\ pc = [a \in Aggregator |-> "idle"]
    /\ pass = [a \in Aggregator |-> NoPass]
    /\ cursor = [a \in Aggregator |-> Unset]
    /\ settled = {} /\ early = {} /\ contested = {}

EventsOf(d) == {t \in events : DayOf(t) = d}

(* The part at hand lies past day d.                                       *)
Over(d) == now >= EndOf(d)

(* Mutant of Final: a day that has rows is present, whenever they were     *)
(* written.                                                                *)
FinalWithRows(d) == rollup[d].of # {}

(* findDays: a day without rows reads as missing, rows written before the  *)
(* day was over are provisional.                                           *)
Final(d) == rollup[d].of # {} /\ rollup[d].over

-----------------------------------------------------------------------------
Record ==
    /\ now \notin recorded
    /\ Cardinality(recorded) < MaxEvents
    /\ events' = events \union {now}
    /\ recorded' = recorded \union {now}
    /\ UNCHANGED <<now, rollup, pc, pass, cursor, ghosts>>

(* The event cleaner: expiresAt was stamped when the event was recorded.   *)
Sweep ==
    /\ \E t \in events : t + Retention <= now
    /\ events' = {t \in events : t + Retention > now}
    /\ UNCHANGED <<now, recorded, rollup, pc, pass, cursor, ghosts>>

(* A pass is not stalled for longer than a part of a day.                  *)
Tick ==
    /\ now < MaxTime
    /\ \A a \in Aggregator : pc[a] = "idle" \/ now = pass[a].start
    /\ now' = now + 1
    /\ UNCHANGED <<events, recorded, rollup, pc, pass, cursor, ghosts>>

-----------------------------------------------------------------------------
(* A pass, started every minute unless the previous one of the process     *)
(* still runs.                                                             *)

Go(a, label, q, c) ==
    /\ pc' = [pc EXCEPT ![a] = label]
    /\ pass' = [pass EXCEPT ![a] = q]
    /\ cursor' = [cursor EXCEPT ![a] = c]

(* It recomputes today first.                                              *)
Begin(a) ==
    /\ pc[a] = "idle"
    /\ Go(a, "count", [NoPass EXCEPT !.today = DayOf(now), !.start = now, !.day = DayOf(now)],
          cursor[a])
    /\ UNCHANGED <<log, rollup, ghosts>>

(* The database lock is held from the read to the end of the transaction.  *)
Locked == \E a \in Aggregator : pc[a] = "replace"

(* The grouped read, under the lock and outside the transaction that       *)
(* replaces the rows.                                                      *)
Count(a) ==
    /\ pc[a] = "count" /\ ~Locked
    /\ Go(a, "replace", [pass[a] EXCEPT !.read = EventsOf(pass[a].day), !.over = Over(pass[a].day)],
          cursor[a])
    /\ UNCHANGED <<log, rollup, ghosts>>

(* The day after the one at hand: yesterday after today, then the walk.    *)
NextDay(a) ==
    LET q == [pass[a] EXCEPT !.read = {}, !.over = FALSE] IN
    IF q.day = q.today
    THEN Go(a, "count", [q EXCEPT !.day = q.today - 1], cursor[a])
    ELSE IF q.day = q.today - 1
    THEN Go(a, "look", q, cursor[a])
    ELSE IF q.todo # {}
    THEN Go(a, "count", [q EXCEPT !.day = Max(q.todo), !.todo = @ \ {Max(q.todo)}], cursor[a])
    ELSE Go(a, "idle", NoPass, q.stop)

(* A walk that found day d missing has it still to do.                     *)
Filling(b, d) ==
    \/ d \in pass[b].todo
    \/ pc[b] = "count" /\ pass[b].day = d /\ d < pass[b].today - 1

(* Delete and insert, stamped with the clock as it is after the read.      *)
Replace(a) ==
    LET d == pass[a].day IN
    /\ pc[a] = "replace"
    /\ rollup' = [rollup EXCEPT ![d] = [of |-> pass[a].read, over |-> Over(d)]]
    /\ settled' = IF Over(d) THEN settled \union pass[a].read ELSE settled
    /\ early' = IF Over(d) /\ ~pass[a].over THEN early \union {d} ELSE early \ {d}
    /\ contested' = IF Over(d) /\ \E b \in Aggregator \ {a} : Filling(b, d)
                    THEN contested \union {d} ELSE contested
    /\ NextDay(a)
    /\ UNCHANGED log

(* Mutant of Present: a present day is refilled like a missing one.        *)
PresentNone(from, to) == {}

Present(from, to) == {d \in from .. to : Final(d)}

(* The walk toward the oldest event: from the cursor, or from the day      *)
(* before yesterday, at most Fill missing days.  It looks for the missing  *)
(* ones without the lock, and does not look again.                         *)
Look(a) ==
    LET q == pass[a]
        start == IF cursor[a] < q.today - 1 THEN cursor[a] ELSE q.today - 2
        oldest == DayOf(Min(events))
        missing == (oldest .. start) \ Present(oldest, start)
        fill == {d \in missing : Cardinality({e \in missing : e > d}) < Fill}
        stop == IF Cardinality(fill) = Fill THEN Min(fill) - 1 ELSE oldest - 1
    IN
    /\ pc[a] = "look"
    /\ IF events = {} \/ start < oldest
       THEN Go(a, "idle", NoPass, cursor[a])
       ELSE IF fill = {}
       THEN Go(a, "idle", NoPass, stop)
       ELSE Go(a, "count",
               [q EXCEPT !.day = Max(fill), !.todo = fill \ {Max(fill)}, !.stop = stop], cursor[a])
    /\ UNCHANGED <<log, rollup, ghosts>>

(* A call rejects: the pass ends where it is, the cursor stays.            *)
Fail(a) ==
    /\ pc[a] # "idle"
    /\ Go(a, "idle", NoPass, cursor[a])
    /\ UNCHANGED <<log, rollup, ghosts>>

(* The process ends and another starts: the cursor is gone.                *)
Restart(a) ==
    /\ Go(a, "idle", NoPass, Unset)
    /\ UNCHANGED <<log, rollup, ghosts>>

Next ==
    \/ Record \/ Sweep \/ Tick
    \/ \E a \in Aggregator :
         Begin(a) \/ Count(a) \/ Replace(a) \/ Look(a) \/ Fail(a) \/ Restart(a)

Spec == Init /\ [][Next]_vars

-----------------------------------------------------------------------------
TypeOK ==
    /\ now \in Instant
    /\ events \subseteq recorded /\ recorded \subseteq Instant
    /\ \A d \in Day : rollup[d].of \subseteq Instant /\ rollup[d].over \in BOOLEAN
    /\ pc \in [Aggregator -> {"idle", "count", "replace", "look"}]
    /\ \A a \in Aggregator :
         /\ pass[a].today \in 0 .. DayOf(MaxTime) /\ pass[a].day \in 0 .. DayOf(MaxTime)
         /\ pass[a].todo \subseteq Day
    /\ cursor \in [Aggregator -> 0 .. Unset]
    /\ settled \subseteq recorded
    /\ early \subseteq Day /\ contested \subseteq Day

(* An event a final rollup has counted stays counted: no later recompute   *)
(* runs over the day when its events are gone from the log already.  The   *)
(* exception: two processes found the day missing, and the second one      *)
(* recomputes it after the first one made it final and the event expired.  *)
CountedIsKept ==
    \A t \in settled :
        \/ t \in rollup[DayOf(t)].of
        \/ DayOf(t) \in contested /\ t \notin events

(* A final rollup, which nothing repairs any more, misses no event of its  *)
(* day, whatever passes failed or were interrupted; but for a day whose    *)
(* end came between the read and the stamp.                                *)
FinalIsFull ==
    \A d \in Day \ early : Final(d) => EventsOf(d) \subseteq rollup[d].of

=============================================================================
