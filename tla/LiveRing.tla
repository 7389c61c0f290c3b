------------------------------ MODULE LiveRing ------------------------------
(***************************************************************************)
(* What a query of one item answers (live.go, query.go): the live ring, a  *)
(* ring of LiveSlots slots of liveStep seconds kept in memory, and the     *)
(* points a stored range folds the minutes into.  One sampler records;     *)
(* entry.record refuses a sample at most a minute older than the last one  *)
(* and empties the live ring when the clock stepped back by more.          *)
(*                                                                         *)
(* Data.  A value is the number of its sample; MinuteLen units of time     *)
(* make a minute.  RingFile models how a minute is kept, so here the ring  *)
(* is the set of minutes committed.                                        *)
(***************************************************************************)
EXTENDS Integers, FiniteSets, Sequences

CONSTANTS
    LiveKeys,    \* keys of series
    LiveSlots,   \* slots of the live ring (180 in the code)
    LiveSeries,  \* cap on the series of the live ring (MaxSeries, 48)
    liveStep,    \* units of time of a slot (5 s)
    MinuteLen,   \* units of time of a minute (60 s)
    Ranges,      \* stored ranges: [step |-> units of a point, n |-> points]
    LastTime,    \* bound: times of samples 0..LastTime
    MaxPuts      \* bound: samples

VARIABLES
    liveStamp,   \* liveRing.stamp, 0 = empty
    series,      \* liveRing.series
    last,        \* entry.last, -1 = none
    accMin,      \* entry.accMin, -1 = nothing pending
    mins,        \* minutes in the ring file
    smps,        \* history: accepted samples
    since        \* history: the samples up to this one came before a reset

liveVars == <<liveStamp, series, last, accMin, mins, smps, since>>

NaN == 0
Indices == 0..(LiveSlots - 1)

Init ==
    /\ liveStamp = [i \in Indices |-> 0] /\ series = [k \in {} |-> 0]
    /\ last = -1 /\ accMin = -1 /\ mins = {}
    /\ smps = <<>> /\ since = 0

-----------------------------------------------------------------------------
\* Mutant: the columns of the keys the sample does not have keep their value.
putKeeping(old, new, ks, idx, n) ==
    [k \in DOMAIN old \cup new |->
        [i \in Indices |-> CASE i = idx /\ k \in ks -> n
                             [] k \in DOMAIN old /\ (i # idx \/ k \notin ks) -> old[k][i]
                             [] OTHER -> NaN]]

\* put: the columns old with sample n, of keys ks, as the whole of index idx;
\* new are the keys that get a column.
put(old, new, ks, idx, n) ==
    [k \in DOMAIN old \cup new |->
        [i \in Indices |-> CASE i = idx /\ k \in ks -> n
                             [] i # idx /\ k \in DOMAIN old -> old[k][i]
                             [] OTHER -> NaN]]

\* entry.record at time at: refused if at most a minute back, after a reset if
\* more; a map gives its keys in any order, so any of them may fill the cap.
Record(at, ks) ==
    LET back == last # -1 /\ at < last
        old  == IF back THEN [k \in {} |-> 0] ELSE series
        slot == at \div liveStep
        idx  == slot % LiveSlots
        m    == at \div MinuteLen
        acc  == IF back THEN -1 ELSE accMin
        room == LiveSeries - Cardinality(DOMAIN old)
    IN  /\ Len(smps) < MaxPuts
        /\ back => last - at > MinuteLen
        /\ \E new \in SUBSET (ks \ DOMAIN old) :
              /\ Cardinality(new) <= room
              /\ Cardinality(new) < room => new = ks \ DOMAIN old
              /\ series' = put(old, new, ks, idx, Len(smps) + 1)
        /\ liveStamp' = [IF back THEN [i \in Indices |-> 0] ELSE liveStamp
                            EXCEPT ![idx] = slot]
        /\ last' = at
        /\ accMin' = IF acc = -1 \/ m > acc THEN m ELSE acc
        /\ mins' = IF acc # -1 /\ m > acc THEN mins \cup {acc} ELSE mins
        /\ smps' = Append(smps, [at |-> at, keys |-> ks])
        /\ since' = IF back THEN Len(smps) ELSE since

Next == \E at \in 0..LastTime, ks \in SUBSET LiveKeys : Record(at, ks)

-----------------------------------------------------------------------------
(* Query.                                                                  *)

\* A division of Go: towards zero.
Trunc(x, d) == IF x >= 0 THEN x \div d ELSE -((-x) \div d)

\* snapshot: the slots shown at now, and the value of a key in each.
Window(now) == (Trunc(now, liveStep) - (LiveSlots - 1))..Trunc(now, liveStep)

snapshot(k, s) ==
    IF liveStamp[s % LiveSlots] = s THEN series[k][s % LiveSlots] ELSE NaN

\* Mutant: a remainder of Go, which has the sign of x.
floorToward(x, m) == m * Trunc(x, m)

\* floorTo rounds down, negatives included.
floorTo(x, m) == x - (((x % m) + m) % m)

\* Query and buckets of a stored range: per point, its time and the minutes
\* of the ring folded into it.
Stored(now, r) ==
    LET lastMin == floorTo(now, MinuteLen) - MinuteLen
        to      == floorTo(lastMin, r.step)
        from    == to - (r.n - 1) * r.step
        per     == r.step \div MinuteLen
        first   == Trunc(from, MinuteLen)
    IN  [i \in 0..(r.n - 1) |->
            [t    |-> from + i * r.step,
             mins |-> {m \in mins : m \in (first + i * per)..(first + (i + 1) * per - 1)}]]

-----------------------------------------------------------------------------
(* Properties.                                                             *)

Nows == (-2 * MinuteLen)..(LastTime + MinuteLen)

\* A point of the live graph is the value of the last sample of its five
\* seconds, or a gap: never a value of 15 minutes ago left in the slot, of a
\* key that sample did not have, or of the time before the clock stepped back.
\* It is a gap for a reason: no sample, or one without the key, or a query from
\* before the last sample; a key is left out only when the cap is reached.
LiveExact ==
    \A now \in Nows : \A s \in Window(now) :
        LET mine   == {n \in (since + 1)..Len(smps) : smps[n].at \div liveStep = s}
            newest == CHOOSE n \in mine : \A x \in mine : x <= n
            Has(k) == mine # {} /\ k \in smps[newest].keys
        IN  /\ \A k \in DOMAIN series :
                 snapshot(k, s) # NaN => Has(k) /\ snapshot(k, s) = newest
            /\ \A k \in LiveKeys : now >= last /\ Has(k) =>
                 IF k \in DOMAIN series THEN snapshot(k, s) # NaN
                                        ELSE Cardinality(DOMAIN series) = LiveSeries

\* A point of a stored range holds the minutes of its own time, on the grid of
\* its step, whatever the clock says, before 1970 too; the last finished minute
\* is in the last point, and every finished minute of the range in some point.
StoredExact ==
    \A now \in Nows, r \in Ranges :
        LET pts == Stored(now, r)
            end == pts[r.n - 1].t + r.step
        IN  /\ \A i \in 0..(r.n - 1) : pts[i].t % r.step = 0
            /\ \A i \in 0..(r.n - 1) : \A m \in pts[i].mins :
                 m * MinuteLen \in pts[i].t..(pts[i].t + r.step - 1)
            /\ pts[r.n - 1].t + MinuteLen <= now /\ end > now - MinuteLen
            /\ \A m \in mins :
                 (m + 1) * MinuteLen <= now /\ m * MinuteLen >= pts[0].t =>
                     \E i \in 0..(r.n - 1) : m \in pts[i].mins

=============================================================================
