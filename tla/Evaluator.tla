------------------------------ MODULE Evaluator ------------------------------
(***************************************************************************)
(* The Evaluator of pkg/stats (evaluator.go): alert rules, runs and active *)
(* alerts of each item, judged minute by minute by the sampler's hook      *)
(* (OnMinute), recounted from the ring by rule changes and at start        *)
(* (SetRules, Rebuild), ended by Resolve, dropped by Prune, and saved.     *)
(*                                                                         *)
(* A section under Evaluator.mu is one step.  OnMinute reads the ring      *)
(* before its section: anything may happen in between.  evs are the events *)
(* a step queues; EmitQueue models how they reach emit.                    *)
(*                                                                         *)
(* A minute is its number.  A value is its level, Absent when the minute   *)
(* does not hold the alert series.  Keys are numbered as in ruleKeys.      *)
(***************************************************************************)
EXTENDS Integers, Sequences, FiniteSets, SequencesExt

CONSTANTS
    Items,
    NKeys,          \* rule keys (2 in the code)
    Levels,         \* values of a minute
    Thresholds, Windows,        \* what a rule may ask (1..100, 1..120 minutes)
    DefaultTh, DefaultMin,      \* the default rule of every key
    MaxRun,         \* cap on a run (120 in the code)
    FreshFor,       \* how old the newest minute of a recount may be (2)
    Faults,         \* what can happen, see FaultNames
    MaxMinute,      \* bound: minutes 1..MaxMinute
    MaxCalls        \* bound: calls other than OnMinute

FaultNames == {"readMinute", "readHistory", "write", "badFile",
               "restart", "stepBack", "remove"}

ASSUME RulesAssumption == /\ Levels \subseteq Nat /\ Thresholds \subseteq Nat
                          /\ Windows \subseteq 1..MaxRun
                          /\ DefaultTh \in Thresholds /\ DefaultMin \in Windows
                          /\ MaxRun \in Nat /\ FreshFor \in Nat
ASSUME BoundsAssumption == NKeys \in Nat /\ MaxMinute \in Nat
ASSUME FaultsAssumption == Faults \subseteq FaultNames

VARIABLES
    clk,        \* the minute the clock shows
    high,       \* the sampler of an item commits minutes after high
    ring, top,  \* minutes of the ring; history: highest value ever committed
    smp,        \* the sampler of each item: where, which minute, values read
    st,         \* Evaluator.items
    saved, disk, saveErr,       \* Evaluator.saved, alerts.json, .saveErr
    evs,        \* events the last step queued
    told,       \* history: what the events say of each alert
    from,       \* history: first minute whose count nothing disturbed
    blind,      \* history: rules changed while the ring could not be read,
    fileBlind,  \*          and the same of the state in the file
    calls

vars == <<clk, high, ring, top, smp, st, saved, disk, saveErr, evs, told, from,
          blind, fileBlind, calls>>
store == <<clk, high, ring, top>>
sight == <<blind, fileBlind>>

-----------------------------------------------------------------------------
Keys   == 1..NKeys
Absent == -1

Default == [k \in Keys |-> [en |-> TRUE, th |-> DefaultTh, min |-> DefaultMin]]
Rules   == [Keys -> [en : BOOLEAN, th : Thresholds, min : Windows]]

None == [k \in Keys |-> 0]

\* The state of an item that is not in the map: defaults and idle.
Idle == [rules |-> Default, active |-> None, runs |-> None, last |-> 0]

Resting == [pc |-> "idle", m |-> 0, v |-> [k \in Keys |-> Absent]]

Newest(i) == IF DOMAIN ring[i] = {} THEN 0 ELSE Max(DOMAIN ring[i])

Value(i, k, m) == IF m \in DOMAIN ring[i] THEN ring[i][m][k] ELSE Absent

Event(i, k, state, since) == [item |-> i, key |-> k, state |-> state, since |-> since]

Init ==
    /\ clk = 1
    /\ high = [i \in Items |-> 0]
    /\ ring = [i \in Items |-> <<>>]
    /\ top = [i \in Items |-> [m \in 1..MaxMinute |-> [k \in Keys |-> Absent]]]
    /\ smp = [i \in Items |-> Resting]
    /\ st = [i \in Items |-> Idle]
    /\ saved = <<>> /\ disk = <<>> /\ saveErr = FALSE
    /\ evs = <<>>
    /\ told = [i \in Items |-> [k \in Keys |-> FALSE]]
    /\ from = [i \in Items |-> 1]
    /\ blind = [i \in Items |-> FALSE] /\ fileBlind = blind
    /\ calls = 0

-----------------------------------------------------------------------------
(* The state file.  A file is <<>> when there is none, <<content>> else.   *)

\* save: nothing to do, written, or not written (SyncDir reports no error).
Save ==
    \/ /\ saved = <<st'>>
       /\ saveErr' = FALSE
       /\ UNCHANGED <<saved, disk>>
    \/ /\ saved # <<st'>>
       /\ saved' = <<st'>> /\ disk' = <<st'>> /\ saveErr' = FALSE
    \/ /\ saved # <<st'>> /\ "write" \in Faults
       /\ saveErr' = TRUE
       /\ UNCHANGED <<saved, disk>>

\* Mutant: the last minute judged is kept without a run.
putKeepsLast(i, s) ==
    /\ st' = [st EXCEPT ![i] = s]
    /\ Save

\* put: no minute counts for a run when there is no run; then save.
put(i, s) ==
    /\ st' = [st EXCEPT ![i] = IF s.runs = None THEN [s EXCEPT !.last = 0] ELSE s]
    /\ Save

\* What the events tell of the alerts of item i, once they are out.
Queued(i, es) ==
    /\ evs' = es
    /\ told' = [told EXCEPT ![i] = [k \in Keys |->
           IF \E n \in DOMAIN es : es[n].key = k
             THEN \E n \in DOMAIN es : es[n].key = k /\ es[n].state = "firing"
             ELSE @[k]]]

\* Which states are blind after the step: the file's as well if it holds them.
Blinds(b) == /\ blind' = b
             /\ fileBlind' = IF saved' = <<st'>> THEN b ELSE fileBlind

Nothing == UNCHANGED <<st, saved, disk, saveErr, told>> /\ evs' = <<>>

-----------------------------------------------------------------------------
(* OnMinute: the sampler committed minute m, reads its values, then judges.*)

\* The store's part: the clock moves on, a minute reaches the ring.  The
\* minute in progress is committed by Close only.
Tick ==
    /\ clk < MaxMinute
    /\ clk' = clk + 1
    /\ Nothing
    /\ UNCHANGED <<high, ring, top, smp, from, sight, calls>>

Commit(i, m, v) ==
    /\ smp[i].pc = "idle" /\ high[i] < m /\ m <= clk
    /\ high' = [high EXCEPT ![i] = m]
    /\ ring' = [ring EXCEPT ![i] = [x \in DOMAIN @ \cup {m} |-> IF x = m THEN v ELSE @[x]]]
    /\ top' = [top EXCEPT ![i][m] = [k \in Keys |-> IF v[k] > @[k] THEN v[k] ELSE @[k]]]
    /\ smp' = [smp EXCEPT ![i] = [Resting EXCEPT !.pc = "read", !.m = m]]
    /\ from' = [from EXCEPT ![i] =
           IF m <= Newest(i) \/ m = st[i].last THEN Max({Newest(i), m}) + 1 ELSE @]
    /\ Nothing
    /\ UNCHANGED <<clk, sight, calls>>

ReadMinute(i) ==
    LET m == smp[i].m
    IN  /\ smp[i].pc = "read"
        /\ \/ smp' = [smp EXCEPT ![i].pc = "judge", ![i].v = [k \in Keys |-> Value(i, k, m)]]
              /\ UNCHANGED from
           \/ "readMinute" \in Faults
              /\ smp' = [smp EXCEPT ![i] = Resting]
              /\ from' = [from EXCEPT ![i] = Max({@, m + 1})]
        /\ Nothing
        /\ UNCHANGED <<store, sight, calls>>

\* Mutant: the run goes on over minutes without any Record.
RunBeforeNoGap(s, k, m) == s.runs[k]

\* The run of key k that minute m may extend.
RunBefore(s, k, m) == IF m = s.last + 1 THEN s.runs[k] ELSE 0

\* Mutant: an alert fires one minute early.
DueEarly(r, n) == n + 1 >= r.min

Due(r, n) == n >= r.min

\* Mutant: a firing alert whose value fell is forgotten without an event.
EndedSilently(i, k, since) == <<>>

Ended(i, k, since) == IF since # 0 THEN <<Event(i, k, "resolved", since)>> ELSE <<>>

\* What minute m with value v makes of key k in state s.
Judged(i, s, k, m, v) ==
    LET r    == s.rules[k]
        run  == RunBefore(s, k, m) + 1
        n    == IF run > MaxRun THEN MaxRun ELSE run
        fire == Due(r, n) /\ s.active[k] = 0
    IN  IF ~r.en \/ v < r.th
          THEN [run |-> 0, active |-> 0, evs |-> Ended(i, k, s.active[k])]
        ELSE IF fire
          THEN [run |-> n, active |-> m - n + 1, evs |-> <<Event(i, k, "firing", m - n + 1)>>]
          ELSE [run |-> n, active |-> s.active[k], evs |-> <<>>]

Applied(s, o, last) == [s EXCEPT !.runs = [k \in Keys |-> o[k].run],
                                 !.active = [k \in Keys |-> o[k].active],
                                 !.last = last]

EventsOf(o) == FlattenSeq([k \in Keys |-> o[k].evs])

\* onMinute, under Evaluator.mu, with the rules in force by now.
Judge(i) ==
    LET s == st[i]
        m == smp[i].m
        o == [k \in Keys |-> Judged(i, s, k, m, smp[i].v[k])]
    IN  /\ smp[i].pc = "judge"
        /\ smp' = [smp EXCEPT ![i] = Resting]
        /\ \/ m = s.last /\ Nothing /\ UNCHANGED sight
           \/ /\ m # s.last
              /\ put(i, Applied(s, o, m))
              /\ Queued(i, EventsOf(o))
              /\ Blinds([blind EXCEPT ![i] = @ /\ m = s.last + 1])
        /\ UNCHANGED <<store, from, calls>>

-----------------------------------------------------------------------------
(* SetRules, Rebuild, Resolve, Prune: each one section of Evaluator.mu.    *)

CanCall == calls < MaxCalls /\ calls' = calls + 1

\* The newest minute is hardly older than the clock's last complete minute.
Fresh(i) == Newest(i) > 0 /\ Newest(i) >= clk - 1 - FreshFor

\* The minutes up to the newest that are high for rule r, at most its window.
Walk(i, k, r) ==
    IF ~r.en \/ ~Fresh(i) THEN 0
    ELSE Max({n \in 0..r.min : \A x \in 0..(n - 1) : Value(i, k, Newest(i) - x) >= r.th})

\* What the recount makes of key k in state s.
Recounted(i, s, k) ==
    LET r     == s.rules[k]
        n     == Walk(i, k, r)
        since == Newest(i) - n + 1
    IN  IF n < r.min
          THEN [run |-> n, active |-> 0, evs |-> Ended(i, k, s.active[k])]
        ELSE IF s.active[k] = 0
          THEN [run |-> n, active |-> since, evs |-> <<Event(i, k, "firing", since)>>]
          ELSE [run |-> n, active |-> s.active[k], evs |-> <<>>]

\* The newest minute of the ring is the one the sampler is about to judge, or
\* judged last: no step back of the clock left later ones behind.
InStep(i) == clk >= Newest(i) /\ smp[i].m \in {0, Newest(i)}

\* reconcile of item i, whose state is s.
reconcile(i, s) ==
    \/ LET o == [k \in Keys |-> Recounted(i, s, k)]
       IN  /\ put(i, Applied(s, o, Newest(i)))
           /\ Queued(i, EventsOf(o))
           /\ Blinds([blind EXCEPT ![i] = FALSE])
           /\ from' = [from EXCEPT ![i] = IF Fresh(i) /\ InStep(i) THEN 1 ELSE Newest(i) + 1]
    \/ /\ "readHistory" \in Faults
       /\ put(i, s)
       /\ Queued(i, <<>>)
       /\ Blinds([blind EXCEPT ![i] = @ \/ s.rules # st[i].rules])
       /\ from' = [from EXCEPT ![i] = IF s.rules # st[i].rules THEN Newest(i) + 1 ELSE @]

\* Mutant: the runs and alerts counted with the old rules stay.
SetRulesKeeps(i, rs) ==
    /\ CanCall
    /\ put(i, [st[i] EXCEPT !.rules = rs])
    /\ Queued(i, <<>>)
    /\ UNCHANGED <<store, smp, from, sight>>

SetRules(i, rs) ==
    /\ CanCall
    /\ reconcile(i, [st[i] EXCEPT !.rules = rs])
    /\ UNCHANGED <<store, smp>>

Rebuild(i) ==
    /\ CanCall
    /\ reconcile(i, st[i])
    /\ UNCHANGED <<store, smp>>

Resolve(i) ==
    /\ CanCall
    /\ st[i] # Idle
    /\ put(i, [st[i] EXCEPT !.active = None, !.runs = None])
    /\ Queued(i, FlattenSeq([k \in Keys |-> Ended(i, k, st[i].active[k])]))
    /\ from' = [from EXCEPT ![i] = Newest(i) + 1]
    /\ Blinds([blind EXCEPT ![i] = FALSE])
    /\ UNCHANGED <<store, smp>>

\* Prune: no event, even for an active alert.
Prune ==
    LET gone == {i \in Items : DOMAIN ring[i] = {}}
    IN  /\ CanCall
        /\ st' = [i \in Items |-> IF i \in gone THEN Idle ELSE st[i]]
        /\ Save
        /\ evs' = <<>>
        /\ told' = [i \in Items |-> IF i \in gone THEN [k \in Keys |-> FALSE] ELSE told[i]]
        /\ Blinds([i \in Items |-> blind[i] /\ i \notin gone])
        /\ UNCHANGED <<store, smp, from>>

-----------------------------------------------------------------------------
(* The environment.                                                        *)

\* Forget over the cap, or Sweep: the item and its ring are gone.
RemoveItem(i) ==
    /\ "remove" \in Faults /\ CanCall /\ DOMAIN ring[i] # {}
    /\ ring' = [ring EXCEPT ![i] = <<>>]
    /\ Nothing
    /\ UNCHANGED <<clk, high, top, smp, from, sight>>

\* The clock steps back by more than a minute: minutes are committed again.
StepBack(c) ==
    /\ "stepBack" \in Faults /\ CanCall /\ c \in 1..(clk - 1)
    /\ \A i \in Items : smp[i].pc = "idle"
    /\ clk' = c
    /\ high' = [i \in Items |-> c - 1]
    /\ from' = [i \in Items |-> Newest(i) + 1]
    /\ Nothing
    /\ UNCHANGED <<ring, top, smp, sight>>

\* The process ends and NewEvaluator loads the file; one it cannot load is
\* moved to *.bad.  The minute in progress may be committed a second time.
Restart ==
    /\ "restart" \in Faults /\ CanCall
    /\ smp' = [i \in Items |-> Resting]
    /\ \/ /\ st' = IF disk = <<>> THEN [i \in Items |-> Idle] ELSE disk[1]
          /\ saved' = disk
          /\ blind' = fileBlind
          /\ UNCHANGED <<disk, fileBlind>>
       \/ /\ "badFile" \in Faults
          /\ st' = [i \in Items |-> Idle] /\ saved' = <<>> /\ disk' = <<>>
          /\ blind' = [i \in Items |-> FALSE] /\ fileBlind' = blind'
    /\ saveErr' = FALSE
    /\ evs' = <<>>
    /\ told' = [i \in Items |-> [k \in Keys |-> st'[i].active[k] # 0]]
    /\ high' = [i \in Items |-> clk - 1]
    /\ from' = [i \in Items |-> IF st'[i] = st[i] /\ smp[i].pc = "idle"
                                   THEN from[i] ELSE Newest(i) + 1]
    /\ UNCHANGED <<clk, ring, top>>

-----------------------------------------------------------------------------
Sampler(i) == ReadMinute(i) \/ Judge(i)

\* The bounds are reached and no sampler is inside its hook.
Terminated == /\ clk = MaxMinute
              /\ \A i \in Items : smp[i].pc = "idle"
              /\ UNCHANGED vars

Next ==
    \/ Tick
    \/ \E i \in Items, m \in 1..MaxMinute, v \in [Keys -> Levels \cup {Absent}] : Commit(i, m, v)
    \/ \E i \in Items : Sampler(i)
    \/ \E i \in Items, rs \in Rules : SetRules(i, rs)
    \/ \E i \in Items : Rebuild(i) \/ Resolve(i) \/ RemoveItem(i)
    \/ Prune
    \/ \E c \in 1..MaxMinute : StepBack(c)
    \/ Restart
    \/ Terminated

Spec == Init /\ [][Next]_vars

-----------------------------------------------------------------------------
(* Properties.                                                             *)

\* Every variable holds a value of its type: no run exceeds the cap, and a
\* minute is kept as judged only while a run counts (put).
TypeOK ==
    /\ st \in [Items -> [rules : Rules, active : [Keys -> 0..MaxMinute],
                         runs : [Keys -> 0..MaxRun], last : 0..MaxMinute]]
    /\ \A i \in Items : st[i].last = 0 <=> st[i].runs = None
    /\ \A i \in Items : smp[i].pc \in {"idle", "read", "judge"} /\ smp[i].m \in 0..clk
    /\ Len(saved) <= 1 /\ Len(disk) <= 1 /\ saveErr \in BOOLEAN

\* The events tell the truth: an alert fires only when it was not firing and
\* resolves only when it was, and after a step the events made so far say of
\* every alert what Active says (Prune drops an alert without an event).
EventsAlternate ==
    [][/\ \A n \in DOMAIN evs' :
            told[evs'[n].item][evs'[n].key] <=> evs'[n].state = "resolved"
       /\ \A i \in Items, k \in Keys : told'[i][k] <=> st'[i].active[k] # 0]_vars

HighFor(i, k, minutes, r) ==
    \A x \in minutes : x \in 1..MaxMinute /\ top[i][x][k] >= r.th

\* Runs are "consecutive high minutes per key": the minutes up to the last one
\* judged were high for the rule in force, whatever was interleaved with the
\* reading of a minute, saved, restarted or counted by a recount - unless the
\* rules changed while the ring could not be read.
RunsTrue ==
    \A i \in Items, k \in Keys :
        LET s == st[i]
        IN  blind[i] \/ HighFor(i, k, (s.last - s.runs[k] + 1)..s.last, s.rules[k])

\* A firing event names a start from which on the value was high for the whole
\* window of an enabled rule in force when it is made.
FiresOnFullRun ==
    [][\A n \in DOMAIN evs' : evs'[n].state = "firing" =>
          LET e == evs'[n]
              r == st'[e.item].rules[e.key]
          IN  \/ blind[e.item]
              \/ r.en /\ HighFor(e.item, e.key, e.since..(e.since + r.min - 1), r)]_vars

\* Once the newest minute is judged, a rule whose window is full of high minutes
\* is firing, and an active alert belongs to an enabled rule that this minute is
\* high for: no alert is missed, none outlives its cause, if nothing the
\* documentation excepts came between the minutes (Resolve, an unreadable minute,
\* a step back of the clock, a minute committed twice, a state that was not saved
\* before a restart).
AlertsCurrent ==
    \A i \in Items, k \in Keys : smp[i].pc = "idle" =>
        LET r    == st[i].rules[k]
            since == Newest(i) - r.min + 1
            isHigh(x) == Value(i, k, x) >= r.th
        IN  /\ (r.en /\ since >= from[i] /\ \A x \in since..Newest(i) : isHigh(x))
                  => st[i].active[k] # 0
            /\ (Newest(i) >= from[i] /\ st[i].active[k] # 0)
                  => r.en /\ isHigh(Newest(i))

=============================================================================
