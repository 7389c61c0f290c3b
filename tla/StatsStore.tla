----------------------------- MODULE StatsStore -----------------------------
(***************************************************************************)
(* The Store of pkg/stats (store.go, query.go): the map of items, the      *)
(* entry and its pending minute, and what runs on them concurrently: one   *)
(* sampler per item (Record and the on-minute hook it calls), Forget, the  *)
(* hourly Sweep, queries, and Close.                                       *)
(*                                                                         *)
(* Locks.  A section under entry.mu is one step.  Store.mu is held over    *)
(* several steps by Sweep only, whose check of an entry and whose removal  *)
(* of it are two sections of entry.mu; lock says whether it holds it.      *)
(* ring.cmu is the set of queries inside a ring: closing the ring waits.   *)
(*                                                                         *)
(* Data.  A sample is its number, its time and its keys; a minute of a     *)
(* ring is the set of samples it aggregates.  TPM ticks make a minute.     *)
(* RingFile models what a ring file does with a minute.                    *)
(***************************************************************************)
EXTENDS Integers, Sequences, FiniteSets, SequencesExt

CONSTANTS
    Items, Keys, Queriers,
    MaxItems,        \* cap on items that are not forgotten (256 in the code)
    MaxForgotten,    \* cap on forgotten items (256 in the code)
    MaxSeries,       \* cap on the series of an item (48 in the code)
    TPM,             \* ticks per minute
    Failing,         \* TRUE when file operations can fail
    Disks,           \* what Open may find at the path of an item
    MaxTime,         \* bound: times 1..MaxTime
    MaxEntries,      \* bound: entries ever made
    MaxRecords,      \* bound: calls of Record
    MaxSweeps,       \* bound: calls of Sweep
    MaxForgets       \* bound: calls of Forget

ASSUME CapsAssumption == /\ MaxItems \in Nat /\ MaxForgotten \in Nat
                         /\ MaxSeries \in Nat /\ TPM \in Nat \ {0}
\* Names are strings of at most MaxItemLen and MaxKeyLen bytes.
ASSUME NamesAssumption == IsFiniteSet(Items) /\ IsFiniteSet(Keys)
\* The bound on entries leaves room for those Open can load.
ASSUME BoundsAssumption == /\ MaxTime \in Nat /\ MaxEntries \in Nat
                           /\ MaxItems <= MaxEntries
ASSUME DisksAssumption == Disks \subseteq {"none", "ring", "corrupt", "unreadable"}

VARIABLES
    lock,      \* TRUE while Sweep holds Store.mu
    closed,    \* Store.closed
    items,     \* Store.items: the entry of each item, 0 = none
    ent, nEnt, \* entries made so far
    file,      \* what is at the path of the item's ring file
    refused,   \* Store.refused
    rec,       \* the sampler of each item, inside Record
    hooks,     \* Store.hooks
    sw,        \* Sweep
    cl,        \* Close
    qry,       \* Query
    smp,       \* history: accepted samples
    dropped,   \* history: samples given up for a documented reason
    commits, hooked,  \* history: minutes committed, hooks called, by item
    calls      \* how many calls of each operation were made

vars == <<lock, closed, items, ent, nEnt, file, refused, rec, hooks, sw, cl,
          qry, smp, dropped, commits, hooked, calls>>

-----------------------------------------------------------------------------
Times   == 1..MaxTime
Minute(t) == t \div TPM
NoAcc   == [min |-> -1, ids |-> {}]
NoEntry == [item |-> "none", keys |-> {}, forgotten |-> 0, mins |-> <<>>,
            closed |-> TRUE, gone |-> TRUE, ringClosed |-> TRUE,
            last |-> 0, acc |-> NoAcc]

\* An entry over a ring with no minute and no sample yet; 0 = no last sample.
NewEntry(i) == [NoEntry EXCEPT !.item = i, !.closed = FALSE, !.gone = FALSE,
                               !.ringClosed = FALSE]

IdleRec == [pc |-> "idle", at |-> 0, ks |-> {}, e |-> 0, by |-> 0, min |-> -1]
IdleQry == [pc |-> "idle", item |-> "none", e |-> 0]

Live      == {i \in Items : items[i] # 0 /\ ent[items[i]].forgotten = 0}
Forgotten == {i \in Items : items[i] # 0 /\ ent[items[i]].forgotten # 0}

KeysOf(ids)  == UNION {smp[n].keys : n \in ids}
Pending(e)   == KeysOf(ent[e].acc.ids)
IdsOf(e)     == ent[e].acc.ids \cup UNION {ent[e].mins[m] : m \in DOMAIN ent[e].mins}

\* open: a ring that reads is loaded, a corrupt one is moved to *.bad or, if
\* the rename fails, left to be replaced; an unreadable one is refused.
Init ==
    /\ lock = FALSE /\ closed = FALSE
    /\ \E d \in [Items -> Disks] :
        \E moved \in SUBSET {i \in Items : d[i] = "corrupt"} :
        LET loaded == {i \in Items : d[i] = "ring"}
        IN  \E id \in [Items -> 0..Cardinality(loaded)] :
              /\ \A i \in Items : id[i] # 0 <=> i \in loaded
              /\ \A i, j \in loaded : id[i] = id[j] => i = j
              /\ Cardinality(loaded) <= MaxItems
              /\ items = id
              /\ nEnt = Cardinality(loaded)
              /\ ent = [e \in 1..MaxEntries |->
                           IF e > Cardinality(loaded) THEN NoEntry
                           ELSE NewEntry(CHOOSE i \in loaded : id[i] = e)]
              /\ file = [i \in Items |-> IF i \in moved THEN "none" ELSE d[i]]
              /\ refused = {i \in Items : d[i] = "unreadable"}
    /\ rec = [i \in Items |-> IdleRec] /\ hooks = 0
    /\ sw = [pc |-> "idle", cut |-> 0, todo |-> {}, item |-> "none"]
    /\ cl = [pc |-> "idle", ents |-> {}, todo |-> {}, done |-> {}]
    /\ qry = [q \in Queriers |-> IdleQry]
    /\ smp = <<>> /\ dropped = {}
    /\ commits = [i \in Items |-> <<>>] /\ hooked = [i \in Items |-> <<>>]
    /\ calls = [record |-> 0, sweep |-> 0, forget |-> 0]

-----------------------------------------------------------------------------
(* Record.                                                                 *)

RecordCall(i, at, ks) ==
    /\ rec[i].pc = "idle" /\ calls.record < MaxRecords
    /\ calls' = [calls EXCEPT !.record = @ + 1]
    /\ rec' = [rec EXCEPT ![i] = [IdleRec EXCEPT !.pc = "lookup", !.at = at, !.ks = ks]]
    /\ UNCHANGED <<lock, closed, items, ent, nEnt, file, refused, hooks, sw, cl,
                   qry, smp, dropped, commits, hooked>>

\* Store.entry returned an error: ErrClosed, the cap, a refused file, or I/O.
EntryFails(i) ==
    /\ rec[i].pc = "lookup" /\ ~lock
    /\ LET known == items[i] # 0 /\ i \in Live
       IN  \/ closed
           \/ ~closed /\ ~known /\ Cardinality(Live) >= MaxItems
           \/ ~closed /\ ~known /\ items[i] = 0 /\ i \in refused
           \/ ~closed /\ ~known /\ Failing
    /\ rec' = [rec EXCEPT ![i] = IdleRec]
    /\ UNCHANGED <<lock, closed, items, ent, nEnt, file, refused, hooks, sw, cl,
                   qry, smp, dropped, commits, hooked, calls>>

EntryFound(i) ==
    /\ rec[i].pc = "lookup" /\ ~lock /\ ~closed
    /\ i \in Live
    /\ rec' = [rec EXCEPT ![i].pc = "record", ![i].e = items[i]]
    /\ UNCHANGED <<lock, closed, items, ent, nEnt, file, refused, hooks, sw, cl,
                   qry, smp, dropped, commits, hooked, calls>>

\* Mutant: a revived item does not count against MaxItems.
EntryRevivedUncapped(i) ==
    /\ rec[i].pc = "lookup" /\ ~lock /\ ~closed
    /\ i \in Forgotten
    /\ ent' = [ent EXCEPT ![items[i]].forgotten = 0]
    /\ rec' = [rec EXCEPT ![i].pc = "record", ![i].e = items[i]]
    /\ UNCHANGED <<lock, closed, items, nEnt, file, refused, hooks, sw, cl,
                   qry, smp, dropped, commits, hooked, calls>>

EntryRevived(i) ==
    /\ rec[i].pc = "lookup" /\ ~lock /\ ~closed
    /\ i \in Forgotten /\ Cardinality(Live) < MaxItems
    /\ ent' = [ent EXCEPT ![items[i]].forgotten = 0]
    /\ rec' = [rec EXCEPT ![i].pc = "record", ![i].e = items[i]]
    /\ UNCHANGED <<lock, closed, items, nEnt, file, refused, hooks, sw, cl,
                   qry, smp, dropped, commits, hooked, calls>>

\* Mutant: a refused file is replaced.
EntryCreatedAnyway(i) ==
    /\ rec[i].pc = "lookup" /\ ~lock /\ ~closed
    /\ items[i] = 0 /\ Cardinality(Live) < MaxItems
    /\ nEnt < MaxEntries
    /\ nEnt' = nEnt + 1
    /\ ent' = [ent EXCEPT ![nEnt + 1] = NewEntry(i)]
    /\ items' = [items EXCEPT ![i] = nEnt + 1]
    /\ file' = [file EXCEPT ![i] = "ring"]
    /\ rec' = [rec EXCEPT ![i].pc = "record", ![i].e = nEnt + 1]
    /\ UNCHANGED <<lock, closed, refused, hooks, sw, cl, qry, smp, dropped,
                   commits, hooked, calls>>

\* createRing replaces whatever is at the path.
EntryCreated(i) ==
    /\ rec[i].pc = "lookup" /\ ~lock /\ ~closed
    /\ items[i] = 0 /\ Cardinality(Live) < MaxItems /\ i \notin refused
    /\ nEnt < MaxEntries
    /\ nEnt' = nEnt + 1
    /\ ent' = [ent EXCEPT ![nEnt + 1] = NewEntry(i)]
    /\ items' = [items EXCEPT ![i] = nEnt + 1]
    /\ file' = [file EXCEPT ![i] = "ring"]
    /\ rec' = [rec EXCEPT ![i].pc = "record", ![i].e = nEnt + 1]
    /\ UNCHANGED <<lock, closed, refused, hooks, sw, cl, qry, smp, dropped,
                   commits, hooked, calls>>

\* entry.record on an entry that is gone (look again), closed, or with a
\* sample at most a minute older than the last one (ErrOutOfOrder).
RecordRefused(i) ==
    LET r == rec[i]
        x == ent[r.e]
    IN  /\ r.pc = "record"
        /\ \/ x.gone \/ x.closed
           \/ r.at < x.last /\ x.last - r.at <= TPM
        /\ rec' = [rec EXCEPT ![i] = IF x.gone THEN [r EXCEPT !.pc = "lookup"] ELSE IdleRec]
        /\ UNCHANGED <<lock, closed, items, ent, nEnt, file, refused, hooks, sw,
                       cl, qry, smp, dropped, commits, hooked, calls>>

\* Mutant: the keys of the pending minute are not counted.
CleanedKnownOnly(known, pending, ks) ==
    LET has  == known
        new  == ks \ has
        room == MaxSeries - Cardinality(has)
    IN  {(ks \cap has) \cup s :
            s \in {t \in SUBSET new :
                      Cardinality(t) = IF room < Cardinality(new) THEN room
                                                                  ELSE Cardinality(new)}}

\* entry.clean: known and pending keys pass, new ones only up to the cap.
Cleaned(known, pending, ks) ==
    LET has  == known \cup pending
        new  == ks \ has
        room == MaxSeries - Cardinality(has)
    IN  {(ks \cap has) \cup s :
            s \in {t \in SUBSET new :
                      Cardinality(t) = IF room < Cardinality(new) THEN room
                                                                  ELSE Cardinality(new)}}

\* entry.commit of entry x: addSeries of every pending key, then writeMinute,
\* which overwrites what the slot held.
Committed(x) == [x EXCEPT !.keys = @ \cup KeysOf(x.acc.ids),
                          !.mins = [m \in DOMAIN @ \cup {x.acc.min} |->
                                       IF m = x.acc.min THEN x.acc.ids ELSE @[m]],
                          !.acc = NoAcc]

Overwritten(x) == IF x.acc.min \in DOMAIN x.mins THEN x.mins[x.acc.min] ELSE {}

\* Mutant: a step back of the clock keeps the pending minute.
PendingKept(acc, back) == acc

\* What is pending after a sample's time was compared with the last one's.
PendingAfter(acc, back) == IF back THEN NoAcc ELSE acc

\* The sample is accepted: after a step back of the clock the pending minute
\* is given up, a newer minute commits it first, then the sample joins.
RecordAccepted(i) ==
    LET r    == rec[i]
        m    == Minute(r.at)
        id   == Len(smp) + 1
        x    == ent[r.e]
        back == r.at < x.last
        x0   == [x EXCEPT !.last = r.at, !.acc = PendingAfter(@, back)]
        roll == x0.acc # NoAcc /\ m > x0.acc.min
        Add(y) == [y EXCEPT !.acc = [min |-> IF @ = NoAcc THEN m ELSE @.min,
                                     ids |-> @.ids \cup {id}]]
        gone == IF back THEN x.acc.ids ELSE {}
    IN  /\ r.pc = "record" /\ ~x.gone /\ ~x.closed
        /\ r.at < x.last => x.last - r.at > TPM
        /\ \E ks \in Cleaned(x.keys, KeysOf(x0.acc.ids), r.ks) :
               smp' = Append(smp, [item |-> i, at |-> r.at, keys |-> ks])
        /\ \/ /\ ~roll
              /\ ent' = [ent EXCEPT ![r.e] = Add(x0)]
              /\ dropped' = dropped \cup gone
              /\ rec' = [rec EXCEPT ![i] = IdleRec]
              /\ UNCHANGED <<hooks, commits>>
           \/ /\ roll
              /\ ent' = [ent EXCEPT ![r.e] = Add(Committed(x0))]
              /\ dropped' = dropped \cup Overwritten(x0)
              /\ hooks' = hooks + 1
              /\ commits' = [commits EXCEPT ![i] = Append(@, x0.acc.min)]
              /\ rec' = [rec EXCEPT ![i].pc = "getHook", ![i].min = x0.acc.min,
                                     ![i].by = r.e]
           \/ /\ roll /\ Failing
              /\ \E ks \in SUBSET KeysOf(x0.acc.ids) :
                     ent' = [ent EXCEPT ![r.e] =
                                Add([x0 EXCEPT !.keys = @ \cup ks, !.acc = NoAcc])]
              /\ dropped' = dropped \cup x0.acc.ids
              /\ rec' = [rec EXCEPT ![i] = IdleRec]
              /\ UNCHANGED <<hooks, commits>>
        /\ UNCHANGED <<lock, closed, items, nEnt, file, refused, sw, cl, qry,
                       hooked, calls>>

\* Record takes Store.mu to read onMinute, then calls it without a lock.
RecordGetHook(i) ==
    /\ rec[i].pc = "getHook" /\ ~lock
    /\ rec' = [rec EXCEPT ![i].pc = "hook"]
    /\ hooked' = [hooked EXCEPT ![i] = Append(@, rec[i].min)]
    /\ UNCHANGED <<lock, closed, items, ent, nEnt, file, refused, hooks, sw, cl,
                   qry, smp, dropped, commits, calls>>

\* The hook looks the item up (minuteValue) and reads its ring.
HookLookup(i) ==
    /\ rec[i].pc = "hook" /\ ~lock
    /\ rec' = [rec EXCEPT ![i].pc = "hookRead", ![i].e = items[i]]
    /\ UNCHANGED <<lock, closed, items, ent, nEnt, file, refused, hooks, sw, cl,
                   qry, smp, dropped, commits, hooked, calls>>

\* Mutant: hooks.Done is forgotten.
HookReturnNever(i) ==
    /\ rec[i].pc = "hookRead"
    /\ rec' = [rec EXCEPT ![i] = IdleRec]
    /\ hooks' = hooks
    /\ UNCHANGED <<lock, closed, items, ent, nEnt, file, refused, sw, cl, qry,
                   smp, dropped, commits, hooked, calls>>

\* Mutant: hooks.Done both deferred and called.
HookReturnTwice(i) ==
    /\ rec[i].pc = "hookRead"
    /\ rec' = [rec EXCEPT ![i] = IdleRec]
    /\ hooks' = hooks - 2
    /\ UNCHANGED <<lock, closed, items, ent, nEnt, file, refused, sw, cl, qry,
                   smp, dropped, commits, hooked, calls>>

HookReturn(i) ==
    /\ rec[i].pc = "hookRead"
    /\ rec' = [rec EXCEPT ![i] = IdleRec]
    /\ hooks' = hooks - 1
    /\ UNCHANGED <<lock, closed, items, ent, nEnt, file, refused, sw, cl, qry,
                   smp, dropped, commits, hooked, calls>>

-----------------------------------------------------------------------------
(* Removal, Forget, Sweep.                                                 *)

InRing(e) == \E q \in Queriers : qry[q].pc = "reading" /\ qry[q].e = e

\* Mutant: a Record that holds the entry is not told.
removeUnmarked(v, now) ==
    /\ \A i \in v : ~InRing(items[i])
    /\ items' = [i \in Items |-> IF i \in v THEN 0 ELSE items[i]]
    /\ ent' = [e \in 1..MaxEntries |->
                  IF \E i \in v : items[i] = e
                    THEN [now[e] EXCEPT !.ringClosed = TRUE]
                    ELSE now[e]]
    /\ \E kept \in IF Failing THEN SUBSET v ELSE {{}} :
           file' = [i \in Items |-> IF i \in v \ kept THEN "none" ELSE file[i]]
    /\ dropped' = dropped \cup UNION {IdsOf(items[i]) : i \in v}

\* remove, of the entries of items v: out of the map, marked gone, the ring
\* closed once no query reads it, the file deleted (or not, if that fails).
remove(v, now) ==
    /\ \A i \in v : ~InRing(items[i])
    /\ items' = [i \in Items |-> IF i \in v THEN 0 ELSE items[i]]
    /\ ent' = [e \in 1..MaxEntries |->
                  IF \E i \in v : items[i] = e
                    THEN [now[e] EXCEPT !.gone = TRUE, !.closed = TRUE, !.ringClosed = TRUE]
                    ELSE now[e]]
    /\ \E kept \in IF Failing THEN SUBSET v ELSE {{}} :
           file' = [i \in Items |-> IF i \in v \ kept THEN "none" ELSE file[i]]
    /\ dropped' = dropped \cup UNION {IdsOf(items[i]) : i \in v}

\* The items forgotten longest ago, as many as there are over the cap.
Oldest(old, now) ==
    {v \in SUBSET old :
        /\ Cardinality(v) = IF Cardinality(old) > MaxForgotten
                               THEN Cardinality(old) - MaxForgotten ELSE 0
        /\ \A i \in v, j \in old \ v :
              now[items[i]].forgotten <= now[items[j]].forgotten}

Forget(i, at) ==
    /\ ~lock /\ ~closed /\ items[i] # 0 /\ calls.forget < MaxForgets
    /\ calls' = [calls EXCEPT !.forget = @ + 1]
    /\ LET now == [ent EXCEPT ![items[i]].forgotten = at]
       IN  \E v \in Oldest(Forgotten \cup {i}, now) : remove(v, now)
    /\ UNCHANGED <<lock, closed, nEnt, refused, rec, hooks, sw, cl, qry, smp,
                   commits, hooked>>

SweepCall(cut) ==
    /\ ~lock /\ ~closed /\ calls.sweep < MaxSweeps
    /\ calls' = [calls EXCEPT !.sweep = @ + 1]
    /\ lock' = TRUE
    /\ sw' = [pc |-> "check", cut |-> cut, item |-> "none",
              todo |-> {i \in Items : items[i] # 0}]
    /\ UNCHANGED <<closed, items, ent, nEnt, file, refused, rec, hooks, cl, qry,
                   smp, dropped, commits, hooked>>

\* The newest minute of the ring or the last sample, whichever is later.
Newest(x) == Max({x.last, 0} \cup {m * TPM : m \in DOMAIN x.mins})

Stale(x, cut) == (x.forgotten # 0 /\ x.forgotten <= cut) \/ Newest(x) <= cut

\* The first section of entry.mu: read, decide, unlock.
SweepCheck(i) ==
    /\ sw.pc = "check" /\ i \in sw.todo
    /\ \/ /\ Stale(ent[items[i]], sw.cut)
          /\ sw' = [sw EXCEPT !.pc = "remove", !.item = i, !.todo = @ \ {i}]
       \/ /\ ~Stale(ent[items[i]], sw.cut) \/ Failing
          /\ sw' = [sw EXCEPT !.todo = @ \ {i}]
    /\ UNCHANGED <<lock, closed, items, ent, nEnt, file, refused, rec, hooks, cl,
                   qry, smp, dropped, commits, hooked, calls>>

\* The second: by now a Record that held the entry may have added to it.
SweepRemove ==
    /\ sw.pc = "remove"
    /\ remove({sw.item}, ent)
    /\ sw' = [sw EXCEPT !.pc = "check", !.item = "none"]
    /\ UNCHANGED <<lock, closed, nEnt, refused, rec, hooks, cl, qry, smp,
                   commits, hooked, calls>>

SweepReturn ==
    /\ sw.pc = "check" /\ sw.todo = {}
    /\ sw' = [sw EXCEPT !.pc = "idle", !.cut = 0]
    /\ lock' = FALSE
    /\ UNCHANGED <<closed, items, ent, nEnt, file, refused, rec, hooks, cl, qry,
                   smp, dropped, commits, hooked, calls>>

-----------------------------------------------------------------------------
(* Close: refuse new work, commit every pending minute, wait for the hooks *)
(* of Records, call its own, close the rings.                              *)

\* Mutant: the store is not marked closed.
CloseCallLate ==
    /\ ~lock /\ ~closed
    /\ closed' = FALSE /\ cl.pc = "idle"
    /\ LET all == {items[i] : i \in Items} \ {0}
       IN  cl' = [pc |-> "commit", ents |-> all, todo |-> all, done |-> {}]
    /\ UNCHANGED <<lock, items, ent, nEnt, file, refused, rec, hooks, sw, qry,
                   smp, dropped, commits, hooked, calls>>

CloseCall ==
    /\ ~lock /\ ~closed
    /\ closed' = TRUE
    /\ LET all == {items[i] : i \in Items} \ {0}
       IN  cl' = [pc |-> "commit", ents |-> all, todo |-> all, done |-> {}]
    /\ UNCHANGED <<lock, items, ent, nEnt, file, refused, rec, hooks, sw, qry,
                   smp, dropped, commits, hooked, calls>>

CloseEntry(e) ==
    LET x == ent[e]
    IN  /\ cl.pc = "commit" /\ e \in cl.todo
        /\ \/ /\ x.acc = NoAcc
              /\ ent' = [ent EXCEPT ![e].closed = TRUE]
              /\ cl' = [cl EXCEPT !.todo = @ \ {e}]
              /\ UNCHANGED <<dropped, commits>>
           \/ /\ x.acc # NoAcc
              /\ ent' = [ent EXCEPT ![e] = [Committed(x) EXCEPT !.closed = TRUE]]
              /\ cl' = [cl EXCEPT !.todo = @ \ {e}, !.done = @ \cup {<<x.item, x.acc.min>>}]
              /\ commits' = [commits EXCEPT ![x.item] = Append(@, x.acc.min)]
              /\ dropped' = dropped \cup Overwritten(x)
           \/ /\ x.acc # NoAcc /\ Failing
              /\ ent' = [ent EXCEPT ![e].closed = TRUE, ![e].acc = NoAcc]
              /\ cl' = [cl EXCEPT !.todo = @ \ {e}]
              /\ dropped' = dropped \cup x.acc.ids
              /\ UNCHANGED commits
        /\ UNCHANGED <<lock, closed, items, nEnt, file, refused, rec, hooks, sw,
                       qry, smp, hooked, calls>>

\* Mutant: Close does not wait for the hooks of Records.
CloseNoWait ==
    /\ cl.pc = "commit" /\ cl.todo = {}
    /\ cl' = [cl EXCEPT !.pc = "hooks"]
    /\ UNCHANGED <<lock, closed, items, ent, nEnt, file, refused, rec, hooks, sw,
                   qry, smp, dropped, commits, hooked, calls>>

\* hooks.Wait
CloseWait ==
    /\ cl.pc = "commit" /\ cl.todo = {} /\ hooks = 0
    /\ cl' = [cl EXCEPT !.pc = "hooks"]
    /\ UNCHANGED <<lock, closed, items, ent, nEnt, file, refused, rec, hooks, sw,
                   qry, smp, dropped, commits, hooked, calls>>

CloseHook(p) ==
    /\ cl.pc = "hooks" /\ p \in cl.done
    /\ hooked' = [hooked EXCEPT ![p[1]] = Append(@, p[2])]
    /\ cl' = [cl EXCEPT !.done = @ \ {p}]
    /\ UNCHANGED <<lock, closed, items, ent, nEnt, file, refused, rec, hooks, sw,
                   qry, smp, dropped, commits, calls>>

\* Mutant: a ring is closed before the hooks ran.
CloseRingFirst(e) ==
    /\ cl.pc = "hooks" /\ e \in cl.ents
    /\ ~InRing(e)
    /\ ent' = [ent EXCEPT ![e].ringClosed = TRUE]
    /\ cl' = [cl EXCEPT !.ents = @ \ {e}]
    /\ UNCHANGED <<lock, closed, items, nEnt, file, refused, rec, hooks, sw,
                   qry, smp, dropped, commits, hooked, calls>>

CloseRing(e) ==
    /\ cl.pc = "hooks" /\ cl.done = {} /\ e \in cl.ents
    /\ ~InRing(e)
    /\ ent' = [ent EXCEPT ![e].ringClosed = TRUE]
    /\ cl' = [cl EXCEPT !.ents = @ \ {e}]
    /\ UNCHANGED <<lock, closed, items, nEnt, file, refused, rec, hooks, sw,
                   qry, smp, dropped, commits, hooked, calls>>

CloseReturn ==
    /\ cl.pc = "hooks" /\ cl.done = {} /\ cl.ents = {}
    /\ cl' = [cl EXCEPT !.pc = "done"]
    /\ UNCHANGED <<lock, closed, items, ent, nEnt, file, refused, rec, hooks, sw,
                   qry, smp, dropped, commits, hooked, calls>>

-----------------------------------------------------------------------------
(* Query: look the item up, then read its ring without Store.mu.           *)

QueryCall(q, i) ==
    /\ qry[q].pc = "idle" /\ ~lock /\ ~closed /\ items[i] # 0
    /\ qry' = [qry EXCEPT ![q] = [pc |-> "found", item |-> i, e |-> items[i]]]
    /\ UNCHANGED <<lock, closed, items, ent, nEnt, file, refused, rec, hooks, sw,
                   cl, smp, dropped, commits, hooked, calls>>

QueryRead(q) ==
    /\ qry[q].pc = "found"
    /\ qry' = [qry EXCEPT ![q].pc =
                  IF ent[qry[q].e].ringClosed THEN "recheck" ELSE "reading"]
    /\ UNCHANGED <<lock, closed, items, ent, nEnt, file, refused, rec, hooks, sw,
                   cl, smp, dropped, commits, hooked, calls>>

\* The answer: points, or ErrClosed or ErrUnknownItem after another look.
QueryReturn(q) ==
    /\ qry[q].pc = "reading" \/ (qry[q].pc = "recheck" /\ ~lock)
    /\ qry' = [qry EXCEPT ![q] = IdleQry]
    /\ UNCHANGED <<lock, closed, items, ent, nEnt, file, refused, rec, hooks, sw,
                   cl, smp, dropped, commits, hooked, calls>>

-----------------------------------------------------------------------------
Sampler(i) ==
    \/ EntryFails(i) \/ EntryFound(i) \/ EntryRevived(i) \/ EntryCreated(i)
    \/ RecordRefused(i) \/ RecordAccepted(i)
    \/ RecordGetHook(i) \/ HookLookup(i) \/ HookReturn(i)

Sweeper == (\E i \in Items : SweepCheck(i)) \/ SweepRemove \/ SweepReturn

Closer == \/ \E e \in 1..MaxEntries : CloseEntry(e) \/ CloseRing(e)
          \/ CloseWait
          \/ \E p \in cl.done : CloseHook(p)
          \/ CloseReturn

Querier(q) == QueryRead(q) \/ QueryReturn(q)

Terminated == /\ cl.pc = "done" /\ sw.pc = "idle"
              /\ \A i \in Items : rec[i].pc = "idle"
              /\ \A q \in Queriers : qry[q].pc = "idle"
              /\ UNCHANGED vars

Next ==
    \/ \E i \in Items, at \in Times, ks \in (SUBSET Keys) \ {{}} : RecordCall(i, at, ks)
    \/ \E i \in Items : Sampler(i)
    \/ \E i \in Items, at \in Times : Forget(i, at)
    \/ \E cut \in Times : SweepCall(cut)
    \/ Sweeper
    \/ CloseCall \/ Closer
    \/ \E q \in Queriers, i \in Items : QueryCall(q, i)
    \/ \E q \in Queriers : Querier(q)
    \/ Terminated

Spec == Init /\ [][Next]_vars

\* A goroutine that can take a step takes one; nobody has to call anything.
Fairness == /\ \A i \in Items : WF_vars(Sampler(i))
            /\ WF_vars(Sweeper) /\ WF_vars(Closer)
            /\ \A q \in Queriers : WF_vars(Querier(q))

FairSpec == Spec /\ Fairness

\* Items are alike: for runs of several.
ItemSymmetry == Permutations(Items)

-----------------------------------------------------------------------------
(* Properties.                                                             *)

\* Every variable holds a value of its type, and the map never points to an
\* entry of another item.
TypeOK ==
    /\ lock \in BOOLEAN /\ closed \in BOOLEAN
    /\ items \in [Items -> 0..nEnt]
    /\ \A i \in Items : items[i] # 0 => ent[items[i]].item = i
    /\ \A e \in 1..MaxEntries :
           /\ ent[e].last \in 0..MaxTime /\ ent[e].forgotten \in 0..MaxTime
           /\ ent[e].acc.ids \subseteq DOMAIN smp
    /\ hooks \in Nat /\ dropped \subseteq DOMAIN smp
    /\ \A i \in Items : rec[i].pc \in {"idle", "lookup", "record", "getHook",
                                       "hook", "hookRead"}

\* MaxItems and MaxForgotten hold in every state, whatever Record revives or
\* creates and Forget gives up.
ItemCaps == Cardinality(Live) <= MaxItems /\ Cardinality(Forgotten) <= MaxForgotten

\* clean leaves room: the series of the ring and those pending never exceed
\* MaxSeries, so addSeries cannot refuse a key that Record accepted.
SeriesCap == \A e \in 1..nEnt : Cardinality(ent[e].keys \cup Pending(e)) <= MaxSeries

\* A minute of the ring, or pending, aggregates samples of that minute only,
\* wherever the clock has stepped back to meanwhile.
MinuteOfSamples ==
    \A e \in 1..nEnt :
        /\ \A m \in DOMAIN ent[e].mins : \A n \in ent[e].mins[m] : Minute(smp[n].at) = m
        /\ \A n \in ent[e].acc.ids : Minute(smp[n].at) = ent[e].acc.min

\* An accepted sample is where a query or the next commit finds it, in the
\* entry the map holds, unless it was given up: the clock stepped back, its
\* commit failed, its minute was written again, or its item was removed.
AcceptedKept ==
    \A n \in (DOMAIN smp) \ dropped :
        LET e == items[smp[n].item] IN e # 0 /\ n \in IdsOf(e)

\* The hooks of an item are called once per committed minute, in the order of
\* the commits, those of Close included (one sampler per item); "no hook runs
\* after it returns", and none is missing by then.
HooksInOrder ==
    \A i \in Items :
        /\ IsPrefix(hooked[i], commits[i])
        /\ cl.pc = "done" => /\ rec[i].pc \notin {"getHook", "hook", "hookRead"}
                             /\ hooked[i] = commits[i]

\* A hook that reads the minute it is called for finds it, and the ring open,
\* unless the item was removed meanwhile; so do the hooks Close has yet to call.
HookSeesMinute ==
    /\ \A i \in Items : rec[i].pc = "hookRead" =>
           LET x == ent[rec[i].by]
           IN  \/ x.gone
               \/ rec[i].e = rec[i].by /\ ~x.ringClosed /\ rec[i].min \in DOMAIN x.mins
    /\ \A p \in cl.done :
           LET x == ent[items[p[1]]] IN ~x.ringClosed /\ p[2] \in DOMAIN x.mins

\* A query that found its ring closed answers ErrUnknownItem only for an item
\* that was removed, and ErrClosed only for a closed store.
QueryAnswer == \A q \in Queriers : qry[q].pc = "recheck" =>
                   closed \/ ent[qry[q].e].gone

\* A ring file that could not be read at Open is never replaced.
RefusedKept == [][\A i \in Items : file[i] = "unreadable" => file'[i] = "unreadable"]_vars

\* Close returns, although it waits for the hooks of Records in flight.
CloseReturns == cl.pc = "commit" ~> cl.pc = "done"

\* "Sweep removes every item forgotten, or without data, for 7 days or more":
\* and only those.
SweepJustified ==
    [][\A i \in Items : sw.pc = "remove" /\ items[i] # 0 /\ items'[i] = 0 =>
            Stale(ent[items[i]], sw.cut)]_vars

=============================================================================
