----------------------------- MODULE StoreProofs -----------------------------
(***************************************************************************)
(* The Store of pkg/stats, for any number of items, series, queries and    *)
(* calls, with file operations that can fail.  One invariant per piece of  *)
(* state that its goroutines share: the map and its entries, the samplers  *)
(* inside Record and the hooks they owe, Sweep, Close and the queries.     *)
(***************************************************************************)
EXTENDS StatsStore, FiniteSetTheorems, SequenceTheorems, TLAPS

-----------------------------------------------------------------------------
(* Types.                                                                  *)

RecPcs  == {"idle", "lookup", "record", "getHook", "hook", "hookRead"}
HookPcs == {"getHook", "hook", "hookRead"}

Acc   == [min : Int, ids : SUBSET Nat]
Mins  == UNION {[D -> SUBSET Nat] : D \in SUBSET Int}
Entry == [item : Items \cup {"none"}, keys : SUBSET Keys, forgotten : 0..MaxTime,
          mins : Mins, closed : BOOLEAN, gone : BOOLEAN, ringClosed : BOOLEAN,
          last : 0..MaxTime, acc : Acc]
Sample == [item : Items, at : 0..MaxTime, keys : SUBSET Keys]
Rec   == [pc : RecPcs, at : 0..MaxTime, ks : SUBSET Keys, e : 0..MaxEntries,
          by : 0..MaxEntries, min : Int]

EntTypes  == /\ nEnt \in 0..MaxEntries /\ items \in [Items -> 0..nEnt]
             /\ ent \in [1..MaxEntries -> Entry]
RecTypes  == rec \in [Items -> Rec]
HistTypes == /\ smp \in Seq(Sample) /\ dropped \subseteq DOMAIN smp
             /\ \A e \in 1..MaxEntries : IdsOf(e) \subseteq DOMAIN smp
             /\ commits \in [Items -> Seq(Int)] /\ hooked \in [Items -> Seq(Int)]
ProcTypes == /\ lock \in BOOLEAN /\ closed \in BOOLEAN /\ refused \subseteq Items
             /\ sw \in [pc : {"idle", "check", "remove"}, cut : 0..MaxTime,
                        item : Items \cup {"none"}, todo : SUBSET Items]
             /\ cl \in [pc : {"idle", "commit", "hooks", "done"}, ents : SUBSET Nat,
                        todo : SUBSET Nat, done : SUBSET (Items \X Int)]
             /\ qry \in [Queriers -> [pc : {"idle", "found", "reading", "recheck"},
                                      item : Items \cup {"none"}, e : 0..MaxEntries]]

Types == EntTypes /\ RecTypes /\ HistTypes /\ ProcTypes

-----------------------------------------------------------------------------
(* Lemmas about the operators of the model.                                *)

LEMMA NoAccLemma == NoAcc \in Acc /\ NoAcc.ids = {}
BY DEF NoAcc, Acc

LEMMA NoEntryLemma ==
    NoEntry \in Entry /\ DOMAIN NoEntry.mins = {} /\ NoEntry.acc = NoAcc
<1>1. <<>> \in Mins /\ DOMAIN <<>> = {}
      <2>1. PICK n \in Nat : <<>> \in [1..n -> SUBSET Nat] BY SeqDef
      <2>2. 1..n \in SUBSET Int OBVIOUS
      <2>. QED BY <2>1, <2>2 DEF Mins
<1>. QED BY <1>1, NoAccLemma, BoundsAssumption DEF NoEntry, Entry

LEMMA NewEntryLemma ==
    ASSUME NEW i \in Items
    PROVE  /\ NewEntry(i) \in Entry
           /\ NewEntry(i).item = i /\ NewEntry(i).keys = {} /\ NewEntry(i).forgotten = 0
           /\ DOMAIN NewEntry(i).mins = {} /\ NewEntry(i).acc = NoAcc
           /\ ~NewEntry(i).closed /\ ~NewEntry(i).gone /\ ~NewEntry(i).ringClosed
BY NoEntryLemma DEF NewEntry, NoEntry, Entry

LEMMA EntryFields ==
    ASSUME NEW x \in Entry
    PROVE  /\ x.item \in Items \cup {"none"} /\ x.keys \subseteq Keys
           /\ x.forgotten \in 0..MaxTime /\ x.last \in 0..MaxTime
           /\ x.closed \in BOOLEAN /\ x.gone \in BOOLEAN /\ x.ringClosed \in BOOLEAN
           /\ x.mins \in Mins /\ x.acc \in Acc
           /\ x.acc.min \in Int /\ x.acc.ids \subseteq Nat
           /\ DOMAIN x.mins \subseteq Int
           /\ \A m \in DOMAIN x.mins : x.mins[m] \subseteq Nat
<1>1. x.mins \in Mins /\ x.acc \in Acc BY DEF Entry
<1>2. PICK D \in SUBSET Int : x.mins \in [D -> SUBSET Nat] BY <1>1 DEF Mins
<1>. QED BY <1>1, <1>2 DEF Entry, Acc

\* commit: the pending keys become the ring's, the pending samples its minute.
LEMMA CommittedLemma ==
    ASSUME NEW x \in Entry, KeysOf(x.acc.ids) \subseteq Keys
    PROVE  LET y == Committed(x)
           IN  /\ y \in Entry
               /\ y.item = x.item /\ y.forgotten = x.forgotten /\ y.last = x.last
               /\ y.closed = x.closed /\ y.gone = x.gone /\ y.ringClosed = x.ringClosed
               /\ y.keys = x.keys \cup KeysOf(x.acc.ids) /\ y.acc = NoAcc
               /\ DOMAIN y.mins = DOMAIN x.mins \cup {x.acc.min}
               /\ \A m \in DOMAIN y.mins :
                      y.mins[m] = IF m = x.acc.min THEN x.acc.ids ELSE x.mins[m]
<1>. DEFINE D == DOMAIN x.mins \cup {x.acc.min}
            M == [m \in D |-> IF m = x.acc.min THEN x.acc.ids ELSE x.mins[m]]
            K == x.keys \cup KeysOf(x.acc.ids)
<1>1. D \in SUBSET Int BY EntryFields
<1>2. M \in [D -> SUBSET Nat] BY EntryFields
<1>3. M \in Mins BY <1>1, <1>2 DEF Mins
<1>4. Committed(x) = [x EXCEPT !.keys = K, !.mins = M, !.acc = NoAcc]
      BY DEF Committed
<1>5. K \subseteq Keys BY EntryFields
<1>6. NoAcc \in Acc BY NoAccLemma
<1>7. DOMAIN M = D /\ \A m \in D : M[m] = IF m = x.acc.min THEN x.acc.ids ELSE x.mins[m]
      OBVIOUS
<1>. HIDE DEF D, M, K
<1>8. /\ Committed(x) \in Entry
      /\ Committed(x).item = x.item /\ Committed(x).forgotten = x.forgotten
      /\ Committed(x).last = x.last /\ Committed(x).closed = x.closed
      /\ Committed(x).gone = x.gone /\ Committed(x).ringClosed = x.ringClosed
      /\ Committed(x).keys = K /\ Committed(x).acc = NoAcc /\ Committed(x).mins = M
      BY <1>3, <1>4, <1>5, <1>6 DEF Entry
<1>. QED BY <1>7, <1>8 DEF D, K

\* remove: of the entries, only gone, closed and ringClosed change, and only
\* of those the map had for the items removed.
LEMMA RemoveLemma ==
    ASSUME NEW v, NEW now \in [1..MaxEntries -> Entry], remove(v, now)
    PROVE  /\ ent' \in [1..MaxEntries -> Entry]
           /\ \A e \in 1..MaxEntries :
                  /\ ent'[e].item = now[e].item /\ ent'[e].keys = now[e].keys
                  /\ ent'[e].forgotten = now[e].forgotten /\ ent'[e].mins = now[e].mins
                  /\ ent'[e].last = now[e].last /\ ent'[e].acc = now[e].acc
                  /\ (\E i \in v : items[i] = e) =>
                         ent'[e].gone /\ ent'[e].closed /\ ent'[e].ringClosed
                  /\ (\A i \in v : items[i] # e) => ent'[e] = now[e]
<1>1. ent' = [e \in 1..MaxEntries |->
                  IF \E i \in v : items[i] = e
                    THEN [now[e] EXCEPT !.gone = TRUE, !.closed = TRUE, !.ringClosed = TRUE]
                    ELSE now[e]]
      BY DEF remove
<1>2. ASSUME NEW x \in Entry
      PROVE  LET y == [x EXCEPT !.gone = TRUE, !.closed = TRUE, !.ringClosed = TRUE]
             IN  /\ y \in Entry /\ y.gone /\ y.closed /\ y.ringClosed
                 /\ y.item = x.item /\ y.keys = x.keys /\ y.forgotten = x.forgotten
                 /\ y.mins = x.mins /\ y.last = x.last /\ y.acc = x.acc
      BY DEF Entry
<1>3. ASSUME NEW e \in 1..MaxEntries
      PROVE  /\ ent'[e] \in Entry
             /\ ent'[e].item = now[e].item /\ ent'[e].keys = now[e].keys
             /\ ent'[e].forgotten = now[e].forgotten /\ ent'[e].mins = now[e].mins
             /\ ent'[e].last = now[e].last /\ ent'[e].acc = now[e].acc
             /\ (\E i \in v : items[i] = e) =>
                    ent'[e].gone /\ ent'[e].closed /\ ent'[e].ringClosed
             /\ (\A i \in v : items[i] # e) => ent'[e] = now[e]
      <2>1. now[e] \in Entry OBVIOUS
      <2>2. CASE \E i \in v : items[i] = e
            BY <1>1, <1>2, <2>1, <2>2
      <2>3. CASE ~ \E i \in v : items[i] = e
            BY <1>1, <2>1, <2>3
      <2>. QED BY <2>2, <2>3
<1>. QED BY <1>1, <1>3

\* What a sample leaves pending of what was pending before it: all, or nothing
\* after a step back of the clock.
Kept(i) == PendingAfter(ent[rec[i].e].acc, rec[i].at < ent[rec[i].e].last)

\* Whether the sample is the first of a newer minute.
Rolls(i) == Kept(i) # NoAcc /\ Minute(rec[i].at) > Kept(i).min

\* The three outcomes of an accepted sample, for the entry y it leaves and the
\* keys ks that passed clean.
Joins(i, y) ==
    LET x == ent[rec[i].e]
    IN  /\ ~Rolls(i) /\ y.keys = x.keys /\ y.mins = x.mins
        /\ y.acc = [min |-> IF Kept(i) = NoAcc THEN Minute(rec[i].at) ELSE Kept(i).min,
                    ids |-> Kept(i).ids \cup {Len(smp) + 1}]
        /\ dropped' = dropped \cup (IF rec[i].at < x.last THEN x.acc.ids ELSE {})
        /\ rec' = [rec EXCEPT ![i] = IdleRec]
        /\ UNCHANGED <<hooks, commits>>

Commits(i, y) ==
    LET x == ent[rec[i].e]
    IN  /\ Rolls(i) /\ y.keys = x.keys \cup KeysOf(x.acc.ids)
        /\ DOMAIN y.mins = DOMAIN x.mins \cup {x.acc.min}
        /\ \A m \in DOMAIN y.mins :
               y.mins[m] = IF m = x.acc.min THEN x.acc.ids ELSE x.mins[m]
        /\ y.acc = [min |-> Minute(rec[i].at), ids |-> {Len(smp) + 1}]
        /\ dropped' = dropped \cup Overwritten(x)
        /\ hooks' = hooks + 1
        /\ commits' = [commits EXCEPT ![i] = Append(@, x.acc.min)]
        /\ rec' = [rec EXCEPT ![i].pc = "getHook", ![i].min = x.acc.min, ![i].by = rec[i].e]

Loses(i, y) ==
    LET x == ent[rec[i].e]
    IN  /\ Rolls(i)
        /\ x.keys \subseteq y.keys /\ y.keys \subseteq x.keys \cup KeysOf(x.acc.ids)
        /\ y.mins = x.mins
        /\ y.acc = [min |-> Minute(rec[i].at), ids |-> {Len(smp) + 1}]
        /\ dropped' = dropped \cup x.acc.ids
        /\ rec' = [rec EXCEPT ![i] = IdleRec]
        /\ UNCHANGED <<hooks, commits>>

Accepts(i, y, ks) ==
    LET x == ent[rec[i].e]
    IN  /\ ent' = [ent EXCEPT ![rec[i].e] = y] /\ y \in Entry
        /\ y.item = x.item /\ y.forgotten = x.forgotten /\ y.last = rec[i].at
        /\ y.closed = x.closed /\ y.gone = x.gone /\ y.ringClosed = x.ringClosed
        /\ ks \in Cleaned(x.keys, KeysOf(Kept(i).ids), rec[i].ks) /\ ks \subseteq Keys
        /\ smp' = Append(smp, [item |-> i, at |-> rec[i].at, keys |-> ks])
        /\ Joins(i, y) \/ Commits(i, y) \/ Loses(i, y)

LEMMA KeysTyped ==
    ASSUME Types, NEW ids, ids \subseteq DOMAIN smp
    PROVE  KeysOf(ids) \subseteq Keys
<1>1. ASSUME NEW n \in ids PROVE smp[n].keys \subseteq Keys
      <2>1. smp[n] \in Sample BY DEF Types, HistTypes
      <2>. QED BY <2>1 DEF Sample
<1>. QED BY <1>1 DEF KeysOf

LEMMA KeptLemma ==
    ASSUME Types, NEW i \in Items, rec[i].e \in 1..MaxEntries
    PROVE  /\ Kept(i) \in Acc
           /\ Kept(i) = IF rec[i].at < ent[rec[i].e].last THEN NoAcc
                        ELSE ent[rec[i].e].acc
           /\ Kept(i).ids \subseteq ent[rec[i].e].acc.ids
           /\ ent[rec[i].e].acc.ids \subseteq DOMAIN smp
           /\ Rolls(i) => Kept(i) = ent[rec[i].e].acc /\ ~(rec[i].at < ent[rec[i].e].last)
<1>1. ent[rec[i].e] \in Entry BY DEF Types, EntTypes
<1>2. ent[rec[i].e].acc \in Acc BY <1>1, EntryFields
<1>3. ent[rec[i].e].acc.ids \subseteq DOMAIN smp
      BY DEF Types, HistTypes, IdsOf
<1>4. Kept(i) = IF rec[i].at < ent[rec[i].e].last THEN NoAcc ELSE ent[rec[i].e].acc
      BY DEF Kept, PendingAfter
<1>. QED BY <1>2, <1>3, <1>4, NoAccLemma DEF Rolls

\* An accepted sample has one of the three outcomes.
LEMMA AcceptedLemma ==
    ASSUME Types, NEW i \in Items, rec[i].e \in 1..MaxEntries, RecordAccepted(i)
    PROVE  \E y, ks : Accepts(i, y, ks)
<1>. DEFINE r == rec[i]
            m == Minute(r.at)
            id == Len(smp) + 1
            x == ent[r.e]
            back == r.at < x.last
            x0 == [x EXCEPT !.last = r.at, !.acc = PendingAfter(@, back)]
            roll == x0.acc # NoAcc /\ m > x0.acc.min
            Add(y) == [y EXCEPT !.acc = [min |-> IF @ = NoAcc THEN m ELSE @.min,
                                         ids |-> @.ids \cup {id}]]
            gone == IF back THEN x.acc.ids ELSE {}
<1>1. PICK ks \in Cleaned(x.keys, KeysOf(x0.acc.ids), r.ks) :
          smp' = Append(smp, [item |-> i, at |-> r.at, keys |-> ks])
      BY DEF RecordAccepted
<1>2. \/ /\ ~roll
         /\ ent' = [ent EXCEPT ![r.e] = Add(x0)]
         /\ dropped' = dropped \cup gone
         /\ rec' = [rec EXCEPT ![i] = IdleRec]
         /\ UNCHANGED <<hooks, commits>>
      \/ /\ roll
         /\ ent' = [ent EXCEPT ![r.e] = Add(Committed(x0))]
         /\ dropped' = dropped \cup Overwritten(x0)
         /\ hooks' = hooks + 1
         /\ commits' = [commits EXCEPT ![i] = Append(@, x0.acc.min)]
         /\ rec' = [rec EXCEPT ![i].pc = "getHook", ![i].min = x0.acc.min,
                               ![i].by = r.e]
      \/ /\ roll
         /\ \E k \in SUBSET KeysOf(x0.acc.ids) :
                ent' = [ent EXCEPT ![r.e] = Add([x0 EXCEPT !.keys = @ \cup k, !.acc = NoAcc])]
         /\ dropped' = dropped \cup x0.acc.ids
         /\ rec' = [rec EXCEPT ![i] = IdleRec]
         /\ UNCHANGED <<hooks, commits>>
      BY DEF RecordAccepted
<1>3. /\ x \in Entry /\ r.at \in 0..MaxTime /\ r.ks \subseteq Keys
      /\ m \in Int /\ id \in Nat
      <2>1. x \in Entry BY DEF Types, EntTypes
      <2>2. r \in Rec BY DEF Types, RecTypes
      <2>3. m \in Int BY <2>2, CapsAssumption DEF Rec, Minute
      <2>4. id \in Nat BY DEF Types, HistTypes
      <2>. QED BY <2>1, <2>2, <2>3, <2>4 DEF Rec
<1>4. /\ Kept(i) \in Acc /\ Kept(i) = PendingAfter(x.acc, back)
      /\ Kept(i).ids \subseteq DOMAIN smp
      /\ Rolls(i) => Kept(i) = x.acc /\ ~back
      BY KeptLemma DEF Kept
<1>5. /\ x0 \in Entry /\ x0.last = r.at /\ x0.acc = Kept(i)
      /\ x0.item = x.item /\ x0.forgotten = x.forgotten /\ x0.keys = x.keys
      /\ x0.closed = x.closed /\ x0.gone = x.gone /\ x0.ringClosed = x.ringClosed
      /\ x0.mins = x.mins
      BY <1>3, <1>4 DEF Entry
<1>6. roll <=> Rolls(i) BY <1>5 DEF Rolls
<1>7. ASSUME NEW y \in Entry
      PROVE  LET z == Add(y)
             IN  /\ z \in Entry /\ z.item = y.item /\ z.forgotten = y.forgotten
                 /\ z.keys = y.keys /\ z.closed = y.closed /\ z.gone = y.gone
                 /\ z.ringClosed = y.ringClosed /\ z.mins = y.mins /\ z.last = y.last
                 /\ z.acc = [min |-> IF y.acc = NoAcc THEN m ELSE y.acc.min,
                             ids |-> y.acc.ids \cup {id}]
      <2>. DEFINE a == [min |-> IF y.acc = NoAcc THEN m ELSE y.acc.min,
                        ids |-> y.acc.ids \cup {id}]
      <2>1. a \in Acc BY <1>3, EntryFields DEF Acc
      <2>2. Add(y) = [y EXCEPT !.acc = a] OBVIOUS
      <2>. HIDE DEF a
      <2>3. /\ [y EXCEPT !.acc = a] \in Entry /\ [y EXCEPT !.acc = a].item = y.item
            /\ [y EXCEPT !.acc = a].forgotten = y.forgotten
            /\ [y EXCEPT !.acc = a].keys = y.keys /\ [y EXCEPT !.acc = a].closed = y.closed
            /\ [y EXCEPT !.acc = a].gone = y.gone
            /\ [y EXCEPT !.acc = a].ringClosed = y.ringClosed
            /\ [y EXCEPT !.acc = a].mins = y.mins /\ [y EXCEPT !.acc = a].last = y.last
            /\ [y EXCEPT !.acc = a].acc = a
            BY <2>1 DEF Entry
      <2>. QED BY <2>2, <2>3 DEF a
<1>8. /\ ks \in Cleaned(x.keys, KeysOf(Kept(i).ids), r.ks) /\ ks \subseteq Keys
      BY <1>1, <1>3, <1>5 DEF Cleaned
<1>. HIDE DEF x0, roll, Add
<1>9. CASE /\ ~roll
           /\ ent' = [ent EXCEPT ![r.e] = Add(x0)]
           /\ dropped' = dropped \cup gone
           /\ rec' = [rec EXCEPT ![i] = IdleRec]
           /\ UNCHANGED <<hooks, commits>>
      <2>. DEFINE y == Add(x0)
      <2>1. /\ y \in Entry /\ y.last = r.at
            /\ y.item = x.item /\ y.forgotten = x.forgotten /\ y.keys = x.keys
            /\ y.closed = x.closed /\ y.gone = x.gone /\ y.ringClosed = x.ringClosed
            /\ y.mins = x.mins
            /\ y.acc = [min |-> IF Kept(i) = NoAcc THEN m ELSE Kept(i).min,
                        ids |-> Kept(i).ids \cup {id}]
            BY <1>5, <1>7
      <2>2. ent' = [ent EXCEPT ![r.e] = y] BY <1>9
      <2>. HIDE DEF y
      <2>3. Joins(i, y)
            BY <1>6, <1>9, <2>1 DEF Joins
      <2>. QED BY <1>1, <1>8, <2>1, <2>2, <2>3 DEF Accepts
<1>10. CASE /\ roll /\ ent' = [ent EXCEPT ![r.e] = Add(Committed(x0))]
            /\ dropped' = dropped \cup Overwritten(x0)
            /\ hooks' = hooks + 1
            /\ commits' = [commits EXCEPT ![i] = Append(@, x0.acc.min)]
            /\ rec' = [rec EXCEPT ![i].pc = "getHook", ![i].min = x0.acc.min,
                                  ![i].by = r.e]
      <2>1. x0.acc = x.acc BY <1>4, <1>5, <1>6, <1>10
      <2>2. KeysOf(x0.acc.ids) \subseteq Keys BY <1>4, <1>5, KeysTyped
      <2>. DEFINE c == Committed(x0)
      <2>3. /\ c \in Entry
            /\ c.item = x.item /\ c.forgotten = x.forgotten /\ c.last = r.at
            /\ c.closed = x.closed /\ c.gone = x.gone /\ c.ringClosed = x.ringClosed
            /\ c.keys = x.keys \cup KeysOf(x.acc.ids) /\ c.acc = NoAcc
            /\ DOMAIN c.mins = DOMAIN x.mins \cup {x.acc.min}
            /\ \A k \in DOMAIN c.mins :
                   c.mins[k] = IF k = x.acc.min THEN x.acc.ids ELSE x.mins[k]
            <3>. USE <1>5, <2>1, <2>2, CommittedLemma
            <3>1. /\ c \in Entry
                  /\ c.item = x.item /\ c.forgotten = x.forgotten /\ c.last = r.at
                  /\ c.closed = x.closed /\ c.gone = x.gone /\ c.ringClosed = x.ringClosed
                  /\ c.acc = NoAcc
                  OBVIOUS
            <3>2. c.keys = x.keys \cup KeysOf(x.acc.ids) OBVIOUS
            <3>3. DOMAIN c.mins = DOMAIN x.mins \cup {x.acc.min} OBVIOUS
            <3>4. \A k \in DOMAIN c.mins :
                      c.mins[k] = IF k = x.acc.min THEN x.acc.ids ELSE x.mins[k]
                  OBVIOUS
            <3>. QED BY <3>1, <3>2, <3>3, <3>4
      <2>. HIDE DEF c
      <2>4. Overwritten(x0) = Overwritten(x) BY <1>5, <2>1 DEF Overwritten
      <2>. DEFINE y == Add(c)
      <2>5. /\ y \in Entry /\ y.last = r.at
            /\ y.item = x.item /\ y.forgotten = x.forgotten
            /\ y.keys = x.keys \cup KeysOf(x.acc.ids)
            /\ y.closed = x.closed /\ y.gone = x.gone /\ y.ringClosed = x.ringClosed
            /\ y.mins = c.mins /\ y.acc = [min |-> m, ids |-> {id}]
            BY SMTT(30), <1>7, <2>3, NoAccLemma
      <2>6. ent' = [ent EXCEPT ![r.e] = y] BY <1>10 DEF c
      <2>. HIDE DEF y
      <2>7. Commits(i, y)
            BY <1>6, <1>10, <2>1, <2>3, <2>4, <2>5 DEF Commits
      <2>. QED BY <1>1, <1>8, <2>5, <2>6, <2>7 DEF Accepts
<1>11. CASE /\ roll
            /\ \E k \in SUBSET KeysOf(x0.acc.ids) :
                   ent' = [ent EXCEPT ![r.e] = Add([x0 EXCEPT !.keys = @ \cup k, !.acc = NoAcc])]
            /\ dropped' = dropped \cup x0.acc.ids
            /\ rec' = [rec EXCEPT ![i] = IdleRec]
            /\ UNCHANGED <<hooks, commits>>
      <2>1. x0.acc = x.acc BY <1>4, <1>5, <1>6, <1>11
      <2>2. KeysOf(x0.acc.ids) \subseteq Keys BY <1>4, <1>5, KeysTyped
      <2>3. PICK k \in SUBSET KeysOf(x0.acc.ids) :
                 ent' = [ent EXCEPT ![r.e] = Add([x0 EXCEPT !.keys = @ \cup k, !.acc = NoAcc])]
            BY <1>11
      <2>. DEFINE l == [x0 EXCEPT !.keys = @ \cup k, !.acc = NoAcc]
      <2>4. /\ l \in Entry
            /\ l.item = x.item /\ l.forgotten = x.forgotten /\ l.last = r.at
            /\ l.closed = x.closed /\ l.gone = x.gone /\ l.ringClosed = x.ringClosed
            /\ l.keys = x.keys \cup k /\ l.acc = NoAcc /\ l.mins = x.mins
            BY <1>5, <2>2, NoAccLemma DEF Entry
      <2>. HIDE DEF l
      <2>5. Add(l).acc = [min |-> m, ids |-> {id}]
            BY <1>7, <2>4, NoAccLemma
      <2>6. Loses(i, Add(l))
            BY <1>6, <1>7, <1>11, <2>1, <2>4, <2>5 DEF Loses
      <2>. QED BY <1>1, <1>7, <1>8, <2>3, <2>4, <2>6 DEF Accepts, l
<1>. QED BY <1>2, <1>9, <1>10, <1>11

-----------------------------------------------------------------------------
(* The inductive invariant.                                                *)

\* The map of items points to entries of its own items, in use.
MapInv ==
    \A i \in Items : items[i] # 0 => ent[items[i]].item = i /\ ~ent[items[i]].gone

\* Entry e serves item i: it is the one of the map, or it was removed since.
Serves(i, e) == /\ e \in 1..nEnt /\ ent[e].item = i
                /\ ent[e].gone \/ items[i] = e

\* A sampler holds an entry of its item; the minute its hook is owed for is in
\* the ring of the entry it committed to.
RecInv ==
    \A i \in Items :
        /\ rec[i].pc = "record" => Serves(i, rec[i].e)
        /\ rec[i].pc \in HookPcs =>
               /\ Serves(i, rec[i].by) /\ rec[i].min \in DOMAIN ent[rec[i].by].mins
               /\ cl.pc \notin {"hooks", "done"}
        /\ rec[i].pc = "hookRead" => ent[rec[i].by].gone \/ rec[i].e = rec[i].by

\* While Sweep holds Store.mu nothing else changes the map.
SweepInv ==
    /\ lock <=> sw.pc # "idle"
    /\ sw.pc = "idle" => sw.todo = {}
    /\ \A i \in sw.todo : items[i] # 0
    /\ sw.pc = "remove" => sw.item \in Items /\ items[sw.item] # 0 /\ sw.item \notin sw.todo

\* Close closes every entry of a map that no longer changes, and owes one hook
\* for each pending minute it committed.
CloseInv ==
    /\ closed <=> cl.pc # "idle"
    /\ closed => ~lock
    /\ cl.pc = "idle" => cl.done = {} /\ cl.todo = {} /\ cl.ents = {}
    /\ cl.pc = "done" => cl.done = {}
    /\ cl.pc \in {"hooks", "done"} => cl.todo = {}
    /\ closed => \A i \in Items : items[i] # 0 =>
                     items[i] \in cl.todo \/ ent[items[i]].closed
    /\ \A e \in cl.todo : e \in 1..nEnt /\ \E i \in Items : items[i] = e
    /\ \A p \in cl.done : /\ items[p[1]] # 0 /\ items[p[1]] \notin cl.todo
                          /\ p[2] \in DOMAIN ent[items[p[1]]].mins
    /\ \A p1, p2 \in cl.done : p1[1] = p2[1] => p1 = p2
    /\ \A e \in cl.ents : e \in 1..nEnt

\* A ring is closed when its item is removed, or by Close after its hooks.
RingsInv ==
    \A e \in 1..nEnt : ent[e].ringClosed =>
        ent[e].gone \/ (cl.pc \in {"hooks", "done"} /\ cl.done = {})

QueryInv == \A q \in Queriers : qry[q].pc # "idle" =>
                /\ qry[q].e \in 1..nEnt
                /\ qry[q].pc = "recheck" => closed \/ ent[qry[q].e].gone

\* hooks counts the samplers between a commit and the return of its hook.
InHooks  == {i \in Items : rec[i].pc \in HookPcs}
CountInv == hooks = Cardinality(InHooks)

\* What the shared state promises about itself.
SharedInv == MapInv /\ RecInv /\ CountInv /\ SweepInv /\ CloseInv /\ RingsInv /\ QueryInv

-----------------------------------------------------------------------------
(* Types.                                                                  *)

\* Open numbers the entries of the rings it loads from 1.
LEMMA InitEntries ==
    ASSUME NEW loaded \in SUBSET Items, NEW id \in [Items -> 0..Cardinality(loaded)],
           \A i \in Items : id[i] # 0 <=> i \in loaded,
           \A i, j \in loaded : id[i] = id[j] => i = j,
           NEW e \in 1..Cardinality(loaded)
    PROVE  \E i \in loaded : id[i] = e
<1>. DEFINE n == Cardinality(loaded)
            f == [i \in loaded |-> id[i]]
<1>1. IsFiniteSet(loaded) /\ n \in Nat
      BY NamesAssumption, FS_Subset, FS_CardinalityType
<1>2. IsFiniteSet(1..n) /\ Cardinality(1..n) = n
      BY <1>1, FS_Interval
<1>3. f \in Injection(loaded, 1..n)
      <2>1. \A i \in loaded : id[i] \in 1..n BY <1>1
      <2>. QED BY <2>1 DEF Injection, IsInjective
<1>4. f \in Surjection(loaded, 1..n)
      BY <1>1, <1>2, <1>3, FS_Injection
<1>. QED BY <1>4 DEF Surjection

\* A run starts with at most MaxItems rings loaded, and nothing recorded yet.
Fresh == /\ \A e \in 1..MaxEntries : /\ ent[e].keys = {} /\ DOMAIN ent[e].mins = {}
                                     /\ ent[e].acc = NoAcc /\ ent[e].forgotten = 0
         /\ Cardinality({i \in Items : items[i] # 0}) <= MaxItems

LEMMA TypesInit == Init => Types /\ SharedInv /\ Fresh
<1>. SUFFICES ASSUME Init PROVE Types /\ SharedInv /\ Fresh
     OBVIOUS
<1>1. PICK d \in [Items -> Disks] :
          \E moved \in SUBSET {i \in Items : d[i] = "corrupt"} :
          LET all == {i \in Items : d[i] = "ring"}
          IN  \E id \in [Items -> 0..Cardinality(all)] :
                /\ \A i \in Items : id[i] # 0 <=> i \in all
                /\ \A i, j \in all : id[i] = id[j] => i = j
                /\ Cardinality(all) <= MaxItems
                /\ items = id
                /\ nEnt = Cardinality(all)
                /\ ent = [e \in 1..MaxEntries |->
                             IF e > Cardinality(all) THEN NoEntry
                             ELSE NewEntry(CHOOSE i \in all : id[i] = e)]
                /\ refused = {i \in Items : d[i] = "unreadable"}
      BY DEF Init
<1>. DEFINE loaded == {i \in Items : d[i] = "ring"}
            n == Cardinality(loaded)
<1>0. PICK id \in [Items -> 0..n] :
          /\ \A i \in Items : id[i] # 0 <=> i \in loaded
          /\ \A i, j \in loaded : id[i] = id[j] => i = j
          /\ n <= MaxItems
          /\ items = id
          /\ nEnt = n /\ refused \subseteq Items
          /\ ent = [e \in 1..MaxEntries |->
                       IF e > n THEN NoEntry
                       ELSE NewEntry(CHOOSE i \in loaded : id[i] = e)]
      BY <1>1
<1>2. n \in Nat /\ nEnt = n /\ n <= MaxEntries
      BY <1>0, NamesAssumption, CapsAssumption, BoundsAssumption, FS_Subset, FS_CardinalityType
<1>3. \A e \in 1..n : \E i \in loaded : id[i] = e
      BY <1>0, InitEntries
<1>. HIDE DEF loaded
<1>4. /\ \A i \in Items : id[i] # 0 <=> i \in loaded
      /\ \A i, j \in loaded : id[i] = id[j] => i = j
      /\ items = id /\ id \in [Items -> 0..n]
      /\ ent = [e \in 1..MaxEntries |->
                   IF e > n THEN NoEntry
                   ELSE NewEntry(CHOOSE i \in loaded : id[i] = e)]
      /\ loaded \subseteq Items
      BY <1>0 DEF loaded
<1>. HIDE DEF n
<1>5. ASSUME NEW e \in 1..n
      PROVE  \E i \in loaded : id[i] = e /\ ent[e] = NewEntry(i)
      <2>1. PICK i \in loaded : i = CHOOSE j \in loaded : id[j] = e
            BY <1>3
      <2>2. id[i] = e BY <1>3, <2>1
      <2>3. e \in 1..MaxEntries /\ ~(e > n) BY <1>2, BoundsAssumption
      <2>4. ent[e] = NewEntry(CHOOSE j \in loaded : id[j] = e) BY <1>4, <2>3
      <2>. QED BY <2>1, <2>2, <2>4
<1>6. \A e \in 1..MaxEntries : e > n => ent[e] = NoEntry
      BY <1>2, <1>4
<1>7. ASSUME NEW e \in 1..MaxEntries
      PROVE  /\ ent[e] \in Entry /\ DOMAIN ent[e].mins = {} /\ ent[e].acc = NoAcc
             /\ ent[e].keys = {} /\ ent[e].forgotten = 0
      <2>1. CASE e > n
            <3>1. ent[e] = NoEntry BY <1>6, <2>1
            <3>2. NoEntry.keys = {} /\ NoEntry.forgotten = 0 BY DEF NoEntry
            <3>. QED BY <3>1, <3>2, NoEntryLemma
      <2>2. CASE ~(e > n)
            <3>1. e \in 1..n BY <1>2, <2>2
            <3>. QED BY <1>4, <1>5, <3>1, NewEntryLemma
      <2>. QED BY <2>1, <2>2
<1>8. EntTypes
      <2>1. ent \in [1..MaxEntries -> Entry] BY <1>4, <1>7
      <2>. QED BY <1>2, <1>4, <2>1, BoundsAssumption DEF EntTypes
<1>9. RecTypes BY BoundsAssumption DEF Init, RecTypes, IdleRec, Rec, RecPcs
<1>10. HistTypes
      <2>1. \A e \in 1..MaxEntries : IdsOf(e) = {}
            BY <1>7, NoAccLemma DEF IdsOf
      <2>. QED BY <2>1 DEF Init, HistTypes
<1>11. ProcTypes
      <2>1. sw = [pc |-> "idle", cut |-> 0, todo |-> {}, item |-> "none"]
            BY DEF Init
      <2>2. cl = [pc |-> "idle", ents |-> {}, todo |-> {}, done |-> {}]
            BY DEF Init
      <2>3. qry = [q \in Queriers |-> IdleQry] /\ ~lock /\ ~closed
            /\ lock = FALSE /\ closed = FALSE
            BY DEF Init
      <2>4. sw \in [pc : {"idle", "check", "remove"}, cut : 0..MaxTime,
                    item : Items \cup {"none"}, todo : SUBSET Items]
            BY <2>1, BoundsAssumption
      <2>5. cl \in [pc : {"idle", "commit", "hooks", "done"}, ents : SUBSET Nat,
                    todo : SUBSET Nat, done : SUBSET (Items \X Int)]
            BY <2>2
      <2>6. IdleQry \in [pc : {"idle", "found", "reading", "recheck"},
                         item : Items \cup {"none"}, e : 0..MaxEntries]
            BY BoundsAssumption DEF IdleQry
      <2>. QED BY <1>0, <2>3, <2>4, <2>5, <2>6 DEF ProcTypes
<1>12. MapInv
      <2>. SUFFICES ASSUME NEW i \in Items, items[i] # 0
                    PROVE  ent[items[i]].item = i /\ ~ent[items[i]].gone
           BY DEF MapInv
      <2>1. i \in loaded /\ id[i] \in 1..n BY <1>2, <1>4
      <2>2. PICK j \in loaded : id[j] = id[i] /\ ent[id[i]] = NewEntry(j)
            BY <1>5, <2>1
      <2>. QED BY <1>4, <2>1, <2>2, NewEntryLemma
<1>13. RingsInv
      BY <1>2, <1>4, <1>5, NewEntryLemma DEF RingsInv
<1>14. RecInv /\ SweepInv /\ CloseInv /\ QueryInv
      BY DEF Init, RecInv, SweepInv, CloseInv, QueryInv, IdleRec, IdleQry, HookPcs
<1>15. CountInv
      <2>1. InHooks = {} BY DEF Init, InHooks, IdleRec, HookPcs
      <2>. QED BY <2>1, FS_EmptySet DEF Init, CountInv
<1>16. Fresh
      <2>1. {i \in Items : items[i] # 0} = loaded BY <1>4
      <2>2. Cardinality(loaded) <= MaxItems BY <1>0 DEF n
      <2>. QED BY <1>7, <2>1, <2>2 DEF Fresh
<1>. QED BY <1>8, <1>9, <1>10, <1>11, <1>12, <1>13, <1>14, <1>15, <1>16
     DEF Types, SharedInv

\* The steps that leave every entry, and the samples, alone.
Outside ==
    \/ \E i \in Items, at \in Times, ks \in (SUBSET Keys) \ {{}} : RecordCall(i, at, ks)
    \/ \E i \in Items : \/ EntryFails(i) \/ EntryFound(i) \/ RecordRefused(i)
                        \/ RecordGetHook(i) \/ HookLookup(i) \/ HookReturn(i)
    \/ \E cut \in Times : SweepCall(cut)
    \/ (\E i \in Items : SweepCheck(i)) \/ SweepReturn
    \/ CloseCall \/ CloseWait \/ (\E p \in cl.done : CloseHook(p)) \/ CloseReturn
    \/ \E q \in Queriers, i \in Items : QueryCall(q, i)
    \/ \E q \in Queriers : Querier(q)
    \/ Terminated

LEMMA NextCases ==
    ASSUME Next
    PROVE  \/ Outside
           \/ \E i \in Items : EntryRevived(i) \/ EntryCreated(i) \/ RecordAccepted(i)
           \/ \E i \in Items, at \in Times : Forget(i, at)
           \/ SweepRemove
           \/ \E e \in 1..MaxEntries : CloseEntry(e) \/ CloseRing(e)
BY DEF Next, Outside, Sampler, Sweeper, Closer

LEMMA OutsideFrame ==
    ASSUME Outside
    PROVE  UNCHANGED <<ent, nEnt, items, file, refused, smp, dropped, commits>>
BY DEF Outside, RecordCall, EntryFails, EntryFound, RecordRefused, RecordGetHook,
       HookLookup, HookReturn, SweepCall, SweepCheck, SweepReturn, CloseCall, CloseWait,
       CloseHook, CloseReturn, QueryCall, Querier, QueryRead, QueryReturn, Terminated, vars

\* The entry a sampler records to.
LEMMA RecordsTo ==
    ASSUME Types, SharedInv, NEW i \in Items, rec[i].pc = "record"
    PROVE  /\ rec[i].e \in 1..nEnt /\ rec[i].e \in 1..MaxEntries
           /\ ent[rec[i].e].item = i
           /\ ~ent[rec[i].e].gone => items[i] = rec[i].e
BY BoundsAssumption DEF Types, EntTypes, SharedInv, RecInv, Serves

LEMMA RecTyped ==
    ASSUME Types, NEW i \in Items
    PROVE  /\ rec[i] \in Rec /\ rec[i].pc \in RecPcs /\ rec[i].at \in 0..MaxTime
           /\ rec[i].e \in 0..MaxEntries /\ rec[i].by \in 0..MaxEntries
           /\ rec[i].min \in Int /\ rec[i].ks \subseteq Keys
           /\ items[i] \in 0..nEnt /\ items[i] \in 0..MaxEntries
BY BoundsAssumption DEF Types, EntTypes, RecTypes, Rec

LEMMA RecTypesStep == ASSUME Types, SharedInv, [Next]_vars PROVE RecTypes'
<1>. SUFFICES ASSUME rec' # rec PROVE RecTypes'
     BY DEF Types, RecTypes
<1>. DEFINE Sets(i, y) == rec' = [rec EXCEPT ![i] = y]
<1>1. ASSUME NEW i \in Items, NEW y \in Rec, Sets(i, y) PROVE RecTypes'
      BY <1>1 DEF Types, RecTypes
<1>2. IdleRec \in Rec BY BoundsAssumption DEF IdleRec, Rec, RecPcs
<1>3. ASSUME NEW i \in Items, NEW at \in Times, NEW ks \in (SUBSET Keys) \ {{}},
             RecordCall(i, at, ks)
      PROVE  RecTypes'
      <2>. DEFINE y == [IdleRec EXCEPT !.pc = "lookup", !.at = at, !.ks = ks]
      <2>1. at \in 0..MaxTime /\ ks \in SUBSET Keys /\ "lookup" \in RecPcs
            BY BoundsAssumption DEF RecPcs, Times
      <2>2. y \in Rec BY <1>2, <2>1 DEF Rec
      <2>. QED BY <1>1, <1>3, <2>2 DEF RecordCall
<1>4. ASSUME NEW i \in Items, Sampler(i) PROVE RecTypes'
      <2>1. CASE EntryFails(i) \/ HookReturn(i)
            BY <1>1, <1>2, <2>1 DEF EntryFails, HookReturn
      <2>2. ASSUME NEW pc \in RecPcs, NEW e \in 0..MaxEntries,
                   rec' = [rec EXCEPT ![i].pc = pc, ![i].e = e]
            PROVE  RecTypes'
            BY <2>2 DEF Types, RecTypes, Rec
      <2>3. CASE EntryFound(i) \/ EntryRevived(i)
            BY <2>2, <2>3, RecTyped DEF EntryFound, EntryRevived, RecPcs
      <2>4. CASE EntryCreated(i)
            <3>1. nEnt + 1 \in 0..MaxEntries
                  BY <2>4, BoundsAssumption DEF EntryCreated, Types, EntTypes
            <3>. QED BY <2>2, <2>4, <3>1 DEF EntryCreated, RecPcs
      <2>5. CASE HookLookup(i)
            BY <2>2, <2>5, RecTyped DEF HookLookup, RecPcs
      <2>6. CASE RecordGetHook(i)
            BY <2>6 DEF RecordGetHook, Types, RecTypes, Rec, RecPcs
      <2>7. CASE RecordRefused(i)
            <3>1. [rec[i] EXCEPT !.pc = "lookup"] \in Rec
                  BY RecTyped DEF Rec, RecPcs
            <3>. QED BY <1>1, <1>2, <2>7, <3>1 DEF RecordRefused
      <2>8. CASE RecordAccepted(i)
            <3>1. rec[i].e \in 1..MaxEntries
                  BY <2>8, RecordsTo DEF RecordAccepted
            <3>2. PICK y, ks : Accepts(i, y, ks) BY <2>8, <3>1, AcceptedLemma
            <3>3. CASE Joins(i, y) \/ Loses(i, y)
                  BY <1>1, <1>2, <3>3 DEF Joins, Loses
            <3>4. CASE Commits(i, y)
                  <4>1. ent[rec[i].e].acc.min \in Int
                        BY <3>1, EntryFields DEF Types, EntTypes
                  <4>2. "getHook" \in RecPcs /\ rec[i].e \in 0..MaxEntries
                        BY RecTyped DEF RecPcs
                  <4>. DEFINE z == [rec[i] EXCEPT !.pc = "getHook",
                                                  !.min = ent[rec[i].e].acc.min,
                                                  !.by = rec[i].e]
                  <4>3. z \in Rec BY <4>1, <4>2, RecTyped DEF Rec
                  <4>4. rec' = [rec EXCEPT ![i] = z] BY <3>4 DEF Commits
                  <4>. QED BY <1>1, <4>3, <4>4
            <3>. QED BY <3>2, <3>3, <3>4 DEF Accepts
      <2>. QED BY <1>4, <2>1, <2>3, <2>4, <2>5, <2>6, <2>7, <2>8 DEF Sampler
<1>. QED
     BY <1>3, <1>4
     DEF Next, vars, Forget, SweepCall, Sweeper, SweepCheck, SweepRemove, SweepReturn,
         CloseCall, Closer, CloseEntry, CloseRing, CloseWait, CloseHook, CloseReturn,
         QueryCall, Querier, QueryRead, QueryReturn, Terminated

\* What Close makes of an entry: nothing pending, the pending minute in the
\* ring and a hook owed for it, or the minute lost with the commit that failed.
Closes(e, y) ==
    LET x == ent[e]
    IN  /\ ent' = [ent EXCEPT ![e] = y] /\ y \in Entry
        /\ y.item = x.item /\ y.forgotten = x.forgotten /\ y.last = x.last
        /\ y.closed /\ y.gone = x.gone /\ y.ringClosed = x.ringClosed
        /\ y.acc = NoAcc
        /\ \/ /\ x.acc = NoAcc /\ y.keys = x.keys /\ y.mins = x.mins
              /\ cl' = [cl EXCEPT !.todo = @ \ {e}]
              /\ UNCHANGED <<dropped, commits>>
           \/ /\ x.acc # NoAcc /\ y.keys = x.keys \cup KeysOf(x.acc.ids)
              /\ DOMAIN y.mins = DOMAIN x.mins \cup {x.acc.min}
              /\ \A m \in DOMAIN y.mins :
                     y.mins[m] = IF m = x.acc.min THEN x.acc.ids ELSE x.mins[m]
              /\ cl' = [cl EXCEPT !.todo = @ \ {e}, !.done = @ \cup {<<x.item, x.acc.min>>}]
              /\ commits' = [commits EXCEPT ![x.item] = Append(@, x.acc.min)]
              /\ dropped' = dropped \cup Overwritten(x)
           \/ /\ x.acc # NoAcc /\ y.keys = x.keys /\ y.mins = x.mins
              /\ cl' = [cl EXCEPT !.todo = @ \ {e}]
              /\ dropped' = dropped \cup x.acc.ids
              /\ UNCHANGED commits

LEMMA CloseEntryLemma ==
    ASSUME Types, NEW e \in 1..MaxEntries, CloseEntry(e)
    PROVE  /\ \E y : Closes(e, y)
           /\ cl.pc = "commit" /\ e \in cl.todo
           /\ UNCHANGED <<lock, closed, items, nEnt, file, refused, rec, hooks, sw,
                          qry, smp, hooked, calls>>
<1>. DEFINE x == ent[e]
<1>0. /\ cl.pc = "commit" /\ e \in cl.todo
      /\ UNCHANGED <<lock, closed, items, nEnt, file, refused, rec, hooks, sw,
                     qry, smp, hooked, calls>>
      BY DEF CloseEntry
<1>1. x \in Entry /\ x.acc.ids \subseteq DOMAIN smp
      BY DEF Types, EntTypes, HistTypes, IdsOf
<1>2. KeysOf(x.acc.ids) \subseteq Keys BY <1>1, KeysTyped
<1>3. CASE x.acc = NoAcc /\ ent' = [ent EXCEPT ![e].closed = TRUE]
           /\ cl' = [cl EXCEPT !.todo = @ \ {e}] /\ UNCHANGED <<dropped, commits>>
      <2>. DEFINE y == [x EXCEPT !.closed = TRUE]
      <2>1. /\ y \in Entry /\ y.item = x.item /\ y.forgotten = x.forgotten
            /\ y.last = x.last /\ y.closed /\ y.gone = x.gone /\ y.acc = x.acc
            /\ y.ringClosed = x.ringClosed /\ y.keys = x.keys /\ y.mins = x.mins
            BY <1>1 DEF Entry
      <2>2. ent' = [ent EXCEPT ![e] = y] BY <1>3
      <2>. HIDE DEF y
      <2>3. Closes(e, y) BY <1>3, <2>1, <2>2 DEF Closes
      <2>. QED BY <2>3, <1>0
<1>4. CASE /\ x.acc # NoAcc
           /\ ent' = [ent EXCEPT ![e] = [Committed(x) EXCEPT !.closed = TRUE]]
           /\ cl' = [cl EXCEPT !.todo = @ \ {e}, !.done = @ \cup {<<x.item, x.acc.min>>}]
           /\ commits' = [commits EXCEPT ![x.item] = Append(@, x.acc.min)]
           /\ dropped' = dropped \cup Overwritten(x)
      <2>. DEFINE c == Committed(x)
                  y == [c EXCEPT !.closed = TRUE]
      <2>1. /\ c \in Entry
            /\ c.item = x.item /\ c.forgotten = x.forgotten /\ c.last = x.last
            /\ c.gone = x.gone /\ c.ringClosed = x.ringClosed
            /\ c.acc = NoAcc
            BY <1>1, <1>2, CommittedLemma
      <2>2. c.keys = x.keys \cup KeysOf(x.acc.ids) BY <1>1, <1>2, CommittedLemma
      <2>3. DOMAIN c.mins = DOMAIN x.mins \cup {x.acc.min} BY <1>1, <1>2, CommittedLemma
      <2>4. \A m \in DOMAIN c.mins :
                c.mins[m] = IF m = x.acc.min THEN x.acc.ids ELSE x.mins[m]
            BY <1>1, <1>2, CommittedLemma
      <2>. HIDE DEF c
      <2>5. /\ y \in Entry /\ y.item = c.item /\ y.forgotten = c.forgotten
            /\ y.last = c.last /\ y.closed /\ y.gone = c.gone /\ y.acc = c.acc
            /\ y.ringClosed = c.ringClosed /\ y.keys = c.keys /\ y.mins = c.mins
            BY <2>1 DEF Entry
      <2>6. ent' = [ent EXCEPT ![e] = y] BY <1>4 DEF c
      <2>. HIDE DEF y
      <2>7. /\ y \in Entry /\ y.item = x.item /\ y.forgotten = x.forgotten
            /\ y.last = x.last /\ y.closed /\ y.gone = x.gone /\ y.acc = NoAcc
            /\ y.ringClosed = x.ringClosed /\ y.keys = x.keys \cup KeysOf(x.acc.ids)
            /\ DOMAIN y.mins = DOMAIN x.mins \cup {x.acc.min}
            /\ \A m \in DOMAIN y.mins :
                   y.mins[m] = IF m = x.acc.min THEN x.acc.ids ELSE x.mins[m]
            BY <2>1, <2>2, <2>3, <2>4, <2>5
      <2>8. Closes(e, y) BY <1>4, <2>6, <2>7 DEF Closes
      <2>. QED BY <2>8, <1>0
<1>5. CASE /\ x.acc # NoAcc
           /\ ent' = [ent EXCEPT ![e].closed = TRUE, ![e].acc = NoAcc]
           /\ cl' = [cl EXCEPT !.todo = @ \ {e}]
           /\ dropped' = dropped \cup x.acc.ids
           /\ UNCHANGED commits
      <2>. DEFINE y == [x EXCEPT !.closed = TRUE, !.acc = NoAcc]
      <2>1. /\ y \in Entry /\ y.item = x.item /\ y.forgotten = x.forgotten
            /\ y.last = x.last /\ y.closed /\ y.gone = x.gone /\ y.acc = NoAcc
            /\ y.ringClosed = x.ringClosed /\ y.keys = x.keys /\ y.mins = x.mins
            BY <1>1, NoAccLemma DEF Entry
      <2>2. ent' = [ent EXCEPT ![e] = y] BY <1>1, <1>5 DEF Types, EntTypes
      <2>. HIDE DEF y
      <2>3. Closes(e, y) BY <1>5, <2>1, <2>2 DEF Closes
      <2>. QED BY <2>3, <1>0
<1>. QED BY <1>3, <1>4, <1>5 DEF CloseEntry

\* The entries once the item is marked: forgotten at a time, or (0) revived.
LEMMA ForgetNow ==
    ASSUME Types, NEW i \in Items, items[i] # 0, NEW at \in 0..MaxTime
    PROVE  LET now == [ent EXCEPT ![items[i]].forgotten = at]
           IN  /\ now \in [1..MaxEntries -> Entry] /\ items[i] \in 1..MaxEntries
               /\ now[items[i]].forgotten = at
               /\ \A e \in 1..MaxEntries :
                      /\ now[e].item = ent[e].item /\ now[e].keys = ent[e].keys
                      /\ now[e].mins = ent[e].mins /\ now[e].last = ent[e].last
                      /\ now[e].acc = ent[e].acc /\ now[e].closed = ent[e].closed
                      /\ now[e].gone = ent[e].gone
                      /\ now[e].ringClosed = ent[e].ringClosed
                      /\ e # items[i] => now[e] = ent[e]
<1>1. items[i] \in 1..MaxEntries BY RecTyped DEF Types, EntTypes
<1>3. ent \in [1..MaxEntries -> Entry] BY DEF Types, EntTypes
<1>4. ASSUME NEW x \in Entry
      PROVE  LET y == [x EXCEPT !.forgotten = at]
             IN  /\ y \in Entry /\ y.item = x.item /\ y.keys = x.keys /\ y.forgotten = at
                 /\ y.mins = x.mins /\ y.last = x.last /\ y.acc = x.acc
                 /\ y.closed = x.closed /\ y.gone = x.gone /\ y.ringClosed = x.ringClosed
      BY DEF Entry
<1>. QED BY <1>1, <1>3, <1>4

LEMMA EntTypesStep == ASSUME Types, SharedInv, [Next]_vars PROVE EntTypes'
<1>. USE BoundsAssumption
<1>0. /\ nEnt \in 0..MaxEntries /\ items \in [Items -> 0..nEnt]
      /\ ent \in [1..MaxEntries -> Entry]
      BY DEF Types, EntTypes
<1>1. CASE UNCHANGED vars BY <1>0, <1>1 DEF vars, EntTypes
<1>2. CASE Outside BY <1>0, <1>2, OutsideFrame DEF EntTypes
<1>3. ASSUME NEW i \in Items, EntryRevived(i) PROVE EntTypes'
      <2>1. items[i] \in 1..MaxEntries /\ UNCHANGED <<items, nEnt>>
            /\ ent' = [ent EXCEPT ![items[i]].forgotten = 0]
            BY <1>3, RecTyped DEF EntryRevived, Forgotten
      <2>2. ent' \in [1..MaxEntries -> Entry] BY <2>1, ForgetNow
      <2>. QED BY <1>0, <2>1, <2>2 DEF EntTypes
<1>4. ASSUME NEW i \in Items, EntryCreated(i) PROVE EntTypes'
      BY <1>0, <1>4, NewEntryLemma DEF EntryCreated, EntTypes
<1>5. ASSUME NEW i \in Items, RecordAccepted(i) PROVE EntTypes'
      <2>1. rec[i].e \in 1..MaxEntries BY <1>5, RecordsTo DEF RecordAccepted
      <2>2. PICK y, ks : Accepts(i, y, ks) BY <1>5, <2>1, AcceptedLemma
      <2>3. ent' = [ent EXCEPT ![rec[i].e] = y] /\ y \in Entry BY <2>2 DEF Accepts
      <2>. QED BY <1>0, <1>5, <2>1, <2>3 DEF RecordAccepted, EntTypes
<1>6. ASSUME NEW v, NEW now \in [1..MaxEntries -> Entry], remove(v, now), UNCHANGED nEnt
      PROVE  EntTypes'
      <2>1. ent' \in [1..MaxEntries -> Entry] BY <1>6, RemoveLemma
      <2>2. items' = [i \in Items |-> IF i \in v THEN 0 ELSE items[i]]
            BY <1>6 DEF remove
      <2>. QED BY <1>0, <1>6, <2>1, <2>2 DEF EntTypes
<1>7. ASSUME NEW i \in Items, NEW at \in Times, Forget(i, at) PROVE EntTypes'
      BY SMTT(30), <1>6, <1>7, ForgetNow DEF Forget, Times
<1>8. CASE SweepRemove BY <1>0, <1>6, <1>8 DEF SweepRemove
<1>9. ASSUME NEW e \in 1..MaxEntries, CloseEntry(e) PROVE EntTypes'
      BY <1>0, <1>9, CloseEntryLemma DEF Closes, EntTypes
<1>10. ASSUME NEW e \in 1..MaxEntries, CloseRing(e) PROVE EntTypes'
      BY ZenonT(40), <1>0, <1>10 DEF CloseRing, EntTypes, Entry
<1>. QED BY <1>1, <1>2, <1>3, <1>4, <1>5, <1>7, <1>8, <1>9, <1>10, NextCases

\* The samples an entry holds are numbers of samples taken.
LEMMA IdsBound ==
    ASSUME Types, NEW e \in 1..MaxEntries
    PROVE  /\ ent[e].acc.ids \subseteq DOMAIN smp
           /\ \A m \in DOMAIN ent[e].mins : ent[e].mins[m] \subseteq DOMAIN smp
           /\ Overwritten(ent[e]) \subseteq DOMAIN smp
BY DEF Types, HistTypes, IdsOf, Overwritten

\* A sample taken keeps its number, its item, its time and its keys.
LEMMA SamplesStay ==
    ASSUME Types, [Next]_vars, SharedInv
    PROVE  /\ smp' \in Seq(Sample)
           /\ DOMAIN smp \subseteq DOMAIN smp' /\ \A n \in DOMAIN smp : smp'[n] = smp[n]
           /\ Len(smp) \in Nat /\ DOMAIN smp = 1..Len(smp)
<1>0. smp \in Seq(Sample) /\ Len(smp) \in Nat /\ DOMAIN smp = 1..Len(smp)
      BY DEF Types, HistTypes
<1>1. CASE smp' = smp BY <1>0, <1>1
<1>2. CASE smp' # smp
      <2>1. PICK i \in Items : RecordAccepted(i)
            BY <1>2, NextCases, OutsideFrame, CloseEntryLemma
            DEF vars, EntryRevived, EntryCreated, Forget, SweepRemove, CloseRing
      <2>2. rec[i].e \in 1..MaxEntries BY <2>1, RecordsTo DEF RecordAccepted
      <2>3. PICK y, ks : Accepts(i, y, ks) BY <2>1, <2>2, AcceptedLemma
      <2>4. [item |-> i, at |-> rec[i].at, keys |-> ks] \in Sample
            <3>1. ks \subseteq Keys BY <2>3 DEF Accepts
            <3>2. rec[i].at \in 0..MaxTime BY RecTyped
            <3>. QED BY <3>1, <3>2 DEF Sample
      <2>5. smp' = Append(smp, [item |-> i, at |-> rec[i].at, keys |-> ks])
            BY <2>3 DEF Accepts
      <2>. QED BY <1>0, <2>4, <2>5
<1>. QED BY <1>1, <1>2

LEMMA HistTypesStep == ASSUME Types, SharedInv, [Next]_vars PROVE HistTypes'
<1>0. /\ smp \in Seq(Sample) /\ dropped \subseteq DOMAIN smp
      /\ \A e \in 1..MaxEntries : IdsOf(e) \subseteq DOMAIN smp
      /\ commits \in [Items -> Seq(Int)] /\ hooked \in [Items -> Seq(Int)]
      BY DEF Types, HistTypes
<1>1. smp' \in Seq(Sample) /\ DOMAIN smp \subseteq DOMAIN smp'
      BY SamplesStay
<1>2. ASSUME UNCHANGED <<ent, dropped, commits>>, hooked' \in [Items -> Seq(Int)]
      PROVE  HistTypes'
      BY <1>0, <1>1, <1>2 DEF HistTypes, IdsOf
<1>3. CASE UNCHANGED vars BY <1>0, <1>2, <1>3 DEF vars
<1>4. CASE Outside
      <2>1. hooked' \in [Items -> Seq(Int)]
            <3>1. CASE hooked' = hooked BY <1>0, <3>1
            <3>2. ASSUME NEW i \in Items, RecordGetHook(i) PROVE hooked' \in [Items -> Seq(Int)]
                  <4>1. rec[i].min \in Int BY RecTyped
                  <4>. QED BY <1>0, <3>2, <4>1 DEF RecordGetHook
            <3>3. ASSUME NEW p \in cl.done, CloseHook(p) PROVE hooked' \in [Items -> Seq(Int)]
                  <4>1. p[1] \in Items /\ p[2] \in Int BY DEF Types, ProcTypes
                  <4>. QED BY <1>0, <3>3, <4>1 DEF CloseHook
            <3>. QED
                 BY <1>4, <3>1, <3>2, <3>3
                 DEF Outside, RecordCall, EntryFails, EntryFound, RecordRefused, HookLookup,
                     HookReturn, SweepCall, SweepCheck, SweepReturn, CloseCall, CloseWait,
                     CloseReturn, QueryCall, Querier, QueryRead, QueryReturn, Terminated, vars
      <2>. QED BY <1>2, <1>4, <2>1, OutsideFrame
<1>5. ASSUME UNCHANGED <<commits, hooked>>, dropped' \subseteq DOMAIN smp,
             \A e \in 1..MaxEntries :
                 /\ ent'[e].acc.ids \subseteq DOMAIN smp'
                 /\ \A m \in DOMAIN ent'[e].mins : ent'[e].mins[m] \subseteq DOMAIN smp'
      PROVE  HistTypes'
      BY <1>0, <1>1, <1>5 DEF HistTypes, IdsOf
<1>6. ASSUME NEW i \in Items, EntryRevived(i) PROVE HistTypes'
      <2>1. items[i] # 0 /\ 0 \in 0..MaxTime
            /\ ent' = [ent EXCEPT ![items[i]].forgotten = 0]
            /\ UNCHANGED <<commits, hooked, dropped>>
            BY <1>6, BoundsAssumption DEF EntryRevived, Forgotten
      <2>2. \A e \in 1..MaxEntries :
                ent'[e].acc = ent[e].acc /\ ent'[e].mins = ent[e].mins
            BY <2>1, ForgetNow
      <2>. QED BY <1>0, <1>1, <1>5, <2>1, <2>2, IdsBound
<1>7. ASSUME NEW i \in Items, EntryCreated(i) PROVE HistTypes'
      <2>1. /\ ent' = [ent EXCEPT ![nEnt + 1] = NewEntry(i)]
            /\ UNCHANGED <<commits, hooked, dropped>>
            BY <1>7 DEF EntryCreated
      <2>2. NewEntry(i).acc.ids = {} /\ DOMAIN NewEntry(i).mins = {}
            BY NewEntryLemma, NoAccLemma
      <2>3. ASSUME NEW e \in 1..MaxEntries PROVE ent'[e] = NewEntry(i) \/ ent'[e] = ent[e]
            BY <2>1 DEF Types, EntTypes
      <2>. QED BY <1>0, <1>1, <1>5, <2>1, <2>2, <2>3, IdsBound
<1>8. ASSUME NEW i \in Items, RecordAccepted(i) PROVE HistTypes'
      <2>1. rec[i].e \in 1..MaxEntries /\ hooked' = hooked
            BY <1>8, RecordsTo DEF RecordAccepted
      <2>2. PICK y, ks : Accepts(i, y, ks) BY <1>8, <2>1, AcceptedLemma
      <2>. DEFINE x == ent[rec[i].e]
      <2>3. /\ x.acc.ids \subseteq DOMAIN smp /\ Overwritten(x) \subseteq DOMAIN smp
            /\ \A m \in DOMAIN x.mins : x.mins[m] \subseteq DOMAIN smp
            BY <2>1, IdsBound
      <2>4. dropped' \subseteq DOMAIN smp
            BY <1>0, <2>2, <2>3 DEF Accepts, Joins, Commits, Loses
      <2>5. commits' \in [Items -> Seq(Int)]
            <3>1. x.acc.min \in Int BY <2>1, EntryFields DEF Types, EntTypes
            <3>2. CASE Commits(i, y) BY SMTT(30), <1>0, <3>1, <3>2 DEF Commits
            <3>3. CASE Joins(i, y) \/ Loses(i, y) BY <1>0, <3>3 DEF Joins, Loses
            <3>. QED BY <2>2, <3>2, <3>3 DEF Accepts
      <2>6. Len(smp) + 1 \in DOMAIN smp'
            BY <1>0, <2>2 DEF Accepts
      <2>7. y.acc.ids \subseteq DOMAIN smp'
            <3>1. Kept(i).ids \subseteq DOMAIN smp BY <2>1, KeptLemma
            <3>2. CASE Joins(i, y) BY <1>1, <2>6, <3>1, <3>2 DEF Joins
            <3>3. CASE Commits(i, y) BY <2>6, <3>3 DEF Commits
            <3>4. CASE Loses(i, y) BY <2>6, <3>4 DEF Loses
            <3>. QED BY <2>2, <3>2, <3>3, <3>4 DEF Accepts
      <2>8. \A m \in DOMAIN y.mins : y.mins[m] \subseteq DOMAIN smp
            <3>1. CASE Joins(i, y) \/ Loses(i, y) BY <2>3, <3>1 DEF Joins, Loses
            <3>2. CASE Commits(i, y) BY <2>3, <3>2 DEF Commits
            <3>. QED BY <2>2, <3>1, <3>2 DEF Accepts
      <2>9. \A e \in 1..MaxEntries : ent'[e] = y \/ ent'[e] = ent[e]
            BY <2>2 DEF Accepts, Types, EntTypes
      <2>10. ASSUME NEW e \in 1..MaxEntries PROVE (IdsOf(e) \subseteq DOMAIN smp)'
             <3>1. CASE ent'[e] = y BY <1>1, <2>7, <2>8, <3>1 DEF IdsOf
             <3>2. CASE ent'[e] = ent[e] BY <1>1, <3>2, IdsBound DEF IdsOf
             <3>. QED BY <2>9, <3>1, <3>2
      <2>. QED BY <1>0, <1>1, <2>1, <2>4, <2>5, <2>10 DEF HistTypes
<1>9. ASSUME NEW v, v \subseteq Items, \A i \in v : items[i] # 0,
             NEW now \in [1..MaxEntries -> Entry], remove(v, now),
             \A e \in 1..MaxEntries : now[e].acc = ent[e].acc /\ now[e].mins = ent[e].mins,
             UNCHANGED <<commits, hooked>>
      PROVE  HistTypes'
      <2>1. \A e \in 1..MaxEntries : ent'[e].acc = ent[e].acc /\ ent'[e].mins = ent[e].mins
            <3>1. \A e \in 1..MaxEntries : ent'[e].acc = now[e].acc /\ ent'[e].mins = now[e].mins
                  <4>1. ASSUME NEW e \in 1..MaxEntries PROVE ent'[e].acc = now[e].acc
                        BY <1>9, RemoveLemma
                  <4>2. ASSUME NEW e \in 1..MaxEntries PROVE ent'[e].mins = now[e].mins
                        BY <1>9, RemoveLemma
                  <4>. QED BY <4>1, <4>2
            <3>. QED BY <1>9, <3>1
      <2>2. dropped' = dropped \cup UNION {IdsOf(items[i]) : i \in v}
            BY <1>9 DEF remove
      <2>3. \A i \in v : items[i] \in 1..MaxEntries BY <1>9, RecTyped
      <2>4. dropped' \subseteq DOMAIN smp BY <1>0, <2>2, <2>3
      <2>. QED BY <1>1, <1>5, <1>9, <2>1, <2>4, IdsBound
<1>10. ASSUME NEW i \in Items, NEW at \in Times, Forget(i, at) PROVE HistTypes'
      <2>. DEFINE now == [ent EXCEPT ![items[i]].forgotten = at]
      <2>1. items[i] # 0 /\ at \in 0..MaxTime BY <1>10 DEF Forget, Times
      <2>2. /\ now \in [1..MaxEntries -> Entry]
            /\ \A e \in 1..MaxEntries : now[e].acc = ent[e].acc /\ now[e].mins = ent[e].mins
            BY <2>1, ForgetNow
      <2>3. PICK v \in Oldest(Forgotten \cup {i}, now) : remove(v, now)
            BY <1>10 DEF Forget
      <2>4. v \subseteq Items /\ \A j \in v : items[j] # 0
            BY <2>1, <2>3 DEF Oldest, Forgotten
      <2>. HIDE DEF now
      <2>. QED BY <1>9, <1>10, <2>2, <2>3, <2>4 DEF Forget
<1>11. CASE SweepRemove
      <2>1. sw.item \in Items /\ items[sw.item] # 0
            BY <1>11 DEF SweepRemove, SharedInv, SweepInv
      <2>2. ent \in [1..MaxEntries -> Entry] BY DEF Types, EntTypes
      <2>. QED BY <1>9, <1>11, <2>1, <2>2 DEF SweepRemove
<1>12. ASSUME NEW e \in 1..MaxEntries, CloseEntry(e) PROVE HistTypes'
      <2>1. PICK y : Closes(e, y) BY <1>12, CloseEntryLemma
      <2>2. UNCHANGED <<hooked, smp>> BY <1>12, CloseEntryLemma
      <2>3. dropped' \subseteq DOMAIN smp BY <1>0, <2>1, IdsBound DEF Closes
      <2>4. commits' \in [Items -> Seq(Int)]
            <3>1. ent[e].acc.min \in Int BY EntryFields DEF Types, EntTypes
            <3>2. CASE commits' = commits BY <1>0, <3>2
            <3>3. CASE commits' = [commits EXCEPT ![ent[e].item] = Append(@, ent[e].acc.min)]
                  <4>1. CASE ent[e].item \in Items BY <1>0, <3>1, <3>3, <4>1
                  <4>2. CASE ent[e].item \notin Items BY <1>0, <3>3, <4>2
                  <4>. QED BY <4>1, <4>2
            <3>. QED BY <2>1, <3>2, <3>3 DEF Closes
      <2>5. y.acc.ids = {} BY <2>1, NoAccLemma DEF Closes
      <2>6. \A m \in DOMAIN y.mins : y.mins[m] \subseteq DOMAIN smp
            BY <2>1, IdsBound DEF Closes
      <2>7. \A k \in 1..MaxEntries : ent'[k] = y \/ ent'[k] = ent[k]
            BY <2>1 DEF Closes, Types, EntTypes
      <2>8. ASSUME NEW k \in 1..MaxEntries PROVE (IdsOf(k) \subseteq DOMAIN smp)'
            <3>1. CASE ent'[k] = y BY <1>1, <2>5, <2>6, <3>1 DEF IdsOf
            <3>2. CASE ent'[k] = ent[k] BY <1>1, <3>2, IdsBound DEF IdsOf
            <3>. QED BY <2>7, <3>1, <3>2
      <2>. QED BY <1>0, <2>2, <2>3, <2>4, <2>8 DEF HistTypes
<1>13. ASSUME NEW e \in 1..MaxEntries, CloseRing(e) PROVE HistTypes'
      <2>1. /\ ent' = [ent EXCEPT ![e].ringClosed = TRUE]
            /\ UNCHANGED <<commits, hooked, dropped>>
            BY <1>13 DEF CloseRing
      <2>2. \A k \in 1..MaxEntries :
                ent'[k].acc = ent[k].acc /\ ent'[k].mins = ent[k].mins
            BY <2>1 DEF Types, EntTypes, Entry
      <2>. QED BY <1>0, <1>1, <1>5, <2>1, <2>2, IdsBound
<1>. QED BY <1>3, <1>4, <1>6, <1>7, <1>8, <1>10, <1>11, <1>12, <1>13, NextCases

LEMMA ProcTypesStep == ASSUME Types, SharedInv, [Next]_vars PROVE ProcTypes'
<1>. USE BoundsAssumption
<1>. DEFINE SwType == [pc : {"idle", "check", "remove"}, cut : 0..MaxTime,
                       item : Items \cup {"none"}, todo : SUBSET Items]
            ClType == [pc : {"idle", "commit", "hooks", "done"}, ents : SUBSET Nat,
                       todo : SUBSET Nat, done : SUBSET (Items \X Int)]
            QryType == [pc : {"idle", "found", "reading", "recheck"},
                        item : Items \cup {"none"}, e : 0..MaxEntries]
<1>0. /\ lock \in BOOLEAN /\ closed \in BOOLEAN /\ refused \subseteq Items
      /\ sw \in SwType /\ cl \in ClType /\ qry \in [Queriers -> QryType]
      BY DEF Types, ProcTypes
<1>1. CASE UNCHANGED vars BY <1>0, <1>1 DEF vars, ProcTypes
<1>2. CASE \/ \E i \in Items, at \in Times, ks \in (SUBSET Keys) \ {{}} : RecordCall(i, at, ks)
           \/ \E i \in Items : Sampler(i)
           \/ \E i \in Items, at \in Times : Forget(i, at)
      <2>1. UNCHANGED <<lock, closed, refused, sw, cl, qry>>
            BY ZenonT(40), <1>2
            DEF RecordCall, Sampler, EntryFails, EntryFound, EntryRevived, EntryCreated,
                RecordRefused, RecordAccepted, RecordGetHook, HookLookup, HookReturn, Forget
      <2>. QED BY <1>0, <2>1 DEF ProcTypes
<1>3. CASE (\E cut \in Times : SweepCall(cut)) \/ Sweeper
      <2>1. sw' \in SwType
            <3>1. ASSUME NEW cut \in Times, SweepCall(cut) PROVE sw' \in SwType
                  <4>1. cut \in 0..MaxTime BY DEF Times
                  <4>. QED BY <3>1, <4>1 DEF SweepCall
            <3>2. ASSUME NEW i \in Items, SweepCheck(i) PROVE sw' \in SwType
                  <4>1. \/ sw' = [sw EXCEPT !.pc = "remove", !.item = i, !.todo = @ \ {i}]
                        \/ sw' = [sw EXCEPT !.todo = @ \ {i}]
                        BY <3>2 DEF SweepCheck
                  <4>2. sw.todo \ {i} \in SUBSET Items BY <1>0
                  <4>3. i \in Items \cup {"none"} /\ "remove" \in {"idle", "check", "remove"}
                        OBVIOUS
                  <4>. QED BY ONLY <1>0, <4>1, <4>2, <4>3
            <3>3. CASE SweepRemove
                  <4>1. sw' = [sw EXCEPT !.pc = "check", !.item = "none"]
                        BY <3>3 DEF SweepRemove
                  <4>. QED BY <1>0, <4>1
            <3>4. CASE SweepReturn
                  <4>1. sw' = [sw EXCEPT !.pc = "idle", !.cut = 0]
                        BY <3>4 DEF SweepReturn
                  <4>2. 0 \in 0..MaxTime /\ "idle" \in {"idle", "check", "remove"}
                        OBVIOUS
                  <4>. QED BY ONLY <1>0, <4>1, <4>2
            <3>. QED BY <1>3, <3>1, <3>2, <3>3, <3>4 DEF Sweeper
      <2>2. lock' \in BOOLEAN /\ UNCHANGED <<closed, refused, cl, qry>>
            BY <1>0, <1>3
            DEF SweepCall, Sweeper, SweepCheck, SweepRemove, SweepReturn
      <2>. QED BY <1>0, <2>1, <2>2 DEF ProcTypes
<1>4. CASE CloseCall \/ Closer
      <2>1. cl' \in ClType
            <3>1. CASE CloseCall
                  <4>1. {items[i] : i \in Items} \ {0} \subseteq Nat BY RecTyped
                  <4>. QED BY <3>1, <4>1 DEF CloseCall
            <3>2. ASSUME NEW e \in 1..MaxEntries, CloseEntry(e) PROVE cl' \in ClType
                  <4>1. PICK y : Closes(e, y) BY <3>2, CloseEntryLemma
                  <4>2. PICK i \in Items : items[i] = e
                        BY <3>2, CloseEntryLemma DEF SharedInv, CloseInv
                  <4>3. ent[e].item \in Items /\ ent[e].acc.min \in Int
                        BY <4>2, EntryFields DEF SharedInv, MapInv, Types, EntTypes
                  <4>4. <<ent[e].item, ent[e].acc.min>> \in Items \X Int BY <4>3
                  <4>5. CASE cl' = [cl EXCEPT !.todo = @ \ {e}]
                        BY <1>0, <4>5
                  <4>6. CASE cl' = [cl EXCEPT !.todo = @ \ {e},
                                     !.done = @ \cup {<<ent[e].item, ent[e].acc.min>>}]
                        BY <1>0, <4>4, <4>6
                  <4>. QED BY <4>1, <4>5, <4>6 DEF Closes
            <3>3. ASSUME NEW e \in 1..MaxEntries, CloseRing(e) PROVE cl' \in ClType
                  BY <1>0, <3>3 DEF CloseRing
            <3>4. CASE CloseWait \/ CloseReturn BY <1>0, <3>4 DEF CloseWait, CloseReturn
            <3>5. ASSUME NEW p \in cl.done, CloseHook(p) PROVE cl' \in ClType
                  BY <1>0, <3>5 DEF CloseHook
            <3>. QED BY <1>4, <3>1, <3>2, <3>3, <3>4, <3>5 DEF Closer
      <2>2. closed' \in BOOLEAN /\ UNCHANGED <<lock, refused, sw, qry>>
            BY <1>0, <1>4
            DEF CloseCall, Closer, CloseEntry, CloseRing, CloseWait, CloseReturn, CloseHook
      <2>. QED BY <1>0, <2>1, <2>2 DEF ProcTypes
<1>5. CASE \/ \E q \in Queriers, i \in Items : QueryCall(q, i)
           \/ \E q \in Queriers : Querier(q)
      <2>1. qry' \in [Queriers -> QryType]
            <3>1. ASSUME NEW q \in Queriers, NEW i \in Items, QueryCall(q, i)
                  PROVE  qry' \in [Queriers -> QryType]
                  BY <1>0, <3>1, RecTyped DEF QueryCall
            <3>2. ASSUME NEW q \in Queriers, QueryRead(q)
                  PROVE  qry' \in [Queriers -> QryType]
                  BY <1>0, <3>2 DEF QueryRead
            <3>3. ASSUME NEW q \in Queriers, QueryReturn(q)
                  PROVE  qry' \in [Queriers -> QryType]
                  BY <1>0, <3>3 DEF QueryReturn, IdleQry
            <3>. QED BY <1>5, <3>1, <3>2, <3>3 DEF Querier
      <2>2. UNCHANGED <<lock, closed, refused, sw, cl>>
            BY <1>5 DEF QueryCall, Querier, QueryRead, QueryReturn
      <2>. QED BY <1>0, <2>1, <2>2 DEF ProcTypes
<1>6. CASE Terminated BY <1>1, <1>6 DEF Terminated
<1>. QED BY <1>1, <1>2, <1>3, <1>4, <1>5, <1>6 DEF Next

LEMMA TypesStep == ASSUME Types, SharedInv, [Next]_vars PROVE Types'
BY EntTypesStep, RecTypesStep, HistTypesStep, ProcTypesStep DEF Types

-----------------------------------------------------------------------------
(* The shared state.                                                       *)

\* An entry keeps its item; a removed one stays removed, and a minute once
\* in its ring stays there.
LEMMA EntriesGrow ==
    ASSUME Types, SharedInv, [Next]_vars
    PROVE  /\ nEnt \in Nat /\ nEnt' \in Nat /\ nEnt <= nEnt'
           /\ \A e \in 1..nEnt :
                  /\ e \in 1..nEnt' /\ e \in 1..MaxEntries
                  /\ ent'[e].item = ent[e].item
                  /\ ent[e].gone => ent'[e].gone
                  /\ ent[e].closed => ent'[e].closed
                  /\ DOMAIN ent[e].mins \subseteq DOMAIN ent'[e].mins
<1>. USE BoundsAssumption
<1>. DEFINE Grows(e) == /\ ent'[e].item = ent[e].item
                        /\ ent[e].gone => ent'[e].gone
                        /\ ent[e].closed => ent'[e].closed
                        /\ DOMAIN ent[e].mins \subseteq DOMAIN ent'[e].mins
<1>0. /\ nEnt \in 0..MaxEntries /\ ent \in [1..MaxEntries -> Entry]
      /\ nEnt' \in 0..MaxEntries
      BY EntTypesStep DEF Types, EntTypes
<1>1. CASE UNCHANGED <<ent, nEnt>> BY <1>0, <1>1
<1>2. ASSUME NEW i \in Items, EntryRevived(i)
      PROVE  nEnt' = nEnt /\ \A e \in 1..MaxEntries : Grows(e)
      <2>1. items[i] # 0 /\ 0 \in 0..MaxTime /\ nEnt' = nEnt
            /\ ent' = [ent EXCEPT ![items[i]].forgotten = 0]
            BY <1>2 DEF EntryRevived, Forgotten
      <2>. QED BY <2>1, ForgetNow
<1>3. ASSUME NEW i \in Items, EntryCreated(i)
      PROVE  nEnt <= nEnt' /\ \A e \in 1..nEnt : Grows(e)
      BY <1>0, <1>3 DEF EntryCreated
<1>4. ASSUME NEW i \in Items, RecordAccepted(i)
      PROVE  nEnt' = nEnt /\ \A e \in 1..MaxEntries : Grows(e)
      <2>1. rec[i].e \in 1..MaxEntries /\ nEnt' = nEnt
            BY <1>4, RecordsTo DEF RecordAccepted
      <2>2. PICK y, ks : Accepts(i, y, ks) BY <1>4, <2>1, AcceptedLemma
      <2>3. DOMAIN ent[rec[i].e].mins \subseteq DOMAIN y.mins
            BY <2>2 DEF Accepts, Joins, Commits, Loses
      <2>. QED BY <1>0, <2>1, <2>2, <2>3 DEF Accepts
<1>5. ASSUME NEW v, NEW now \in [1..MaxEntries -> Entry], remove(v, now),
             \A e \in 1..MaxEntries : /\ now[e].item = ent[e].item
                                      /\ now[e].mins = ent[e].mins
                                      /\ now[e].gone = ent[e].gone
                                      /\ now[e].closed = ent[e].closed
      PROVE  \A e \in 1..MaxEntries : Grows(e)
      <2>1. \A e \in 1..MaxEntries :
                /\ ent'[e].item = now[e].item /\ ent'[e].mins = now[e].mins
                /\ now[e].gone => ent'[e].gone
                /\ now[e].closed => ent'[e].closed
            BY <1>5, RemoveLemma
      <2>. QED BY <1>5, <2>1
<1>6. ASSUME NEW i \in Items, NEW at \in Times, Forget(i, at)
      PROVE  nEnt' = nEnt /\ \A e \in 1..MaxEntries : Grows(e)
      <2>1. items[i] # 0 /\ at \in 0..MaxTime /\ nEnt' = nEnt BY <1>6 DEF Forget, Times
      <2>. DEFINE now == [ent EXCEPT ![items[i]].forgotten = at]
      <2>2. PICK v : remove(v, now) BY <1>6 DEF Forget
      <2>3. /\ now \in [1..MaxEntries -> Entry]
            /\ \A e \in 1..MaxEntries :
                  /\ now[e].item = ent[e].item /\ now[e].mins = ent[e].mins
                  /\ now[e].gone = ent[e].gone /\ now[e].closed = ent[e].closed
            BY <2>1, ForgetNow
      <2>. HIDE DEF now
      <2>. QED BY <1>5, <2>1, <2>2, <2>3
<1>7. CASE SweepRemove
      BY <1>0, <1>5, <1>7 DEF SweepRemove
<1>8. ASSUME NEW k \in 1..MaxEntries, CloseEntry(k)
      PROVE  nEnt' = nEnt /\ \A e \in 1..MaxEntries : Grows(e)
      <2>1. PICK y : Closes(k, y) BY <1>8, CloseEntryLemma
      <2>2. DOMAIN ent[k].mins \subseteq DOMAIN y.mins BY <2>1 DEF Closes
      <2>3. nEnt' = nEnt BY <1>8, CloseEntryLemma
      <2>. QED BY <1>0, <2>1, <2>2, <2>3 DEF Closes
<1>9. ASSUME NEW k \in 1..MaxEntries, CloseRing(k)
      PROVE  nEnt' = nEnt /\ \A e \in 1..MaxEntries : Grows(e)
      BY <1>0, <1>9 DEF CloseRing, Entry
<1>10. nEnt <= nEnt' /\ \A e \in 1..nEnt : Grows(e)
      <2>1. CASE UNCHANGED vars BY <1>0, <1>1, <2>1 DEF vars
      <2>2. CASE Outside BY <1>0, <1>1, <2>2, OutsideFrame
      <2>3. CASE SweepRemove BY <1>0, <1>7, <2>3 DEF SweepRemove
      <2>. QED BY <1>0, <1>2, <1>3, <1>4, <1>6, <1>8, <1>9, <2>1, <2>2, <2>3, NextCases
<1>. QED BY <1>0, <1>10

LEMMA MapInjective ==
    ASSUME Types, SharedInv, NEW i \in Items, NEW j \in Items, items[i] = items[j], items[i] # 0
    PROVE  i = j
BY DEF SharedInv, MapInv

\* How the map changes: an item is added with a new entry, or removed with an
\* entry that is gone from then on, and never once the store is closed; no
\* other entry goes.
LEMMA MapMoves ==
    ASSUME Types, SharedInv, [Next]_vars
    PROVE  /\ \A i \in Items :
                  \/ items'[i] = items[i]
                  \/ items[i] # 0 /\ items'[i] = 0 /\ ent'[items[i]].gone /\ ~closed
                  \/ /\ EntryCreated(i) /\ items[i] = 0 /\ ~closed
                     /\ items'[i] = nEnt + 1 /\ nEnt' = nEnt + 1
                     /\ ent'[nEnt + 1] = NewEntry(i)
           /\ \A e \in 1..nEnt : ent'[e].gone /\ ~ent[e].gone =>
                  \E i \in Items : items[i] = e /\ items'[i] = 0
<1>. USE BoundsAssumption
<1>0. /\ nEnt \in 0..MaxEntries /\ ent \in [1..MaxEntries -> Entry]
      /\ items \in [Items -> 0..nEnt]
      BY DEF Types, EntTypes
<1>. DEFINE Maps == \A i \in Items :
                        \/ items'[i] = items[i]
                        \/ items[i] # 0 /\ items'[i] = 0 /\ ent'[items[i]].gone /\ ~closed
            Goes == \A e \in 1..nEnt : ent'[e].gone /\ ~ent[e].gone =>
                        \E i \in Items : items[i] = e /\ items'[i] = 0
<1>1. ASSUME UNCHANGED items, \A e \in 1..MaxEntries : ent'[e].gone = ent[e].gone
      PROVE  Maps /\ Goes
      BY <1>0, <1>1
<1>2. CASE UNCHANGED vars BY <1>1, <1>2 DEF vars
<1>3. CASE Outside BY <1>1, <1>3, OutsideFrame
<1>4. ASSUME NEW i \in Items, EntryRevived(i) PROVE Maps /\ Goes
      <2>1. items[i] # 0 /\ 0 \in 0..MaxTime /\ items' = items
            /\ ent' = [ent EXCEPT ![items[i]].forgotten = 0]
            BY <1>4 DEF EntryRevived, Forgotten
      <2>. QED BY <1>1, <2>1, ForgetNow
<1>5. ASSUME NEW i \in Items, EntryCreated(i)
      PROVE  /\ \A j \in Items \ {i} : items'[j] = items[j]
             /\ items[i] = 0 /\ items'[i] = nEnt + 1 /\ nEnt' = nEnt + 1 /\ ~closed
             /\ ent'[nEnt + 1] = NewEntry(i)
             /\ Goes
      BY <1>0, <1>5 DEF EntryCreated
<1>6. ASSUME NEW i \in Items, RecordAccepted(i) PROVE Maps /\ Goes
      <2>1. rec[i].e \in 1..MaxEntries /\ items' = items
            BY <1>6, RecordsTo DEF RecordAccepted
      <2>2. PICK y, ks : Accepts(i, y, ks) BY <1>6, <2>1, AcceptedLemma
      <2>3. ent' = [ent EXCEPT ![rec[i].e] = y] /\ y.gone = ent[rec[i].e].gone
            BY <2>2 DEF Accepts
      <2>. QED BY <1>0, <1>1, <2>1, <2>3
<1>7. ASSUME NEW v, v \subseteq Items, \A i \in v : items[i] # 0,
             NEW now \in [1..MaxEntries -> Entry], remove(v, now), ~closed,
             \A e \in 1..MaxEntries : now[e].gone = ent[e].gone
      PROVE  Maps /\ Goes
      <2>1. \A e \in 1..MaxEntries :
                /\ (\E i \in v : items[i] = e) => ent'[e].gone
                /\ (\A i \in v : items[i] # e) => ent'[e] = now[e]
            BY <1>7, RemoveLemma
      <2>2. items' = [i \in Items |-> IF i \in v THEN 0 ELSE items[i]]
            BY <1>7 DEF remove
      <2>3. Maps
            <3>. SUFFICES ASSUME NEW i \in Items
                          PROVE  \/ items'[i] = items[i]
                                 \/ /\ items[i] # 0 /\ items'[i] = 0
                                    /\ ent'[items[i]].gone /\ ~closed
                 OBVIOUS
            <3>1. CASE i \notin v BY <2>2, <3>1
            <3>2. CASE i \in v
                  <4>1. items[i] \in 1..MaxEntries BY <1>0, <1>7, <3>2
                  <4>. QED BY <1>7, <2>1, <2>2, <3>2, <4>1
            <3>. QED BY <3>1, <3>2
      <2>4. Goes
            <3>. SUFFICES ASSUME NEW e \in 1..nEnt, ent'[e].gone, ~ent[e].gone
                          PROVE  \E i \in Items : items[i] = e /\ items'[i] = 0
                 OBVIOUS
            <3>1. e \in 1..MaxEntries BY <1>0
            <3>2. PICK i \in v : items[i] = e BY <1>7, <2>1, <3>1
            <3>. QED BY <1>7, <2>2, <3>2
      <2>. QED BY <2>3, <2>4
<1>8. ASSUME NEW i \in Items, NEW at \in Times, Forget(i, at) PROVE Maps /\ Goes
      <2>. DEFINE now == [ent EXCEPT ![items[i]].forgotten = at]
      <2>1. items[i] # 0 /\ at \in 0..MaxTime /\ ~closed BY <1>8 DEF Forget, Times
      <2>2. PICK v \in Oldest(Forgotten \cup {i}, now) : remove(v, now)
            BY <1>8 DEF Forget
      <2>3. v \subseteq Items /\ \A j \in v : items[j] # 0
            BY <2>1, <2>2 DEF Oldest, Forgotten
      <2>4. /\ now \in [1..MaxEntries -> Entry]
            /\ \A e \in 1..MaxEntries : now[e].gone = ent[e].gone
            BY <2>1, ForgetNow
      <2>. HIDE DEF now
      <2>. QED BY <1>7, <2>1, <2>2, <2>3, <2>4
<1>9. CASE SweepRemove
      <2>1. sw.item \in Items /\ items[sw.item] # 0 /\ lock
            BY <1>9 DEF SweepRemove, SharedInv, SweepInv
      <2>2. ~closed BY <2>1 DEF SharedInv, CloseInv
      <2>. QED BY <1>0, <1>7, <1>9, <2>1, <2>2 DEF SweepRemove
<1>10. ASSUME NEW k \in 1..MaxEntries, CloseEntry(k) PROVE Maps /\ Goes
      <2>1. PICK y : Closes(k, y) BY <1>10, CloseEntryLemma
      <2>2. items' = items BY <1>10, CloseEntryLemma
      <2>3. \A e \in 1..MaxEntries : ent'[e].gone = ent[e].gone
            BY <1>0, <2>1 DEF Closes
      <2>. QED BY <1>1, <2>2, <2>3
<1>11. ASSUME NEW k \in 1..MaxEntries, CloseRing(k) PROVE Maps /\ Goes
      <2>1. \A e \in 1..MaxEntries : ent'[e].gone = ent[e].gone
            BY <1>0, <1>11 DEF CloseRing, Entry
      <2>. QED BY <1>1, <1>11, <2>1 DEF CloseRing
<1>. HIDE DEF Maps, Goes
<1>12. CASE Maps /\ Goes BY <1>12 DEF Maps, Goes
<1>13. CASE \E i \in Items : EntryCreated(i)
      <2>1. PICK i \in Items : EntryCreated(i) BY <1>13
      <2>. QED BY <1>5, <2>1 DEF Goes
<1>. QED BY <1>2, <1>3, <1>4, <1>6, <1>8, <1>9, <1>10, <1>11, <1>12, <1>13, NextCases

\* Serves(i, e), of the state after the step.
ServesNext(i, e) == /\ e \in 1..nEnt' /\ ent'[e].item = i
                    /\ ent'[e].gone \/ items'[i] = e

LEMMA ServesStays ==
    ASSUME Types, SharedInv, [Next]_vars, NEW i \in Items, NEW e, Serves(i, e)
    PROVE  ServesNext(i, e)
<1>1. e \in 1..nEnt /\ ent[e].item = i /\ (ent[e].gone \/ items[i] = e)
      BY DEF Serves
<1>2. e \in 1..nEnt' /\ ent'[e].item = i /\ (ent[e].gone => ent'[e].gone)
      BY <1>1, EntriesGrow
<1>3. items[i] = e => items'[i] = e \/ ent'[e].gone
      BY <1>1, MapMoves
<1>. QED BY <1>1, <1>2, <1>3 DEF ServesNext

LEMMA MapStep == ASSUME Types, SharedInv, [Next]_vars PROVE MapInv'
<1>. SUFFICES ASSUME NEW i \in Items, items'[i] # 0
              PROVE  ent'[items'[i]].item = i /\ ~ent'[items'[i]].gone
     BY DEF MapInv
<1>1. CASE items'[i] = items[i]
      <2>1. items[i] \in 1..nEnt BY <1>1, RecTyped, EntriesGrow
      <2>2. ent[items[i]].item = i /\ ~ent[items[i]].gone
            BY <1>1 DEF SharedInv, MapInv
      <2>3. ~ent'[items[i]].gone
            BY <1>1, <2>1, <2>2, MapMoves, MapInjective
      <2>. QED BY <1>1, <2>1, <2>2, <2>3, EntriesGrow
<1>2. CASE items'[i] # items[i]
      <2>1. items'[i] = nEnt + 1 /\ ent'[nEnt + 1] = NewEntry(i)
            BY <1>2, MapMoves
      <2>. QED BY <2>1, NewEntryLemma
<1>. QED BY <1>1, <1>2

LEMMA RingsStep == ASSUME Types, SharedInv, [Next]_vars PROVE RingsInv'
<1>. SUFFICES ASSUME NEW e \in 1..nEnt', ent'[e].ringClosed, ~ent'[e].gone
              PROVE  cl'.pc \in {"hooks", "done"} /\ cl'.done = {}
     BY DEF RingsInv
<1>. USE BoundsAssumption
<1>. DEFINE Late == cl.pc \in {"hooks", "done"} /\ cl.done = {}
<1>0. /\ nEnt \in 0..MaxEntries /\ ent \in [1..MaxEntries -> Entry]
      /\ nEnt' \in 0..MaxEntries /\ nEnt <= nEnt' /\ e \in 1..MaxEntries
      BY EntTypesStep, EntriesGrow DEF Types, EntTypes
<1>1. ASSUME Late PROVE cl'.pc \in {"hooks", "done"} /\ cl'.done = {}
      <2>1. closed BY <1>1 DEF SharedInv, CloseInv
      <2>2. cl \in [pc : {"idle", "commit", "hooks", "done"}, ents : SUBSET Nat,
                    todo : SUBSET Nat, done : SUBSET (Items \X Int)]
            BY DEF Types, ProcTypes
      <2>3. \/ cl' = cl
            \/ \E k \in 1..MaxEntries : CloseRing(k)
            \/ CloseReturn
            BY ZenonT(40), <1>1, <2>1
            DEF Next, vars, RecordCall, Sampler, EntryFails, EntryFound, EntryRevived,
                EntryCreated, RecordRefused, RecordAccepted, RecordGetHook, HookLookup,
                HookReturn, Forget, SweepCall, Sweeper, SweepCheck, SweepRemove, SweepReturn,
                CloseCall, Closer, CloseEntry, CloseWait, CloseHook, QueryCall, Querier,
                QueryRead, QueryReturn, Terminated
      <2>. QED BY <1>1, <2>2, <2>3 DEF CloseRing, CloseReturn
<1>2. CASE e \in 1..nEnt /\ ent[e].ringClosed
      <2>1. ~ent[e].gone BY <1>2, EntriesGrow
      <2>2. Late BY <1>2, <2>1 DEF SharedInv, RingsInv
      <2>. QED BY <1>1, <2>2
<1>3. CASE ~(e \in 1..nEnt /\ ent[e].ringClosed)
      <2>1. ASSUME nEnt' = nEnt, ent'[e].ringClosed = ent[e].ringClosed PROVE FALSE
            BY <1>3, <2>1
      <2>2. CASE UNCHANGED vars BY <2>1, <2>2 DEF vars
      <2>3. CASE Outside BY <2>1, <2>3, OutsideFrame
      <2>4. ASSUME NEW i \in Items, EntryRevived(i) PROVE FALSE
            <3>1. items[i] # 0 /\ 0 \in 0..MaxTime /\ nEnt' = nEnt
                  /\ ent' = [ent EXCEPT ![items[i]].forgotten = 0]
                  BY <2>4 DEF EntryRevived, Forgotten
            <3>2. \A k \in 1..MaxEntries : ent'[k].ringClosed = ent[k].ringClosed
                  BY <3>1, ForgetNow
            <3>. QED BY <1>0, <2>1, <3>1, <3>2
      <2>5. ASSUME NEW i \in Items, EntryCreated(i) PROVE FALSE
            BY <1>0, <1>3, <2>5, NewEntryLemma DEF EntryCreated
      <2>6. ASSUME NEW i \in Items, RecordAccepted(i) PROVE FALSE
            <3>1. rec[i].e \in 1..MaxEntries /\ nEnt' = nEnt
                  BY <2>6, RecordsTo DEF RecordAccepted
            <3>2. PICK y, ks : Accepts(i, y, ks) BY <2>6, <3>1, AcceptedLemma
            <3>3. /\ ent' = [ent EXCEPT ![rec[i].e] = y]
                  /\ y.ringClosed = ent[rec[i].e].ringClosed
                  BY <3>2 DEF Accepts
            <3>. QED BY <1>0, <2>1, <3>1, <3>3
      <2>7. ASSUME NEW v, NEW now \in [1..MaxEntries -> Entry], remove(v, now), nEnt' = nEnt,
                   \A k \in 1..MaxEntries : now[k].ringClosed = ent[k].ringClosed
            PROVE  FALSE
            <3>1. ent'[e].gone \/ ent'[e] = now[e] BY <1>0, <2>7, RemoveLemma
            <3>. QED BY <1>0, <2>1, <2>7, <3>1
      <2>8. ASSUME NEW i \in Items, NEW at \in Times, Forget(i, at) PROVE FALSE
            <3>. DEFINE now == [ent EXCEPT ![items[i]].forgotten = at]
            <3>1. items[i] # 0 /\ at \in 0..MaxTime /\ nEnt' = nEnt BY <2>8 DEF Forget, Times
            <3>2. PICK v : remove(v, now) BY <2>8 DEF Forget
            <3>3. /\ now \in [1..MaxEntries -> Entry]
                  /\ \A k \in 1..MaxEntries : now[k].ringClosed = ent[k].ringClosed
                  BY <3>1, ForgetNow
            <3>. HIDE DEF now
            <3>. QED BY <2>7, <3>1, <3>2, <3>3
      <2>9. CASE SweepRemove BY <1>0, <2>7, <2>9 DEF SweepRemove
      <2>10. ASSUME NEW k \in 1..MaxEntries, CloseEntry(k) PROVE FALSE
             <3>1. PICK y : Closes(k, y) BY <2>10, CloseEntryLemma
             <3>2. nEnt' = nEnt BY <2>10, CloseEntryLemma
             <3>3. /\ ent' = [ent EXCEPT ![k] = y] /\ y.ringClosed = ent[k].ringClosed
                   BY <3>1 DEF Closes
             <3>. QED BY <1>0, <2>1, <3>2, <3>3
      <2>11. ASSUME NEW k \in 1..MaxEntries, CloseRing(k)
             PROVE  cl'.pc \in {"hooks", "done"} /\ cl'.done = {}
             BY <1>1, <2>11 DEF CloseRing
      <2>. QED
           BY <2>2, <2>3, <2>4, <2>5, <2>6, <2>8, <2>9, <2>10, <2>11, NextCases
<1>. QED BY <1>2, <1>3

\* What a step makes of a sampler.
LEMMA RecMoves ==
    ASSUME Types, SharedInv, [Next]_vars, NEW i \in Items
    PROVE  \/ rec'[i] = rec[i]
           \/ rec'[i].pc \in {"idle", "lookup"}
           \/ rec'[i].pc = "record" /\ rec'[i].e = items[i] /\ items[i] # 0
           \/ rec'[i].pc = "record" /\ rec'[i].e = nEnt + 1 /\ EntryCreated(i)
           \/ /\ RecordAccepted(i) /\ \E y, ks : Accepts(i, y, ks) /\ Commits(i, y)
              /\ rec'[i].pc = "getHook" /\ rec'[i].by = rec[i].e
              /\ rec'[i].min = ent[rec[i].e].acc.min
           \/ RecordGetHook(i) /\ rec'[i] = [rec[i] EXCEPT !.pc = "hook"]
           \/ HookLookup(i) /\ rec'[i] = [rec[i] EXCEPT !.pc = "hookRead", !.e = items[i]]
<1>. SUFFICES ASSUME rec'[i] # rec[i] PROVE
           \/ rec'[i].pc \in {"idle", "lookup"}
           \/ rec'[i].pc = "record" /\ rec'[i].e = items[i] /\ items[i] # 0
           \/ rec'[i].pc = "record" /\ rec'[i].e = nEnt + 1 /\ EntryCreated(i)
           \/ /\ RecordAccepted(i) /\ \E y, ks : Accepts(i, y, ks) /\ Commits(i, y)
              /\ rec'[i].pc = "getHook" /\ rec'[i].by = rec[i].e
              /\ rec'[i].min = ent[rec[i].e].acc.min
           \/ RecordGetHook(i) /\ rec'[i] = [rec[i] EXCEPT !.pc = "hook"]
           \/ HookLookup(i) /\ rec'[i] = [rec[i] EXCEPT !.pc = "hookRead", !.e = items[i]]
     OBVIOUS
<1>0. rec \in [Items -> Rec] BY DEF Types, RecTypes
<1>1. IdleRec.pc = "idle" /\ IdleRec \in Rec
      BY BoundsAssumption DEF IdleRec, Rec, RecPcs
<1>2. CASE \E j \in Items, at \in Times, ks \in (SUBSET Keys) \ {{}} : RecordCall(j, at, ks)
      <2>1. PICK j \in Items, at \in Times, ks \in (SUBSET Keys) \ {{}} : RecordCall(j, at, ks)
            BY <1>2
      <2>2. rec' = [rec EXCEPT ![j] = [IdleRec EXCEPT !.pc = "lookup", !.at = at, !.ks = ks]]
            BY <2>1 DEF RecordCall
      <2>3. rec'[i].pc = "lookup" BY <1>0, <2>2 DEF IdleRec
      <2>. QED BY <2>3
<1>3. ASSUME NEW j \in Items, Sampler(j) PROVE j = i
      BY <1>0, <1>3
      DEF Sampler, EntryFails, EntryFound, EntryRevived, EntryCreated, RecordRefused,
          RecordAccepted, RecordGetHook, HookLookup, HookReturn
<1>4. CASE EntryFails(i) \/ HookReturn(i)
      BY <1>0, <1>1, <1>4 DEF EntryFails, HookReturn
<1>5. CASE EntryFound(i) \/ EntryRevived(i)
      <2>1. rec' = [rec EXCEPT ![i].pc = "record", ![i].e = items[i]] /\ items[i] # 0
            BY <1>5 DEF EntryFound, EntryRevived, Live, Forgotten
      <2>2. rec'[i].pc = "record" /\ rec'[i].e = items[i] BY <1>0, <2>1 DEF Rec
      <2>. QED BY <2>1, <2>2
<1>6. CASE EntryCreated(i)
      <2>1. rec' = [rec EXCEPT ![i].pc = "record", ![i].e = nEnt + 1]
            BY <1>6 DEF EntryCreated
      <2>2. rec'[i].pc = "record" /\ rec'[i].e = nEnt + 1 BY <1>0, <2>1 DEF Rec
      <2>. QED BY <1>6, <2>2
<1>7. CASE RecordRefused(i)
      <2>1. [rec[i] EXCEPT !.pc = "lookup"].pc = "lookup" BY <1>0 DEF Rec
      <2>. QED BY <1>0, <1>1, <1>7, <2>1 DEF RecordRefused
<1>8. CASE RecordAccepted(i)
      <2>1. rec[i].e \in 1..MaxEntries BY <1>8, RecordsTo DEF RecordAccepted
      <2>2. PICK y, ks : Accepts(i, y, ks) BY <1>8, <2>1, AcceptedLemma
      <2>3. CASE Joins(i, y) \/ Loses(i, y)
            BY <1>0, <1>1, <2>3 DEF Joins, Loses
      <2>4. CASE Commits(i, y)
            <3>1. rec' = [rec EXCEPT ![i].pc = "getHook", ![i].min = ent[rec[i].e].acc.min,
                                     ![i].by = rec[i].e]
                  BY <2>4 DEF Commits
            <3>2. /\ rec'[i].pc = "getHook" /\ rec'[i].by = rec[i].e
                  /\ rec'[i].min = ent[rec[i].e].acc.min
                  BY <1>0, <3>1 DEF Rec
            <3>. QED BY <1>8, <2>2, <2>4, <3>2
      <2>. QED BY <2>2, <2>3, <2>4 DEF Accepts
<1>9. CASE RecordGetHook(i)
      BY <1>0, <1>9 DEF RecordGetHook
<1>10. CASE HookLookup(i)
      BY <1>0, <1>10 DEF HookLookup
<1>11. (\E j \in Items, at \in Times, ks \in (SUBSET Keys) \ {{}} : RecordCall(j, at, ks))
       \/ \E j \in Items : Sampler(j)
      BY DEF Next, vars, Forget, SweepCall, Sweeper, SweepCheck, SweepRemove, SweepReturn,
             CloseCall, Closer, CloseEntry, CloseRing, CloseWait, CloseHook, CloseReturn,
             QueryCall, Querier, QueryRead, QueryReturn, Terminated
<1>. QED BY <1>2, <1>3, <1>4, <1>5, <1>6, <1>7, <1>8, <1>9, <1>10, <1>11 DEF Sampler

\* The samplers that owe a hook can be counted.
LEMMA HooksFinite ==
    /\ IsFiniteSet(InHooks) /\ IsFiniteSet(InHooks')
    /\ Cardinality(InHooks) \in Nat /\ (Cardinality(InHooks) = 0 <=> InHooks = {})
<1>1. InHooks \subseteq Items /\ InHooks' \subseteq Items BY DEF InHooks
<1>2. IsFiniteSet(InHooks) /\ IsFiniteSet(InHooks') BY <1>1, NamesAssumption, FS_Subset
<1>. QED BY <1>2, FS_CardinalityType, FS_EmptySet

\* A sampler leaves the locks, Sweep, Close and the queries alone, and the map
\* unless it makes an entry.
LEMMA SamplerFrame ==
    ASSUME NEW i \in Items, Sampler(i)
    PROVE  /\ UNCHANGED <<lock, closed, refused, sw, cl, qry>>
           /\ UNCHANGED items \/ EntryCreated(i)
<1>1. CASE RecordAccepted(i) BY <1>1 DEF RecordAccepted
<1>2. CASE EntryRevived(i) \/ EntryCreated(i) \/ RecordRefused(i)
      BY <1>2 DEF EntryRevived, EntryCreated, RecordRefused
<1>3. CASE \/ EntryFails(i) \/ EntryFound(i) \/ RecordGetHook(i)
           \/ HookLookup(i) \/ HookReturn(i)
      BY <1>3 DEF EntryFails, EntryFound, RecordGetHook, HookLookup, HookReturn
<1>. QED BY <1>1, <1>2, <1>3 DEF Sampler

\* Only Close changes its own state, and closes the store.
LEMMA CloseCases ==
    ASSUME [Next]_vars
    PROVE  \/ UNCHANGED <<cl, closed>>
           \/ CloseCall \/ CloseWait \/ CloseReturn
           \/ \E e \in 1..MaxEntries : CloseEntry(e) \/ CloseRing(e)
           \/ \E p \in cl.done : CloseHook(p)
<1>1. CASE UNCHANGED vars BY <1>1 DEF vars
<1>2. ASSUME NEW i \in Items, Sampler(i) PROVE UNCHANGED <<cl, closed>>
      BY <1>2, SamplerFrame
<1>3. CASE \/ \E i \in Items, at \in Times, ks \in (SUBSET Keys) \ {{}} :
                 RecordCall(i, at, ks)
           \/ \E i \in Items, at \in Times : Forget(i, at)
           \/ (\E cut \in Times : SweepCall(cut)) \/ Sweeper
      BY <1>3
      DEF RecordCall, Forget, SweepCall, Sweeper, SweepCheck, SweepRemove, SweepReturn
<1>4. CASE CloseCall \/ Closer BY <1>4 DEF Closer
<1>5. CASE \/ \E q \in Queriers, i \in Items : QueryCall(q, i)
           \/ \E q \in Queriers : Querier(q)
      BY <1>5 DEF QueryCall, Querier, QueryRead, QueryReturn
<1>6. CASE Terminated BY <1>1, <1>6 DEF Terminated
<1>. QED BY <1>1, <1>2, <1>3, <1>4, <1>5, <1>6 DEF Next

\* Close moves past its wait only when no sampler owes a hook, and an open
\* store is closed by CloseCall alone.
LEMMA CloseMoves ==
    ASSUME Types, SharedInv, [Next]_vars
    PROVE  /\ cl'.pc \in {"hooks", "done"} /\ cl.pc \notin {"hooks", "done"} =>
                  CloseWait /\ InHooks = {} /\ cl.todo = {}
           /\ cl'.pc # cl.pc => CloseCall \/ CloseWait \/ CloseReturn
           /\ closed' # closed => CloseCall
<1>0. cl \in [pc : {"idle", "commit", "hooks", "done"}, ents : SUBSET Nat,
              todo : SUBSET Nat, done : SUBSET (Items \X Int)]
      BY DEF Types, ProcTypes
<1>1. \/ UNCHANGED <<cl, closed>>
      \/ CloseCall \/ CloseWait \/ CloseReturn
      \/ \E e \in 1..MaxEntries : CloseEntry(e) \/ CloseRing(e)
      \/ \E p \in cl.done : CloseHook(p)
      BY CloseCases
<1>2. ASSUME NEW e \in 1..MaxEntries, CloseEntry(e) \/ CloseRing(e)
      PROVE  cl'.pc = cl.pc /\ closed' = closed
      BY <1>0, <1>2 DEF CloseEntry, CloseRing
<1>3. ASSUME NEW p \in cl.done, CloseHook(p) PROVE cl'.pc = cl.pc /\ closed' = closed
      BY <1>0, <1>3 DEF CloseHook
<1>4. CASE CloseWait
      <2>1. InHooks = {} BY <1>4, HooksFinite DEF CloseWait, SharedInv, CountInv
      <2>. QED BY <1>0, <1>4, <2>1 DEF CloseWait
<1>5. CASE CloseCall
      <2>1. cl'.pc = "commit" BY <1>5 DEF CloseCall
      <2>. QED BY <1>5, <2>1
<1>6. CASE CloseReturn
      BY <1>0, <1>6 DEF CloseReturn
<1>. QED BY <1>1, <1>2, <1>3, <1>4, <1>5, <1>6

LEMMA RecStep == ASSUME Types, SharedInv, [Next]_vars PROVE RecInv'
<1>. SUFFICES ASSUME NEW i \in Items
              PROVE  /\ rec'[i].pc = "record" => ServesNext(i, rec'[i].e)
                     /\ rec'[i].pc \in HookPcs =>
                            /\ ServesNext(i, rec'[i].by)
                            /\ rec'[i].min \in DOMAIN ent'[rec'[i].by].mins
                            /\ cl'.pc \notin {"hooks", "done"}
                     /\ rec'[i].pc = "hookRead" =>
                            ent'[rec'[i].by].gone \/ rec'[i].e = rec'[i].by
     BY DEF RecInv, Serves, ServesNext
<1>. DEFINE r == rec[i]
<1>1. /\ r.pc = "record" => Serves(i, r.e)
      /\ r.pc \in HookPcs => /\ Serves(i, r.by) /\ r.min \in DOMAIN ent[r.by].mins
                             /\ cl.pc \notin {"hooks", "done"}
      /\ r.pc = "hookRead" => ent[r.by].gone \/ r.e = r.by
      BY DEF SharedInv, RecInv
<1>2. r \in Rec BY RecTyped
<1>3. ASSUME r.pc \in HookPcs
      PROVE  /\ ServesNext(i, r.by) /\ r.min \in DOMAIN ent'[r.by].mins
             /\ ent[r.by].gone => ent'[r.by].gone
             /\ cl'.pc \notin {"hooks", "done"}
      <2>1. r.by \in 1..nEnt BY <1>1, <1>3 DEF Serves
      <2>2. ServesNext(i, r.by) BY <1>1, <1>3, ServesStays
      <2>3. r.min \in DOMAIN ent'[r.by].mins BY <1>1, <1>3, <2>1, EntriesGrow
      <2>4. i \in InHooks BY <1>3 DEF InHooks
      <2>. QED BY <1>1, <1>3, <2>1, <2>2, <2>3, <2>4, EntriesGrow, CloseMoves
<1>4. CASE rec'[i] = rec[i]
      <2>1. r.pc = "record" => ServesNext(i, r.e) BY <1>1, ServesStays
      <2>2. "hookRead" \in HookPcs BY DEF HookPcs
      <2>. QED BY <1>1, <1>3, <1>4, <2>1, <2>2
<1>5. CASE rec'[i].pc \in {"idle", "lookup"} BY <1>5 DEF HookPcs
<1>6. CASE rec'[i].pc = "record" /\ rec'[i].e = items[i] /\ items[i] # 0
      <2>1. PICK e : e = items[i] OBVIOUS
      <2>2. Serves(i, e) BY <1>6, <2>1, RecTyped DEF Serves, SharedInv, MapInv, Types, EntTypes
      <2>3. ServesNext(i, e) BY <2>2, ServesStays
      <2>. QED BY <1>6, <2>1, <2>3 DEF HookPcs
<1>7. CASE rec'[i].pc = "record" /\ rec'[i].e = nEnt + 1 /\ EntryCreated(i)
      <2>1. PICK e : e = nEnt + 1 OBVIOUS
      <2>2. nEnt \in 0..MaxEntries /\ nEnt' = e /\ items' = [items EXCEPT ![i] = e]
            /\ ent' = [ent EXCEPT ![e] = NewEntry(i)] /\ e \in 1..MaxEntries
            BY <1>7, <2>1, BoundsAssumption DEF EntryCreated, Types, EntTypes
      <2>3. items'[i] = e /\ ent'[e].item = i
            BY <2>2, NewEntryLemma DEF Types, EntTypes
      <2>4. ServesNext(i, e) BY <2>2, <2>3 DEF ServesNext
      <2>. QED BY <1>7, <2>1, <2>4 DEF HookPcs
<1>8. CASE /\ RecordAccepted(i) /\ \E y, ks : Accepts(i, y, ks) /\ Commits(i, y)
           /\ rec'[i].pc = "getHook" /\ rec'[i].by = r.e
           /\ rec'[i].min = ent[r.e].acc.min
      <2>1. r.pc = "record" /\ ~ent[r.e].gone /\ ~ent[r.e].closed /\ cl' = cl
            BY <1>8 DEF RecordAccepted
      <2>2. /\ r.e \in 1..nEnt /\ r.e \in 1..MaxEntries /\ items[i] = r.e
            BY <2>1, RecordsTo
      <2>3. ServesNext(i, r.e) BY <1>1, <2>1, ServesStays
      <2>4. PICK y, ks : Accepts(i, y, ks) /\ Commits(i, y) BY <1>8
      <2>5. ent'[r.e] = y BY <2>2, <2>4 DEF Accepts, Types, EntTypes
      <2>6. ent[r.e].acc.min \in DOMAIN ent'[r.e].mins
            BY <2>4, <2>5 DEF Commits
      <2>7. cl.pc \notin {"hooks", "done"}
            <3>1. r.e # 0 BY <2>2
            <3>. QED BY <2>1, <2>2, <3>1 DEF SharedInv, CloseInv
      <2>. QED BY <1>8, <2>1, <2>3, <2>6, <2>7
<1>9. CASE RecordGetHook(i) /\ rec'[i] = [r EXCEPT !.pc = "hook"]
      <2>1. r.pc \in HookPcs BY <1>9 DEF RecordGetHook, HookPcs
      <2>2. rec'[i].by = r.by /\ rec'[i].min = r.min /\ rec'[i].pc = "hook"
            BY <1>2, <1>9 DEF Rec
      <2>. QED BY <1>3, <2>1, <2>2
<1>10. CASE HookLookup(i) /\ rec'[i] = [r EXCEPT !.pc = "hookRead", !.e = items[i]]
      <2>1. r.pc \in HookPcs BY <1>10 DEF HookLookup, HookPcs
      <2>2. /\ rec'[i].by = r.by /\ rec'[i].min = r.min /\ rec'[i].pc = "hookRead"
            /\ rec'[i].e = items[i]
            BY <1>2, <1>10 DEF Rec
      <2>3. ent[r.by].gone \/ items[i] = r.by BY <1>1, <2>1 DEF Serves
      <2>. QED BY <1>3, <2>1, <2>2, <2>3
<1>. QED BY <1>4, <1>5, <1>6, <1>7, <1>8, <1>9, <1>10, RecMoves

LEMMA SweepStep == ASSUME Types, SharedInv, [Next]_vars PROVE SweepInv'
<1>0. /\ lock <=> sw.pc # "idle"
      /\ sw.pc = "idle" => sw.todo = {}
      /\ \A i \in sw.todo : items[i] # 0
      /\ sw.pc = "remove" => sw.item \in Items /\ items[sw.item] # 0 /\ sw.item \notin sw.todo
      /\ sw \in [pc : {"idle", "check", "remove"}, cut : 0..MaxTime,
                 item : Items \cup {"none"}, todo : SUBSET Items]
      /\ lock \in BOOLEAN /\ lock' \in BOOLEAN
      BY ProcTypesStep DEF SharedInv, SweepInv, Types, ProcTypes
<1>1. ASSUME NEW cut \in Times, SweepCall(cut) PROVE SweepInv'
      BY <1>1 DEF SweepCall, SweepInv
<1>2. ASSUME NEW i \in Items, SweepCheck(i) PROVE SweepInv'
      BY ZenonT(40), <1>0, <1>2 DEF SweepCheck, SweepInv
<1>3. CASE SweepReturn BY <1>0, <1>3 DEF SweepReturn, SweepInv
<1>4. CASE SweepRemove
      <2>1. items' = [i \in Items |-> IF i \in {sw.item} THEN 0 ELSE items[i]]
            BY <1>4 DEF SweepRemove, remove
      <2>2. sw' = [sw EXCEPT !.pc = "check", !.item = "none"] /\ sw.pc = "remove"
            /\ lock' = lock
            BY <1>4 DEF SweepRemove
      <2>. QED BY <1>0, <2>1, <2>2 DEF SweepInv
<1>5. ASSUME UNCHANGED <<sw, lock>>, \A i \in Items : items[i] # 0 => items'[i] # 0 \/ ~lock
      PROVE  SweepInv'
      BY <1>0, <1>5 DEF SweepInv
<1>6. ASSUME NEW i \in Items, EntryCreated(i) PROVE SweepInv'
      BY <1>5, <1>6 DEF EntryCreated
<1>7. ASSUME NEW i \in Items, NEW at \in Times, Forget(i, at) PROVE SweepInv'
      BY <1>5, <1>7 DEF Forget
<1>8. \/ UNCHANGED <<sw, lock, items>> \/ (\E cut \in Times : SweepCall(cut)) \/ Sweeper
      \/ \E i \in Items : EntryCreated(i)
      \/ \E i \in Items, at \in Times : Forget(i, at)
      <2>1. CASE UNCHANGED vars BY <2>1 DEF vars
      <2>2. ASSUME NEW i \in Items, Sampler(i)
            PROVE  UNCHANGED <<sw, lock, items>> \/ EntryCreated(i)
            BY <2>2, SamplerFrame
      <2>3. CASE \E i \in Items, at \in Times, ks \in (SUBSET Keys) \ {{}} :
                     RecordCall(i, at, ks)
            BY <2>3 DEF RecordCall
      <2>4. CASE CloseCall \/ Closer
            BY <2>4 DEF CloseCall, Closer, CloseEntry, CloseRing, CloseWait, CloseHook, CloseReturn
      <2>5. CASE \/ \E q \in Queriers, i \in Items : QueryCall(q, i)
                 \/ \E q \in Queriers : Querier(q)
            BY <2>5 DEF QueryCall, Querier, QueryRead, QueryReturn
      <2>6. CASE Terminated BY <2>1, <2>6 DEF Terminated
      <2>. QED BY <2>1, <2>2, <2>3, <2>4, <2>5, <2>6 DEF Next
<1>. QED BY <1>1, <1>2, <1>3, <1>4, <1>5, <1>6, <1>7, <1>8 DEF Sweeper

LEMMA CloseStep == ASSUME Types, SharedInv, [Next]_vars PROVE CloseInv'
<1>. USE BoundsAssumption
<1>0. CloseInv /\ MapInv BY DEF SharedInv
<1>1. /\ cl \in [pc : {"idle", "commit", "hooks", "done"}, ents : SUBSET Nat,
                 todo : SUBSET Nat, done : SUBSET (Items \X Int)]
      /\ lock \in BOOLEAN /\ lock' \in BOOLEAN /\ closed \in BOOLEAN /\ closed' \in BOOLEAN
      /\ nEnt \in 0..MaxEntries /\ ent \in [1..MaxEntries -> Entry]
      /\ items \in [Items -> 0..nEnt]
      BY ProcTypesStep DEF Types, ProcTypes, EntTypes
<1>2. closed => items' = items
      <2>. SUFFICES ASSUME closed PROVE items' = items
           OBVIOUS
      <2>1. \A i \in Items : items'[i] = items[i] BY MapMoves
      <2>2. items' \in [Items -> 0..nEnt'] BY EntTypesStep DEF EntTypes
      <2>. QED BY <1>1, <2>1, <2>2
<1>3. /\ nEnt' \in Nat /\ nEnt <= nEnt'
      /\ \A e \in 1..nEnt :
            /\ e \in 1..nEnt' /\ e \in 1..MaxEntries
            /\ ent[e].closed => ent'[e].closed
            /\ DOMAIN ent[e].mins \subseteq DOMAIN ent'[e].mins
      BY EntriesGrow
<1>4. \A i \in Items : items[i] # 0 => items[i] \in 1..nEnt BY <1>1
<1>5. CASE UNCHANGED <<cl, closed>>
      <2>1. CASE ~closed
            <3>1. cl'.pc = "idle" /\ cl'.done = {} /\ cl'.todo = {} /\ cl'.ents = {}
                  BY <1>0, <1>5, <2>1 DEF CloseInv
            <3>. QED BY <1>5, <2>1, <3>1 DEF CloseInv
      <2>2. CASE closed
            <3>1. lock' = lock
                  <4>1. lock = FALSE /\ sw.pc = "idle" /\ cl.pc # "idle"
                        BY <1>0, <1>1, <2>2 DEF CloseInv, SharedInv, SweepInv
                  <4>2. CASE UNCHANGED vars BY <4>2 DEF vars
                  <4>3. ASSUME NEW i \in Items, Sampler(i) PROVE lock' = lock
                        BY <4>3, SamplerFrame
                  <4>4. CASE \/ \E i \in Items, at \in Times, ks \in (SUBSET Keys) \ {{}} :
                                   RecordCall(i, at, ks)
                             \/ \E i \in Items, at \in Times : Forget(i, at)
                             \/ (\E cut \in Times : SweepCall(cut)) \/ Sweeper
                        BY <2>2, <4>1, <4>4
                        DEF RecordCall, Forget, SweepCall, Sweeper, SweepCheck, SweepRemove,
                            SweepReturn
                  <4>5. CASE CloseCall \/ Closer
                        BY <4>5 DEF CloseCall, Closer, CloseEntry, CloseRing, CloseWait,
                                    CloseHook, CloseReturn
                  <4>6. CASE \/ \E q \in Queriers, i \in Items : QueryCall(q, i)
                             \/ \E q \in Queriers : Querier(q)
                        BY <4>6 DEF QueryCall, Querier, QueryRead, QueryReturn
                  <4>7. CASE Terminated BY <4>2, <4>7 DEF Terminated
                  <4>. QED BY <4>2, <4>3, <4>4, <4>5, <4>6, <4>7 DEF Next
            <3>2. \A i \in Items : items'[i] # 0 =>
                      items'[i] \in cl'.todo \/ ent'[items'[i]].closed
                  BY <1>0, <1>2, <1>3, <1>4, <1>5, <2>2 DEF CloseInv
            <3>3. \A p \in cl'.done : /\ items'[p[1]] # 0 /\ items'[p[1]] \notin cl'.todo
                                      /\ p[2] \in DOMAIN ent'[items'[p[1]]].mins
                  <4>1. \A p \in cl.done : p[1] \in Items BY <1>1
                  <4>. QED BY <1>0, <1>2, <1>3, <1>4, <1>5, <2>2, <4>1 DEF CloseInv
            <3>. QED BY <1>0, <1>2, <1>3, <1>5, <2>2, <3>1, <3>2, <3>3 DEF CloseInv
      <2>. QED BY <1>1, <2>1, <2>2
<1>6. CASE CloseCall
      <2>. DEFINE all == {items[i] : i \in Items} \ {0}
      <2>1. /\ ~lock /\ lock' = lock /\ closed' = TRUE /\ items' = items
            /\ cl' = [pc |-> "commit", ents |-> all, todo |-> all, done |-> {}]
            BY <1>6 DEF CloseCall
      <2>2. cl'.pc = "commit" /\ cl'.todo = all /\ cl'.ents = all /\ cl'.done = {}
            BY <2>1
      <2>3. \A e \in all : e \in 1..nEnt' /\ \E i \in Items : items'[i] = e
            BY <1>3, <1>4, <2>1
      <2>4. \A i \in Items : items'[i] # 0 => items'[i] \in all BY <2>1
      <2>. HIDE DEF all
      <2>. QED BY <2>1, <2>2, <2>3, <2>4 DEF CloseInv
<1>7. ASSUME closed, UNCHANGED <<closed, lock>>, cl'.pc # "idle", cl'.done \subseteq cl.done,
             cl'.todo = cl.todo, cl'.ents \subseteq cl.ents,
             cl'.pc = "done" => cl'.done = {},
             cl'.pc \in {"hooks", "done"} => cl.todo = {}
      PROVE  CloseInv'
      <2>1. \A i \in Items : items'[i] # 0 =>
                items'[i] \in cl'.todo \/ ent'[items'[i]].closed
            BY <1>0, <1>2, <1>3, <1>4, <1>7 DEF CloseInv
      <2>2. \A p \in cl'.done : /\ items'[p[1]] # 0 /\ items'[p[1]] \notin cl'.todo
                                /\ p[2] \in DOMAIN ent'[items'[p[1]]].mins
            <3>1. \A p \in cl.done : p[1] \in Items BY <1>1
            <3>. QED BY <1>0, <1>2, <1>3, <1>4, <1>7, <3>1 DEF CloseInv
      <2>. QED BY <1>0, <1>2, <1>3, <1>7, <2>1, <2>2 DEF CloseInv
<1>8. CASE CloseWait \/ CloseReturn
      <2>1. /\ UNCHANGED <<closed, lock>> /\ closed
            /\ cl'.pc \in {"hooks", "done"} /\ cl'.done = cl.done /\ cl'.todo = cl.todo
            /\ cl'.ents = cl.ents /\ (cl'.pc = "done" => cl.done = {}) /\ cl.todo = {}
            BY <1>0, <1>1, <1>8 DEF CloseWait, CloseReturn, CloseInv
      <2>. QED BY <1>7, <2>1
<1>9. ASSUME NEW e \in 1..MaxEntries, CloseRing(e) PROVE CloseInv'
      <2>1. /\ UNCHANGED <<closed, lock>> /\ closed
            /\ cl'.pc = "hooks" /\ cl.pc = "hooks" /\ cl'.done = cl.done
            /\ cl'.todo = cl.todo /\ cl'.ents \subseteq cl.ents /\ cl.todo = {}
            BY <1>0, <1>1, <1>9 DEF CloseRing, CloseInv
      <2>. QED BY <1>7, <2>1
<1>10. ASSUME NEW p \in cl.done, CloseHook(p) PROVE CloseInv'
      <2>1. /\ UNCHANGED <<closed, lock>> /\ closed
            /\ cl'.pc = "hooks" /\ cl.pc = "hooks" /\ cl'.done \subseteq cl.done
            /\ cl'.todo = cl.todo /\ cl'.ents = cl.ents /\ cl.todo = {}
            BY <1>0, <1>1, <1>10 DEF CloseHook, CloseInv
      <2>. QED BY <1>7, <2>1
<1>11. ASSUME NEW e \in 1..MaxEntries, CloseEntry(e) PROVE CloseInv'
      <2>1. PICK y : Closes(e, y) BY <1>11, CloseEntryLemma
      <2>2. /\ cl.pc = "commit" /\ e \in cl.todo
            /\ UNCHANGED <<lock, closed, items, nEnt>>
            BY <1>11, CloseEntryLemma
      <2>3. closed /\ ~lock BY <1>0, <2>2 DEF CloseInv
      <2>4. ent'[e] = y /\ y.closed BY <1>1, <2>1 DEF Closes
      <2>5. PICK i \in Items : items[i] = e BY <1>0, <2>2 DEF CloseInv
      <2>6. ent[e].item = i BY <1>0, <2>5 DEF MapInv
      <2>. DEFINE p0 == <<ent[e].item, ent[e].acc.min>>
      <2>7. \/ cl' = [cl EXCEPT !.todo = @ \ {e}]
            \/ /\ cl' = [cl EXCEPT !.todo = @ \ {e}, !.done = @ \cup {p0}]
               /\ DOMAIN y.mins = DOMAIN ent[e].mins \cup {ent[e].acc.min}
            BY <2>1 DEF Closes
      <2>8. /\ cl'.pc = "commit" /\ cl'.ents = cl.ents /\ cl'.todo = cl.todo \ {e}
            /\ \/ cl'.done = cl.done
               \/ cl'.done = cl.done \cup {p0} /\ ent[e].acc.min \in DOMAIN ent'[e].mins
            <3>1. CASE cl' = [cl EXCEPT !.todo = @ \ {e}] BY <1>1, <2>2, <3>1
            <3>2. CASE /\ cl' = [cl EXCEPT !.todo = @ \ {e}, !.done = @ \cup {p0}]
                       /\ DOMAIN y.mins = DOMAIN ent[e].mins \cup {ent[e].acc.min}
                  BY <1>1, <2>2, <2>4, <3>2
            <3>. QED BY <2>7, <3>1, <3>2
      <2>9. \A j \in Items : items'[j] # 0 =>
                items'[j] \in cl'.todo \/ ent'[items'[j]].closed
            BY <1>0, <1>3, <1>4, <2>2, <2>3, <2>4, <2>8 DEF CloseInv
      <2>10. p0[1] = i /\ p0[2] = ent[e].acc.min BY <2>6
      <2>. HIDE DEF p0
      <2>11. ASSUME NEW p \in cl.done
             PROVE  /\ p[1] \in Items /\ items[p[1]] # 0 /\ items[p[1]] \notin cl.todo
                    /\ p[2] \in DOMAIN ent'[items[p[1]]].mins
             BY <1>0, <1>1, <1>3, <1>4 DEF CloseInv
      <2>12. \A p \in cl'.done : /\ items'[p[1]] # 0 /\ items'[p[1]] \notin cl'.todo
                                 /\ p[2] \in DOMAIN ent'[items'[p[1]]].mins
             BY <2>2, <2>5, <2>8, <2>10, <2>11
      <2>13. \A p1, p2 \in cl'.done : p1[1] = p2[1] => p1 = p2
             BY <1>0, <2>2, <2>5, <2>8, <2>10, <2>11 DEF CloseInv
      <2>. QED BY <1>0, <1>3, <2>2, <2>3, <2>8, <2>9, <2>12, <2>13 DEF CloseInv
<1>. QED BY <1>5, <1>6, <1>8, <1>9, <1>10, <1>11, CloseCases

\* A query that looked the item up holds an entry; a closed ring tells that the
\* store was closed, or the item removed, since.
LEMMA QueryStep == ASSUME Types, SharedInv, [Next]_vars PROVE QueryInv'
<1>. SUFFICES ASSUME NEW q \in Queriers, qry'[q].pc # "idle"
              PROVE  /\ qry'[q].e \in 1..nEnt'
                     /\ qry'[q].pc = "recheck" => closed' \/ ent'[qry'[q].e].gone
     BY DEF QueryInv
<1>1. qry \in [Queriers -> [pc : {"idle", "found", "reading", "recheck"},
                            item : Items \cup {"none"}, e : 0..MaxEntries]]
      /\ closed \in BOOLEAN
      BY DEF Types, ProcTypes
<1>2. qry[q].pc # "idle" =>
          /\ qry[q].e \in 1..nEnt
          /\ qry[q].pc = "recheck" => closed \/ ent[qry[q].e].gone
      BY DEF SharedInv, QueryInv
<1>3. closed => closed'
      BY CloseMoves DEF CloseCall
<1>4. CASE qry'[q] = qry[q]
      <2>1. PICK e : e = qry[q].e OBVIOUS
      <2>2. e \in 1..nEnt BY <1>2, <1>4, <2>1
      <2>. QED BY <1>2, <1>3, <1>4, <2>1, <2>2, EntriesGrow
<1>5. CASE qry'[q] # qry[q]
      <2>1. CASE \E i \in Items : QueryCall(q, i)
            <3>1. PICK i \in Items : QueryCall(q, i) BY <2>1
            <3>2. qry'[q] = [pc |-> "found", item |-> i, e |-> items[i]]
                  /\ items[i] # 0 /\ nEnt' = nEnt
                  BY <1>1, <3>1 DEF QueryCall
            <3>. QED BY <3>2, RecTyped DEF Types, EntTypes
      <2>2. CASE QueryRead(q)
            <3>1. qry[q].pc = "found" /\ UNCHANGED <<closed, ent, nEnt>>
                  /\ qry' = [qry EXCEPT ![q].pc =
                                IF ent[qry[q].e].ringClosed THEN "recheck" ELSE "reading"]
                  BY <2>2 DEF QueryRead
            <3>2. qry'[q].e = qry[q].e /\ (qry'[q].pc = "recheck" => ent[qry[q].e].ringClosed)
                  BY <1>1, <3>1
            <3>3. PICK e : e = qry[q].e OBVIOUS
            <3>4. e \in 1..nEnt BY <1>2, <3>1, <3>3
            <3>5. ent[e].ringClosed => closed \/ ent[e].gone
                  BY <3>4 DEF SharedInv, RingsInv, CloseInv
            <3>. QED BY <3>1, <3>2, <3>3, <3>4, <3>5
      <2>3. CASE QueryReturn(q)
            BY <1>1, <2>3 DEF QueryReturn, IdleQry
      <2>4. UNCHANGED qry \/ \E k \in Queriers : QueryRead(k) \/ QueryReturn(k)
                              \/ \E i \in Items : QueryCall(k, i)
            <3>1. CASE UNCHANGED vars BY <3>1 DEF vars
            <3>2. ASSUME NEW i \in Items, Sampler(i) PROVE UNCHANGED qry
                  BY <3>2, SamplerFrame
            <3>3. CASE \/ \E i \in Items, at \in Times, ks \in (SUBSET Keys) \ {{}} :
                             RecordCall(i, at, ks)
                       \/ \E i \in Items, at \in Times : Forget(i, at)
                       \/ (\E cut \in Times : SweepCall(cut)) \/ Sweeper
                  BY <3>3
                  DEF RecordCall, Forget, SweepCall, Sweeper, SweepCheck, SweepRemove,
                      SweepReturn
            <3>4. CASE CloseCall \/ Closer
                  BY <3>4 DEF CloseCall, Closer, CloseEntry, CloseRing, CloseWait, CloseHook,
                              CloseReturn
            <3>5. CASE Terminated BY <3>1, <3>5 DEF Terminated
            <3>. QED BY <3>1, <3>2, <3>3, <3>4, <3>5 DEF Next, Querier
      <2>5. ASSUME NEW k \in Queriers,
                   QueryRead(k) \/ QueryReturn(k) \/ \E i \in Items : QueryCall(k, i)
            PROVE  k = q
            BY <1>1, <1>5, <2>5 DEF QueryRead, QueryReturn, QueryCall
      <2>. QED BY <1>5, <2>1, <2>2, <2>3, <2>4, <2>5
<1>. QED BY <1>4, <1>5

\* A sampler joins those that owe a hook with its commit, and leaves them when
\* its hook returns.
LEMMA CountStep == ASSUME Types, SharedInv, [Next]_vars PROVE CountInv'
<1>0. rec \in [Items -> Rec] /\ rec' \in [Items -> Rec] /\ hooks = Cardinality(InHooks)
      BY RecTypesStep DEF Types, RecTypes, SharedInv, CountInv
<1>1. ASSUME hooks' = hooks,
             \A j \in Items : (rec'[j].pc \in HookPcs) <=> (rec[j].pc \in HookPcs)
      PROVE  CountInv'
      <2>1. InHooks' = InHooks BY <1>1 DEF InHooks
      <2>. QED BY <1>0, <1>1, <2>1 DEF CountInv
<1>2. ASSUME NEW i \in Items, \A j \in Items \ {i} : rec'[j] = rec[j],
             hooks' = hooks, (rec'[i].pc \in HookPcs) <=> (rec[i].pc \in HookPcs)
      PROVE  CountInv'
      BY <1>1, <1>2
<1>3. IdleRec.pc \notin HookPcs /\ "lookup" \notin HookPcs /\ "record" \notin HookPcs
      BY DEF IdleRec, HookPcs
<1>4. ASSUME NEW i \in Items, NEW at \in Times, NEW ks \in (SUBSET Keys) \ {{}},
             RecordCall(i, at, ks)
      PROVE  CountInv'
      <2>1. /\ hooks' = hooks /\ rec[i].pc = "idle"
            /\ rec' = [rec EXCEPT ![i] = [IdleRec EXCEPT !.pc = "lookup", !.at = at, !.ks = ks]]
            BY <1>4 DEF RecordCall
      <2>2. rec'[i].pc = "lookup" BY <1>0, <2>1 DEF IdleRec
      <2>. QED BY <1>0, <1>2, <2>1, <2>2 DEF HookPcs
<1>5. ASSUME NEW i \in Items, Sampler(i) PROVE CountInv'
      <2>1. CASE HookReturn(i)
            <3>1. hooks' = hooks - 1 /\ rec' = [rec EXCEPT ![i] = IdleRec] /\ i \in InHooks
                  BY <2>1 DEF HookReturn, InHooks, HookPcs
            <3>2. InHooks' = InHooks \ {i} BY <1>0, <1>3, <3>1 DEF InHooks
            <3>3. Cardinality(InHooks \ {i}) = Cardinality(InHooks) - 1
                  BY <3>1, HooksFinite, FS_RemoveElement
            <3>. QED BY <1>0, <3>1, <3>2, <3>3 DEF CountInv
      <2>2. CASE RecordAccepted(i)
            <3>1. rec[i].pc = "record" BY <2>2 DEF RecordAccepted
            <3>2. rec[i].e \in 1..MaxEntries BY <3>1, RecordsTo
            <3>3. PICK y, ks : Accepts(i, y, ks) BY <2>2, <3>2, AcceptedLemma
            <3>4. CASE Joins(i, y) \/ Loses(i, y)
                  BY <1>0, <1>2, <1>3, <3>1, <3>4 DEF Joins, Loses
            <3>5. CASE Commits(i, y)
                  <4>1. hooks' = hooks + 1
                        /\ rec' = [rec EXCEPT ![i].pc = "getHook",
                                              ![i].min = ent[rec[i].e].acc.min,
                                              ![i].by = rec[i].e]
                        BY <3>5 DEF Commits
                  <4>2. rec'[i].pc = "getHook" /\ \A j \in Items \ {i} : rec'[j] = rec[j]
                        BY <1>0, <4>1 DEF Rec
                  <4>3. InHooks' = InHooks \cup {i} /\ i \notin InHooks
                        BY <1>3, <3>1, <4>2 DEF InHooks, HookPcs
                  <4>4. Cardinality(InHooks \cup {i}) = Cardinality(InHooks) + 1
                        BY <4>3, HooksFinite, FS_AddElement
                  <4>. QED BY <1>0, <4>1, <4>3, <4>4 DEF CountInv
            <3>. QED BY <3>3, <3>4, <3>5 DEF Accepts
      <2>3. CASE EntryFails(i)
            BY <1>0, <1>2, <1>3, <2>3 DEF EntryFails, HookPcs
      <2>4. ASSUME NEW pc, NEW e, rec' = [rec EXCEPT ![i].pc = pc, ![i].e = e],
                   (pc \in HookPcs) <=> (rec[i].pc \in HookPcs), hooks' = hooks
            PROVE  CountInv'
            <3>1. rec'[i].pc = pc /\ \A j \in Items \ {i} : rec'[j] = rec[j]
                  BY <1>0, <2>4 DEF Rec
            <3>. QED BY <1>2, <2>4, <3>1
      <2>5. CASE EntryFound(i) \/ EntryRevived(i) \/ EntryCreated(i)
            BY SMTT(30), <2>4, <2>5 DEF EntryFound, EntryRevived, EntryCreated, HookPcs
      <2>6. CASE HookLookup(i) BY <2>4, <2>6 DEF HookLookup, HookPcs
      <2>7. CASE RecordGetHook(i)
            <3>1. rec'[i].pc = "hook" /\ \A j \in Items \ {i} : rec'[j] = rec[j]
                  BY <1>0, <2>7 DEF RecordGetHook, Rec
            <3>. QED BY <1>2, <2>7, <3>1 DEF RecordGetHook, HookPcs
      <2>8. CASE RecordRefused(i)
            <3>1. /\ rec[i].pc = "record" /\ hooks' = hooks
                  /\ rec' = [rec EXCEPT ![i] = [rec[i] EXCEPT !.pc = "lookup"]]
                     \/ rec' = [rec EXCEPT ![i] = IdleRec]
                  BY <2>8 DEF RecordRefused
            <3>2. [rec[i] EXCEPT !.pc = "lookup"].pc = "lookup" BY <1>0 DEF Rec
            <3>3. rec'[i].pc \notin HookPcs /\ \A j \in Items \ {i} : rec'[j] = rec[j]
                  BY <1>0, <1>3, <3>1, <3>2
            <3>. QED BY <1>2, <1>3, <3>1, <3>3
      <2>. QED BY <1>5, <2>1, <2>2, <2>3, <2>5, <2>6, <2>7, <2>8 DEF Sampler
<1>6. CASE UNCHANGED <<rec, hooks>> BY <1>1, <1>6
<1>7. \/ UNCHANGED <<rec, hooks>>
      \/ \E i \in Items : Sampler(i)
      \/ \E i \in Items, at \in Times, ks \in (SUBSET Keys) \ {{}} : RecordCall(i, at, ks)
      BY DEF Next, vars, Forget, SweepCall, Sweeper, SweepCheck, SweepRemove, SweepReturn,
             CloseCall, Closer, CloseEntry, CloseRing, CloseWait, CloseHook, CloseReturn,
             QueryCall, Querier, QueryRead, QueryReturn, Terminated
<1>. QED BY <1>4, <1>5, <1>6, <1>7

LEMMA SharedStep == ASSUME Types, SharedInv, [Next]_vars PROVE SharedInv'
BY MapStep, RecStep, CountStep, SweepStep, CloseStep, RingsStep, QueryStep DEF SharedInv

LEMMA SharedAlways == Spec => [](Types /\ SharedInv)
<1>1. Types /\ SharedInv /\ [Next]_vars => (Types /\ SharedInv)'
      BY TypesStep, SharedStep
<1>. QED BY TypesInit, <1>1, PTL DEF Spec

-----------------------------------------------------------------------------
(* What follows from it.                                                   *)

\* Every variable keeps to its type, the map never points to another item's
\* entry, and the count of the hooks in flight, which Close waits for, never
\* falls below zero.
THEOREM StoreTypes == Spec => []TypeOK
<1>1. ASSUME Types, SharedInv PROVE TypeOK
      <2>1. ASSUME NEW e \in 1..MaxEntries
            PROVE  /\ ent[e].last \in 0..MaxTime /\ ent[e].forgotten \in 0..MaxTime
                   /\ ent[e].acc.ids \subseteq DOMAIN smp
            BY <1>1, EntryFields, IdsBound DEF Types, EntTypes
      <2>2. hooks \in Nat BY <1>1, HooksFinite DEF SharedInv, CountInv
      <2>3. \A i \in Items : rec[i].pc \in RecPcs /\ (items[i] # 0 => ent[items[i]].item = i)
            BY <1>1, RecTyped DEF SharedInv, MapInv
      <2>. QED BY <1>1, <2>1, <2>2, <2>3
           DEF TypeOK, Types, EntTypes, ProcTypes, HistTypes, RecPcs
<1>. QED BY SharedAlways, <1>1, PTL

\* A query that finds the ring it looked up closed answers ErrClosed of a closed
\* store and ErrUnknownItem of an item that was removed, never of another.
THEOREM AnswersRight == Spec => []QueryAnswer
<1>1. ASSUME Types, SharedInv PROVE QueryAnswer
      BY <1>1 DEF SharedInv, QueryInv, QueryAnswer
<1>. QED BY SharedAlways, <1>1, PTL

\* The minute a hook is called for is in a ring that is open, or the item was
\* removed meanwhile; and so it is for the hooks Close has yet to call.
THEOREM HooksSee == Spec => []HookSeesMinute
<1>1. ASSUME Types, SharedInv PROVE HookSeesMinute
      <2>1. ASSUME NEW i \in Items, rec[i].pc = "hookRead", ~ent[rec[i].by].gone
            PROVE  /\ rec[i].e = rec[i].by /\ ~ent[rec[i].by].ringClosed
                   /\ rec[i].min \in DOMAIN ent[rec[i].by].mins
            <3>1. /\ rec[i].by \in 1..nEnt /\ rec[i].min \in DOMAIN ent[rec[i].by].mins
                  /\ cl.pc \notin {"hooks", "done"} /\ rec[i].e = rec[i].by
                  BY <1>1, <2>1 DEF SharedInv, RecInv, Serves, HookPcs
            <3>. QED BY <1>1, <2>1, <3>1 DEF SharedInv, RingsInv
      <2>2. ASSUME NEW p \in cl.done
            PROVE  ~ent[items[p[1]]].ringClosed /\ p[2] \in DOMAIN ent[items[p[1]]].mins
            <3>1. p[1] \in Items BY <1>1 DEF Types, ProcTypes
            <3>2. items[p[1]] # 0 /\ p[2] \in DOMAIN ent[items[p[1]]].mins
                  BY <1>1 DEF SharedInv, CloseInv
            <3>3. items[p[1]] \in 1..nEnt /\ ~ent[items[p[1]]].gone
                  BY <1>1, <3>1, <3>2 DEF Types, EntTypes, SharedInv, MapInv
            <3>. QED BY <1>1, <3>2, <3>3 DEF SharedInv, RingsInv
      <2>. QED BY <2>1, <2>2 DEF HookSeesMinute
<1>. QED BY SharedAlways, <1>1, PTL

-----------------------------------------------------------------------------
(* The samples of an entry.                                                *)

\* The entry holds what it held: whatever else a step does to it.
Holds(e) == /\ ent'[e].keys = ent[e].keys /\ ent'[e].mins = ent[e].mins
            /\ ent'[e].acc = ent[e].acc /\ ent'[e].last = ent[e].last

\* How the series, the minutes and the pending samples of an entry change: with
\* the step that makes it, a sample accepted, and Close.
LEMMA EntryMoves ==
    ASSUME Types, SharedInv, [Next]_vars, NEW e \in 1..nEnt'
    PROVE  \/ e \in 1..nEnt /\ e \in 1..MaxEntries /\ Holds(e)
           \/ \E i \in Items : /\ EntryCreated(i) /\ e = nEnt + 1
                               /\ ent'[e] = NewEntry(i) /\ smp' = smp
           \/ \E i \in Items : \E y, ks : /\ RecordAccepted(i) /\ Accepts(i, y, ks)
                                          /\ rec[i].e = e /\ ent'[e] = y
                                          /\ e \in 1..nEnt /\ e \in 1..MaxEntries
           \/ \E y : /\ Closes(e, y) /\ ent'[e] = y /\ smp' = smp
                     /\ e \in 1..nEnt /\ e \in 1..MaxEntries
<1>. USE BoundsAssumption
<1>0. /\ nEnt \in 0..MaxEntries /\ nEnt' \in 0..MaxEntries /\ e \in 1..MaxEntries
      /\ ent \in [1..MaxEntries -> Entry]
      BY EntTypesStep DEF Types, EntTypes
<1>1. ASSUME nEnt' = nEnt, \A k \in 1..MaxEntries : Holds(k)
      PROVE  e \in 1..nEnt /\ e \in 1..MaxEntries /\ Holds(e)
      BY <1>0, <1>1
<1>2. CASE UNCHANGED vars BY <1>1, <1>2 DEF vars, Holds
<1>3. CASE Outside BY <1>1, <1>3, OutsideFrame DEF Holds
<1>4. ASSUME NEW i \in Items, EntryRevived(i)
      PROVE  nEnt' = nEnt /\ \A k \in 1..MaxEntries : Holds(k)
      <2>1. items[i] # 0 /\ 0 \in 0..MaxTime /\ nEnt' = nEnt
            /\ ent' = [ent EXCEPT ![items[i]].forgotten = 0]
            BY <1>4 DEF EntryRevived, Forgotten
      <2>2. ASSUME NEW k \in 1..MaxEntries PROVE Holds(k)
            BY <2>1, ForgetNow DEF Holds
      <2>. QED BY <2>1, <2>2
<1>5. CASE \E i \in Items : EntryCreated(i)
      <2>1. PICK i \in Items : EntryCreated(i) BY <1>5
      <2>2. nEnt' = nEnt + 1 /\ ent' = [ent EXCEPT ![nEnt + 1] = NewEntry(i)] /\ smp' = smp
            BY <2>1 DEF EntryCreated
      <2>3. CASE e = nEnt + 1 BY <1>0, <2>1, <2>2, <2>3
      <2>4. CASE e # nEnt + 1
            <3>1. e \in 1..nEnt /\ ent'[e] = ent[e] BY <1>0, <2>2, <2>4
            <3>. QED BY <1>0, <3>1 DEF Holds
      <2>. QED BY <2>3, <2>4
<1>6. CASE \E i \in Items : RecordAccepted(i)
      <2>1. PICK i \in Items : RecordAccepted(i) BY <1>6
      <2>2. rec[i].e \in 1..nEnt /\ rec[i].e \in 1..MaxEntries /\ nEnt' = nEnt
            BY <2>1, RecordsTo DEF RecordAccepted
      <2>3. PICK y, ks : Accepts(i, y, ks) BY <2>1, <2>2, AcceptedLemma
      <2>4. ent' = [ent EXCEPT ![rec[i].e] = y] BY <2>3 DEF Accepts
      <2>5. CASE e = rec[i].e BY <1>0, <2>1, <2>2, <2>3, <2>4, <2>5
      <2>6. CASE e # rec[i].e
            <3>1. e \in 1..nEnt /\ ent'[e] = ent[e] BY <1>0, <2>2, <2>4, <2>6
            <3>. QED BY <1>0, <3>1 DEF Holds
      <2>. QED BY <2>5, <2>6
<1>7. ASSUME NEW v, NEW now \in [1..MaxEntries -> Entry], remove(v, now),
             \A k \in 1..MaxEntries :
                 /\ now[k].keys = ent[k].keys /\ now[k].mins = ent[k].mins
                 /\ now[k].acc = ent[k].acc /\ now[k].last = ent[k].last
      PROVE  \A k \in 1..MaxEntries : Holds(k)
      <2>1. \A k \in 1..MaxEntries :
                /\ ent'[k].keys = now[k].keys /\ ent'[k].mins = now[k].mins
                /\ ent'[k].acc = now[k].acc /\ ent'[k].last = now[k].last
            BY <1>7, RemoveLemma
      <2>. QED BY <1>7, <2>1 DEF Holds
<1>8. ASSUME NEW i \in Items, NEW at \in Times, Forget(i, at)
      PROVE  nEnt' = nEnt /\ \A k \in 1..MaxEntries : Holds(k)
      <2>. DEFINE now == [ent EXCEPT ![items[i]].forgotten = at]
      <2>1. items[i] # 0 /\ at \in 0..MaxTime /\ nEnt' = nEnt BY <1>8 DEF Forget, Times
      <2>2. PICK v : remove(v, now) BY <1>8 DEF Forget
      <2>3. /\ now \in [1..MaxEntries -> Entry]
            /\ \A k \in 1..MaxEntries :
                  /\ now[k].keys = ent[k].keys /\ now[k].mins = ent[k].mins
                  /\ now[k].acc = ent[k].acc /\ now[k].last = ent[k].last
            BY <2>1, ForgetNow
      <2>. HIDE DEF now
      <2>. QED BY <1>7, <2>1, <2>2, <2>3
<1>9. CASE SweepRemove BY <1>0, <1>1, <1>7, <1>9 DEF SweepRemove
<1>10. CASE \E k \in 1..MaxEntries : CloseEntry(k)
       <2>1. PICK k \in 1..MaxEntries : CloseEntry(k) BY <1>10
       <2>2. PICK y : Closes(k, y) BY <2>1, CloseEntryLemma
       <2>3. nEnt' = nEnt /\ smp' = smp BY <2>1, CloseEntryLemma
       <2>4. ent' = [ent EXCEPT ![k] = y] BY <2>2 DEF Closes
       <2>5. CASE e = k BY <1>0, <2>2, <2>3, <2>4, <2>5
       <2>6. CASE e # k
             <3>1. e \in 1..nEnt /\ ent'[e] = ent[e] BY <1>0, <2>3, <2>4, <2>6
             <3>. QED BY <1>0, <3>1 DEF Holds
       <2>. QED BY <2>5, <2>6
<1>11. ASSUME NEW j \in 1..MaxEntries, CloseRing(j)
       PROVE  nEnt' = nEnt /\ \A k \in 1..MaxEntries : Holds(k)
       BY <1>0, <1>11 DEF CloseRing, Entry, Holds
<1>. QED BY <1>1, <1>2, <1>3, <1>4, <1>5, <1>6, <1>8, <1>9, <1>10, <1>11, NextCases

\* The keys of samples taken stay what they are.
LEMMA KeysStay ==
    ASSUME Types, SharedInv, [Next]_vars, NEW ids, ids \subseteq DOMAIN smp
    PROVE  UNION {smp'[n].keys : n \in ids} = KeysOf(ids)
BY SamplesStay DEF KeysOf

LEMMA KeysFinite ==
    ASSUME NEW S, S \subseteq Keys
    PROVE  IsFiniteSet(S) /\ Cardinality(S) \in Nat
BY NamesAssumption, FS_Subset, FS_CardinalityType

\* clean: with the keys that pass, an item has no more series than the cap.
LEMMA CleanedLemma ==
    ASSUME NEW known, NEW pending, NEW ks, NEW c \in Cleaned(known, pending, ks),
           known \cup pending \subseteq Keys, ks \subseteq Keys,
           Cardinality(known \cup pending) <= MaxSeries
    PROVE  Cardinality(known \cup pending \cup c) <= MaxSeries
<1>. DEFINE has == known \cup pending
            new == ks \ has
            room == MaxSeries - Cardinality(has)
<1>1. PICK s \in SUBSET new :
          /\ Cardinality(s) = IF room < Cardinality(new) THEN room ELSE Cardinality(new)
          /\ c = (ks \cap has) \cup s
      BY DEF Cleaned
<1>2. known \cup pending \cup c = has \cup s /\ has \cap s = {} BY <1>1
<1>3. /\ IsFiniteSet(has) /\ Cardinality(has) \in Nat
      /\ IsFiniteSet(s) /\ Cardinality(s) \in Nat
      /\ IsFiniteSet(new) /\ Cardinality(new) \in Nat
      BY <1>1, KeysFinite
<1>4. Cardinality(has \cup s) = Cardinality(has) + Cardinality(s)
      BY <1>2, <1>3, FS_Union, FS_EmptySet
<1>5. Cardinality(s) <= room BY <1>1, <1>3, CapsAssumption
<1>6. Cardinality(has \cup s) <= MaxSeries
      <2>. HIDE DEF has
      <2>. QED BY <1>3, <1>4, <1>5, CapsAssumption
<1>. QED BY <1>2, <1>6

\* The series of an entry, in its ring and pending, within the cap.
SeriesInv == \A e \in 1..nEnt : Cardinality(ent[e].keys \cup Pending(e)) <= MaxSeries

LEMMA SeriesStep == ASSUME Types, SharedInv, SeriesInv, [Next]_vars PROVE SeriesInv'
<1>. SUFFICES ASSUME NEW e \in 1..nEnt'
              PROVE  Cardinality(ent'[e].keys \cup
                                 UNION {smp'[n].keys : n \in ent'[e].acc.ids}) <= MaxSeries
     BY DEF SeriesInv, Pending, KeysOf
<1>. DEFINE had == ent[e].keys \cup Pending(e)
<1>1. ASSUME e \in 1..nEnt, e \in 1..MaxEntries
      PROVE  /\ had \subseteq Keys /\ Cardinality(had) <= MaxSeries
             /\ ent[e].keys \subseteq Keys /\ KeysOf(ent[e].acc.ids) \subseteq Keys
             /\ ent[e].acc.ids \subseteq DOMAIN smp
             /\ \A s \in SUBSET had : Cardinality(s) <= MaxSeries
      <2>1. ent[e].keys \subseteq Keys BY <1>1, EntryFields DEF Types, EntTypes
      <2>2. ent[e].acc.ids \subseteq DOMAIN smp BY <1>1, IdsBound
      <2>3. KeysOf(ent[e].acc.ids) \subseteq Keys BY <2>2, KeysTyped
      <2>4. had \subseteq Keys BY <2>1, <2>3 DEF Pending
      <2>5. Cardinality(had) <= MaxSeries BY <1>1 DEF SeriesInv
      <2>6. ASSUME NEW s \in SUBSET had PROVE Cardinality(s) <= MaxSeries
            <3>1. IsFiniteSet(had) /\ Cardinality(had) \in Nat BY <2>4, KeysFinite
            <3>2. Cardinality(s) <= Cardinality(had) BY <3>1, FS_Subset
            <3>3. Cardinality(s) \in Nat BY <2>4, KeysFinite
            <3>. HIDE DEF had
            <3>. QED BY <2>5, <3>1, <3>2, <3>3, CapsAssumption
      <2>. QED BY <2>1, <2>2, <2>3, <2>4, <2>5, <2>6
<1>2. CASE e \in 1..nEnt /\ e \in 1..MaxEntries /\ Holds(e)
      <2>1. UNION {smp'[n].keys : n \in ent[e].acc.ids} = Pending(e)
            BY <1>1, <1>2, KeysStay DEF Pending
      <2>. QED BY <1>1, <1>2, <2>1 DEF Holds
<1>3. CASE \E i \in Items : /\ EntryCreated(i) /\ e = nEnt + 1
                            /\ ent'[e] = NewEntry(i) /\ smp' = smp
      <2>1. ent'[e].keys = {} /\ ent'[e].acc.ids = {}
            BY <1>3, NewEntryLemma, NoAccLemma
      <2>. QED BY <2>1, FS_EmptySet, CapsAssumption
<1>4. CASE \E i \in Items : \E y, ks : /\ RecordAccepted(i) /\ Accepts(i, y, ks)
                                       /\ rec[i].e = e /\ ent'[e] = y
                                       /\ e \in 1..nEnt /\ e \in 1..MaxEntries
      <2>0. PICK i \in Items : \E y, ks : /\ RecordAccepted(i) /\ Accepts(i, y, ks)
                                          /\ rec[i].e = e /\ ent'[e] = y
                                          /\ e \in 1..nEnt /\ e \in 1..MaxEntries
            BY <1>4
      <2>1. PICK y, ks : /\ RecordAccepted(i) /\ Accepts(i, y, ks)
                         /\ rec[i].e = e /\ ent'[e] = y
                         /\ e \in 1..nEnt /\ e \in 1..MaxEntries
            BY <2>0
      <2>. DEFINE kept == KeysOf(Kept(i).ids)
                  id == Len(smp) + 1
                  all == ent[e].keys \cup kept \cup ks
      <2>2. /\ smp' = Append(smp, [item |-> i, at |-> rec[i].at, keys |-> ks])
            /\ ks \in Cleaned(ent[e].keys, kept, rec[i].ks) /\ ks \subseteq Keys
            /\ Joins(i, y) \/ Commits(i, y) \/ Loses(i, y)
            BY <2>1 DEF Accepts
      <2>3. smp'[id].keys = ks BY <2>2 DEF Types, HistTypes
      <2>4. /\ Kept(i).ids \subseteq ent[e].acc.ids /\ Kept(i).ids \subseteq DOMAIN smp
            /\ Rolls(i) => Kept(i) = ent[e].acc
            BY <2>1, KeptLemma
      <2>5. kept \subseteq KeysOf(ent[e].acc.ids) BY <2>4 DEF KeysOf
      <2>6. UNION {smp'[n].keys : n \in Kept(i).ids} = kept BY <2>4, KeysStay
      <2>7. all \subseteq Keys BY <1>1, <2>1, <2>2, <2>5
      <2>8. Cardinality(all) <= MaxSeries
            <3>1. ent[e].keys \cup kept \in SUBSET had BY <2>5 DEF Pending
            <3>2. Cardinality(ent[e].keys \cup kept) <= MaxSeries BY <1>1, <2>1, <3>1
            <3>3. ent[e].keys \cup kept \subseteq Keys /\ rec[i].ks \subseteq Keys
                  BY <1>1, <2>1, <2>5, RecTyped
            <3>. QED BY <2>2, <3>2, <3>3, CleanedLemma
      <2>9. y.keys \cup UNION {smp'[n].keys : n \in y.acc.ids} \subseteq all
            <3>1. CASE Joins(i, y)
                  <4>1. y.keys = ent[e].keys /\ y.acc.ids = Kept(i).ids \cup {id}
                        BY <2>1, <3>1 DEF Joins
                  <4>. QED BY <2>3, <2>6, <4>1
            <3>2. CASE Commits(i, y)
                  <4>1. y.keys = ent[e].keys \cup KeysOf(ent[e].acc.ids) /\ y.acc.ids = {id}
                        /\ Rolls(i)
                        BY <2>1, <3>2 DEF Commits
                  <4>. QED BY <2>3, <2>4, <4>1
            <3>3. CASE Loses(i, y)
                  <4>1. /\ y.keys \subseteq ent[e].keys \cup KeysOf(ent[e].acc.ids)
                        /\ y.acc.ids = {id} /\ Rolls(i)
                        BY <2>1, <3>3 DEF Loses
                  <4>. QED BY <2>3, <2>4, <4>1
            <3>. QED BY <2>2, <3>1, <3>2, <3>3
      <2>. DEFINE got == y.keys \cup UNION {smp'[n].keys : n \in y.acc.ids}
      <2>10. Cardinality(got) <= Cardinality(all)
             <3>. HIDE DEF got, all
             <3>. QED BY <2>7, <2>9, KeysFinite, FS_Subset DEF got
      <2>11. Cardinality(got) \in Nat /\ Cardinality(all) \in Nat
             BY <2>7, <2>9, KeysFinite
      <2>12. Cardinality(got) <= MaxSeries
             <3>. HIDE DEF got, all
             <3>. QED BY <2>8, <2>10, <2>11, CapsAssumption
      <2>. QED BY <2>1, <2>12
<1>5. CASE \E y : /\ Closes(e, y) /\ ent'[e] = y /\ smp' = smp
                  /\ e \in 1..nEnt /\ e \in 1..MaxEntries
      <2>1. PICK y : Closes(e, y) /\ ent'[e] = y /\ e \in 1..nEnt /\ e \in 1..MaxEntries
            BY <1>5
      <2>2. y.acc.ids = {} /\ y.keys \subseteq ent[e].keys \cup KeysOf(ent[e].acc.ids)
            BY <2>1, NoAccLemma DEF Closes
      <2>3. y.keys \in SUBSET had BY <2>2 DEF Pending
      <2>4. y.keys \cup UNION {smp'[n].keys : n \in y.acc.ids} = y.keys BY <2>2
      <2>. QED BY <1>1, <2>1, <2>3, <2>4
<1>. QED BY <1>2, <1>3, <1>4, <1>5, EntryMoves

\* clean leaves room: the series in the ring and those pending never exceed the
\* cap, so the addSeries of a commit cannot refuse a key Record let through.
THEOREM SeriesWithinCap == Spec => []SeriesCap
<1>1. ASSUME Init PROVE SeriesInv
      <2>. SUFFICES ASSUME NEW e \in 1..nEnt
                    PROVE  Cardinality(ent[e].keys \cup Pending(e)) <= MaxSeries
           BY DEF SeriesInv
      <2>1. e \in 1..MaxEntries BY <1>1, TypesInit, BoundsAssumption DEF Types, EntTypes
      <2>2. ent[e].keys = {} /\ ent[e].acc.ids = {}
            BY <1>1, <2>1, TypesInit, NoAccLemma DEF Fresh
      <2>. QED BY <2>2, FS_EmptySet, CapsAssumption DEF Pending, KeysOf
<1>2. SeriesInv /\ Types /\ SharedInv /\ [Next]_vars => SeriesInv'
      BY SeriesStep
<1>3. SeriesInv => SeriesCap BY DEF SeriesInv, SeriesCap
<1>. QED BY SharedAlways, TypesInit, <1>1, <1>2, <1>3, PTL DEF Spec

LEMMA MinuteMonotone ==
    ASSUME NEW a \in Nat, NEW b \in Nat, a <= b
    PROVE  Minute(a) \in Int /\ Minute(b) \in Int /\ Minute(a) <= Minute(b)
<1>1. TPM \in Nat /\ TPM > 0 BY CapsAssumption
<1>2. PICK q : q = TPM OBVIOUS
<1>3. q \in Nat /\ q > 0 BY <1>1, <1>2
<1>4. (a \div q) \in Int /\ (b \div q) \in Int /\ (a \div q) <= (b \div q)
      BY <1>3, SMTT(60)
<1>. QED BY <1>2, <1>4 DEF Minute

\* A minute of the ring, or pending, holds samples of that minute; the pending
\* one is the minute of the last sample.
MinuteInv ==
    \A e \in 1..nEnt :
        /\ \A m \in DOMAIN ent[e].mins : \A n \in ent[e].mins[m] : Minute(smp[n].at) = m
        /\ \A n \in ent[e].acc.ids : Minute(smp[n].at) = ent[e].acc.min
        /\ ent[e].acc # NoAcc => ent[e].acc.min = Minute(ent[e].last)

LEMMA MinuteStep == ASSUME Types, SharedInv, MinuteInv, [Next]_vars PROVE MinuteInv'
<1>. SUFFICES ASSUME NEW e \in 1..nEnt'
              PROVE  LET x == ent'[e]
                     IN  /\ \A m \in DOMAIN x.mins : \A n \in x.mins[m] :
                                Minute(smp'[n].at) = m
                         /\ \A n \in x.acc.ids : Minute(smp'[n].at) = x.acc.min
                         /\ x.acc # NoAcc => x.acc.min = Minute(x.last)
     BY DEF MinuteInv, Minute
<1>1. ASSUME e \in 1..nEnt, e \in 1..MaxEntries
      PROVE  /\ \A m \in DOMAIN ent[e].mins : \A n \in ent[e].mins[m] :
                    Minute(smp'[n].at) = m
             /\ \A n \in ent[e].acc.ids : Minute(smp'[n].at) = ent[e].acc.min
             /\ ent[e].acc # NoAcc => ent[e].acc.min = Minute(ent[e].last)
      <2>1. /\ ent[e].acc.ids \subseteq DOMAIN smp
            /\ \A m \in DOMAIN ent[e].mins : ent[e].mins[m] \subseteq DOMAIN smp
            BY <1>1, IdsBound
      <2>2. \A n \in DOMAIN smp : smp'[n] = smp[n] BY SamplesStay
      <2>. QED BY <1>1, <2>1, <2>2 DEF MinuteInv
<1>2. CASE e \in 1..nEnt /\ e \in 1..MaxEntries /\ Holds(e)
      BY <1>1, <1>2 DEF Holds
<1>3. CASE \E i \in Items : /\ EntryCreated(i) /\ e = nEnt + 1
                            /\ ent'[e] = NewEntry(i) /\ smp' = smp
      BY <1>3, NewEntryLemma, NoAccLemma
<1>4. CASE \E i \in Items : \E y, ks : /\ RecordAccepted(i) /\ Accepts(i, y, ks)
                                       /\ rec[i].e = e /\ ent'[e] = y
                                       /\ e \in 1..nEnt /\ e \in 1..MaxEntries
      <2>0. PICK i \in Items : \E y, ks : /\ RecordAccepted(i) /\ Accepts(i, y, ks)
                                          /\ rec[i].e = e /\ ent'[e] = y
                                          /\ e \in 1..nEnt /\ e \in 1..MaxEntries
            BY <1>4
      <2>1. PICK y, ks : /\ RecordAccepted(i) /\ Accepts(i, y, ks)
                         /\ rec[i].e = e /\ ent'[e] = y
                         /\ e \in 1..nEnt /\ e \in 1..MaxEntries
            BY <2>0
      <2>. DEFINE id == Len(smp) + 1
                  x == ent[e]
      <2>2. /\ smp' = Append(smp, [item |-> i, at |-> rec[i].at, keys |-> ks])
            /\ Joins(i, y) \/ Commits(i, y) \/ Loses(i, y)
            /\ y.last = rec[i].at
            BY <2>1 DEF Accepts
      <2>3. smp'[id].at = rec[i].at BY <2>2 DEF Types, HistTypes
      <2>4. /\ x.acc \in Acc /\ x.last \in 0..MaxTime /\ rec[i].at \in 0..MaxTime
            /\ x.acc.min \in Int /\ Minute(rec[i].at) \in Int
            <3>1. x \in Entry BY <2>1 DEF Types, EntTypes
            <3>2. rec[i].at \in 0..MaxTime BY RecTyped
            <3>3. Minute(rec[i].at) \in Int BY <3>2, BoundsAssumption, MinuteMonotone
            <3>. QED BY <3>1, <3>2, <3>3, EntryFields
      <2>5. CASE Joins(i, y)
            <3>1. /\ ~Rolls(i) /\ y.mins = x.mins
                  /\ y.acc = [min |-> IF Kept(i) = NoAcc THEN Minute(rec[i].at)
                                      ELSE Kept(i).min,
                              ids |-> Kept(i).ids \cup {id}]
                  BY <2>1, <2>5 DEF Joins
            <3>2. CASE Kept(i) = NoAcc
                  <4>1. y.acc.min = Minute(rec[i].at) /\ y.acc.ids = {id}
                        BY <3>1, <3>2, NoAccLemma
                  <4>2. \A m \in DOMAIN y.mins : \A n \in y.mins[m] : Minute(smp'[n].at) = m
                        BY <1>1, <2>1, <3>1
                  <4>. QED BY <2>1, <2>2, <2>3, <4>1, <4>2
            <3>3. CASE Kept(i) # NoAcc
                  <4>1. Kept(i) = x.acc /\ ~(rec[i].at < x.last)
                        BY <2>1, <3>3, KeptLemma
                  <4>2. x.acc.min = Minute(x.last) BY <1>1, <2>1, <3>3, <4>1
                  <4>3. Minute(x.last) <= Minute(rec[i].at)
                        <5>1. x.last \in Nat /\ rec[i].at \in Nat /\ x.last <= rec[i].at
                              BY <2>4, <4>1, BoundsAssumption
                        <5>. QED BY <5>1, MinuteMonotone
                  <4>4. ~(Minute(rec[i].at) > x.acc.min) BY <3>1, <3>3, <4>1 DEF Rolls
                  <4>5. x.acc.min = Minute(rec[i].at) BY <2>4, <4>2, <4>3, <4>4
                  <4>6. y.acc.min = Minute(rec[i].at) /\ y.acc.ids = x.acc.ids \cup {id}
                        BY <3>1, <3>3, <4>1, <4>5
                  <4>7. \A m \in DOMAIN y.mins : \A n \in y.mins[m] : Minute(smp'[n].at) = m
                        BY <1>1, <2>1, <3>1
                  <4>8. \A n \in x.acc.ids : Minute(smp'[n].at) = Minute(rec[i].at)
                        BY <1>1, <2>1, <4>5
                  <4>. QED BY ZenonT(40), <2>1, <2>2, <2>3, <4>6, <4>7, <4>8
            <3>. QED BY <3>2, <3>3
      <2>6. CASE Commits(i, y)
            <3>1. /\ DOMAIN y.mins = DOMAIN x.mins \cup {x.acc.min}
                  /\ \A m \in DOMAIN y.mins :
                         y.mins[m] = IF m = x.acc.min THEN x.acc.ids ELSE x.mins[m]
                  /\ y.acc = [min |-> Minute(rec[i].at), ids |-> {id}]
                  BY <2>1, <2>6 DEF Commits
            <3>2. \A m \in DOMAIN y.mins : \A n \in y.mins[m] : Minute(smp'[n].at) = m
                  BY <1>1, <2>1, <3>1
            <3>3. y.acc.min = Minute(rec[i].at) /\ y.acc.ids = {id} BY <3>1
            <3>. QED BY <2>1, <2>2, <2>3, <3>2, <3>3
      <2>7. CASE Loses(i, y)
            <3>1. /\ y.mins = x.mins /\ y.acc = [min |-> Minute(rec[i].at), ids |-> {id}]
                  BY <2>1, <2>7 DEF Loses
            <3>2. y.acc.min = Minute(rec[i].at) /\ y.acc.ids = {id} BY <3>1
            <3>3. \A m \in DOMAIN y.mins : \A n \in y.mins[m] : Minute(smp'[n].at) = m
                  BY <1>1, <2>1, <3>1
            <3>. QED BY <2>1, <2>2, <2>3, <3>2, <3>3
      <2>. QED BY <2>2, <2>5, <2>6, <2>7
<1>5. CASE \E y : /\ Closes(e, y) /\ ent'[e] = y /\ smp' = smp
                  /\ e \in 1..nEnt /\ e \in 1..MaxEntries
      <2>1. PICK y : Closes(e, y) /\ ent'[e] = y /\ e \in 1..nEnt /\ e \in 1..MaxEntries
            BY <1>5
      <2>2. y.acc = NoAcc /\ y.acc.ids = {} BY <2>1, NoAccLemma DEF Closes
      <2>3. \/ y.mins = ent[e].mins
            \/ /\ DOMAIN y.mins = DOMAIN ent[e].mins \cup {ent[e].acc.min}
               /\ \A m \in DOMAIN y.mins :
                      y.mins[m] = IF m = ent[e].acc.min THEN ent[e].acc.ids
                                  ELSE ent[e].mins[m]
            BY <2>1 DEF Closes
      <2>4. \A m \in DOMAIN y.mins : \A n \in y.mins[m] : Minute(smp'[n].at) = m
            BY <1>1, <2>1, <2>3
      <2>. QED BY <2>1, <2>2, <2>4
<1>. QED BY <1>2, <1>3, <1>4, <1>5, EntryMoves

\* A minute of the ring, or pending, aggregates samples of that minute only,
\* however the clock is set back between them.
THEOREM MinutesPure == Spec => []MinuteOfSamples
<1>1. ASSUME Init PROVE MinuteInv
      <2>. SUFFICES ASSUME NEW e \in 1..nEnt
                    PROVE  DOMAIN ent[e].mins = {} /\ ent[e].acc = NoAcc
           BY NoAccLemma DEF MinuteInv
      <2>1. e \in 1..MaxEntries BY <1>1, TypesInit, BoundsAssumption DEF Types, EntTypes
      <2>. QED BY <1>1, <2>1, TypesInit DEF Fresh
<1>2. MinuteInv /\ Types /\ SharedInv /\ [Next]_vars => MinuteInv'
      BY MinuteStep
<1>3. MinuteInv => MinuteOfSamples BY DEF MinuteInv, MinuteOfSamples
<1>. QED BY SharedAlways, <1>1, <1>2, <1>3, PTL DEF Spec

\* What is given up stays given up, and an item that is removed gives up what
\* its entry holds.
LEMMA Drops ==
    ASSUME Types, SharedInv, [Next]_vars
    PROVE  /\ dropped \subseteq dropped'
           /\ \A i \in Items : items[i] # 0 /\ items'[i] = 0 => IdsOf(items[i]) \subseteq dropped'
<1>0. items \in [Items -> 0..nEnt] BY DEF Types, EntTypes
<1>. DEFINE Gives == /\ dropped \subseteq dropped'
                     /\ \A i \in Items : items[i] # 0 /\ items'[i] = 0 =>
                            IdsOf(items[i]) \subseteq dropped'
<1>1. ASSUME items' = items, dropped \subseteq dropped' PROVE Gives BY <1>1
<1>2. CASE UNCHANGED vars BY <1>1, <1>2 DEF vars
<1>3. CASE Outside BY <1>1, <1>3, OutsideFrame
<1>4. ASSUME NEW i \in Items, EntryRevived(i) PROVE Gives
      BY <1>1, <1>4 DEF EntryRevived
<1>5. ASSUME NEW i \in Items, EntryCreated(i) PROVE Gives
      BY <1>0, <1>5 DEF EntryCreated
<1>6. ASSUME NEW i \in Items, RecordAccepted(i) PROVE Gives
      <2>1. rec[i].e \in 1..MaxEntries /\ items' = items
            BY <1>6, RecordsTo DEF RecordAccepted
      <2>2. PICK y, ks : Accepts(i, y, ks) BY <1>6, <2>1, AcceptedLemma
      <2>3. dropped \subseteq dropped' BY <2>2 DEF Accepts, Joins, Commits, Loses
      <2>. QED BY <1>1, <2>1, <2>3
<1>7. ASSUME NEW v, NEW now, remove(v, now) PROVE Gives
      <2>1. /\ items' = [i \in Items |-> IF i \in v THEN 0 ELSE items[i]]
            /\ dropped' = dropped \cup UNION {IdsOf(items[i]) : i \in v}
            BY <1>7 DEF remove
      <2>. QED BY <1>0, <2>1
<1>8. ASSUME NEW i \in Items, NEW at \in Times, Forget(i, at) PROVE Gives
      BY <1>7, <1>8 DEF Forget
<1>9. CASE SweepRemove BY <1>7, <1>9 DEF SweepRemove
<1>10. ASSUME NEW e \in 1..MaxEntries, CloseEntry(e) PROVE Gives
       <2>1. PICK y : Closes(e, y) BY <1>10, CloseEntryLemma
       <2>2. items' = items BY <1>10, CloseEntryLemma
       <2>3. dropped \subseteq dropped' BY <2>1 DEF Closes
       <2>. QED BY <1>1, <2>2, <2>3
<1>11. ASSUME NEW e \in 1..MaxEntries, CloseRing(e) PROVE Gives
       BY <1>1, <1>11 DEF CloseRing
<1>. QED BY <1>2, <1>3, <1>4, <1>5, <1>6, <1>8, <1>9, <1>10, <1>11, NextCases

\* A step takes a sample out of an entry only to give it up.
LEMMA IdsKept ==
    ASSUME Types, SharedInv, [Next]_vars, NEW e \in 1..nEnt,
           NEW n \in IdsOf(e), n \notin dropped'
    PROVE  n \in ent'[e].acc.ids \cup UNION {ent'[e].mins[m] : m \in DOMAIN ent'[e].mins}
<1>. DEFINE x == ent[e]
<1>1. n \in x.acc.ids \/ \E m \in DOMAIN x.mins : n \in x.mins[m] BY DEF IdsOf
<1>2. e \in 1..nEnt' /\ nEnt \in Nat BY EntriesGrow
<1>3. CASE Holds(e) BY <1>1, <1>3 DEF Holds
<1>4. CASE \E i \in Items : EntryCreated(i) /\ e = nEnt + 1
      BY <1>2, <1>4
<1>5. ASSUME NEW y, DOMAIN y.mins = DOMAIN x.mins \cup {x.acc.min},
             \A m \in DOMAIN y.mins :
                 y.mins[m] = IF m = x.acc.min THEN x.acc.ids ELSE x.mins[m],
             Overwritten(x) \subseteq dropped'
      PROVE  \E m \in DOMAIN y.mins : n \in y.mins[m]
      <2>1. CASE n \in x.acc.ids BY <1>5, <2>1
      <2>2. ASSUME NEW m \in DOMAIN x.mins, n \in x.mins[m]
            PROVE  \E k \in DOMAIN y.mins : n \in y.mins[k]
            <3>1. CASE m = x.acc.min BY <1>5, <2>2, <3>1 DEF Overwritten
            <3>2. CASE m # x.acc.min BY <1>5, <2>2, <3>2
            <3>. QED BY <3>1, <3>2
      <2>. QED BY <1>1, <2>1, <2>2
<1>6. CASE \E i \in Items : \E y, ks : /\ RecordAccepted(i) /\ Accepts(i, y, ks)
                                       /\ rec[i].e = e /\ ent'[e] = y /\ e \in 1..MaxEntries
      <2>0. PICK i \in Items : \E y, ks : /\ Accepts(i, y, ks) /\ rec[i].e = e
                                          /\ ent'[e] = y /\ e \in 1..MaxEntries
            BY <1>6
      <2>1. PICK y, ks : /\ Accepts(i, y, ks) /\ rec[i].e = e
                         /\ ent'[e] = y /\ e \in 1..MaxEntries
            BY <2>0
      <2>2. CASE Joins(i, y)
            <3>1. /\ y.mins = x.mins
                  /\ y.acc.ids = Kept(i).ids \cup {Len(smp) + 1}
                  /\ dropped' = dropped \cup (IF rec[i].at < x.last THEN x.acc.ids ELSE {})
                  BY <2>1, <2>2 DEF Joins
            <3>2. Kept(i) = IF rec[i].at < x.last THEN NoAcc ELSE x.acc
                  BY <2>1, KeptLemma
            <3>. QED BY <1>1, <2>1, <3>1, <3>2
      <2>3. CASE Commits(i, y)
            <3>1. /\ DOMAIN y.mins = DOMAIN x.mins \cup {x.acc.min}
                  /\ \A m \in DOMAIN y.mins :
                         y.mins[m] = IF m = x.acc.min THEN x.acc.ids ELSE x.mins[m]
                  /\ Overwritten(x) \subseteq dropped'
                  BY <2>1, <2>3 DEF Commits
            <3>. QED BY <1>5, <2>1, <3>1
      <2>4. CASE Loses(i, y)
            <3>1. y.mins = x.mins /\ x.acc.ids \subseteq dropped'
                  BY <2>1, <2>4 DEF Loses
            <3>. QED BY <1>1, <2>1, <3>1
      <2>. QED BY <2>1, <2>2, <2>3, <2>4 DEF Accepts
<1>7. CASE \E y : Closes(e, y) /\ ent'[e] = y
      <2>1. PICK y : Closes(e, y) /\ ent'[e] = y BY <1>7
      <2>2. \/ x.acc = NoAcc /\ y.mins = x.mins
            \/ /\ DOMAIN y.mins = DOMAIN x.mins \cup {x.acc.min}
               /\ \A m \in DOMAIN y.mins :
                      y.mins[m] = IF m = x.acc.min THEN x.acc.ids ELSE x.mins[m]
               /\ Overwritten(x) \subseteq dropped'
            \/ y.mins = x.mins /\ x.acc.ids \subseteq dropped'
            BY <2>1 DEF Closes
      <2>. QED BY <1>1, <1>5, <2>1, <2>2, NoAccLemma
<1>. QED BY <1>2, <1>3, <1>4, <1>6, <1>7, EntryMoves

\* An accepted sample is in the entry the map holds for its item, pending or in
\* a minute, unless it was given up for one of the documented reasons.
THEOREM SamplesKept == Spec => []AcceptedKept
<1>1. Init => AcceptedKept BY DEF Init, AcceptedKept
<1>2. ASSUME Types, SharedInv, AcceptedKept, [Next]_vars PROVE AcceptedKept'
      <2>. USE <1>2
      <2>0. items \in [Items -> 0..nEnt] /\ nEnt \in Nat
            BY EntriesGrow DEF Types, EntTypes
      <2>. SUFFICES ASSUME NEW n \in (DOMAIN smp') \ dropped'
                    PROVE  LET e == items'[smp'[n].item]
                           IN  /\ e # 0
                               /\ n \in ent'[e].acc.ids \cup
                                        UNION {ent'[e].mins[m] : m \in DOMAIN ent'[e].mins}
           BY DEF AcceptedKept, IdsOf
      <2>1. CASE n \in DOMAIN smp
            <3>1. PICK i : i = smp[n].item OBVIOUS
            <3>2. smp'[n].item = i /\ i \in Items
                  <4>1. smp[n] \in Sample BY <2>1 DEF Types, HistTypes
                  <4>. QED BY <2>1, <3>1, <4>1, SamplesStay DEF Sample
            <3>3. n \notin dropped BY Drops
            <3>4. items[i] # 0 /\ n \in IdsOf(items[i])
                  BY <2>1, <3>1, <3>3 DEF AcceptedKept
            <3>5. items'[i] = items[i] BY <3>2, <3>4, Drops, MapMoves
            <3>6. PICK e : e = items[i] OBVIOUS
            <3>7. e \in 1..nEnt BY <2>0, <3>2, <3>4, <3>6
            <3>8. n \in ent'[e].acc.ids \cup UNION {ent'[e].mins[m] : m \in DOMAIN ent'[e].mins}
                  BY <3>4, <3>6, <3>7, IdsKept
            <3>. QED BY <3>2, <3>4, <3>5, <3>6, <3>8
      <2>2. CASE n \notin DOMAIN smp
            <3>1. PICK i \in Items : RecordAccepted(i)
                  BY <2>2, NextCases, OutsideFrame, CloseEntryLemma
                  DEF vars, EntryRevived, EntryCreated, Forget, SweepRemove, CloseRing
            <3>2. /\ rec[i].pc = "record" /\ ~ent[rec[i].e].gone /\ items' = items
                  BY <3>1 DEF RecordAccepted
            <3>3. rec[i].e \in 1..nEnt /\ rec[i].e \in 1..MaxEntries /\ items[i] = rec[i].e
                  BY <3>2, RecordsTo
            <3>4. PICK y, ks : Accepts(i, y, ks) BY <3>1, <3>3, AcceptedLemma
            <3>5. /\ smp' = Append(smp, [item |-> i, at |-> rec[i].at, keys |-> ks])
                  /\ ent' = [ent EXCEPT ![rec[i].e] = y]
                  BY <3>4 DEF Accepts
            <3>6. n = Len(smp) + 1 /\ smp'[n].item = i
                  BY SMTT(30), <2>2, <3>5 DEF Types, HistTypes
            <3>7. n \in y.acc.ids
                  <4>1. CASE Joins(i, y) BY <3>6, <4>1 DEF Joins
                  <4>2. CASE Commits(i, y) BY <3>6, <4>2 DEF Commits
                  <4>3. CASE Loses(i, y) BY <3>6, <4>3 DEF Loses
                  <4>. QED BY <3>4, <4>1, <4>2, <4>3 DEF Accepts
            <3>8. ent'[rec[i].e] = y BY <3>3, <3>5 DEF Types, EntTypes
            <3>. QED BY <3>2, <3>3, <3>6, <3>7, <3>8
      <2>. QED BY <2>1, <2>2
<1>. QED BY SharedAlways, <1>1, <1>2, PTL DEF Spec

-----------------------------------------------------------------------------
(* Files refused at Open.                                                  *)

FileInv == /\ file \in [Items -> {"none", "ring", "corrupt", "unreadable"}]
           /\ \A i \in Items : file[i] = "unreadable" => i \in refused /\ items[i] = 0

\* A ring file that could not be read at Open is never replaced or deleted,
\* whatever is recorded, forgotten, swept or closed.
THEOREM RefusedStay == Spec => RefusedKept
<1>1. Init => FileInv
      <2>. SUFFICES ASSUME Init PROVE FileInv
           OBVIOUS
      <2>1. PICK d \in [Items -> Disks] :
                \E moved \in SUBSET {i \in Items : d[i] = "corrupt"} :
                LET all == {i \in Items : d[i] = "ring"}
                IN  \E id \in [Items -> 0..Cardinality(all)] :
                      /\ \A i \in Items : id[i] # 0 <=> i \in all
                      /\ \A i, j \in all : id[i] = id[j] => i = j
                      /\ Cardinality(all) <= MaxItems
                      /\ items = id
                      /\ nEnt = Cardinality(all)
                      /\ ent = [e \in 1..MaxEntries |->
                                   IF e > Cardinality(all) THEN NoEntry
                                   ELSE NewEntry(CHOOSE i \in all : id[i] = e)]
                      /\ file = [i \in Items |-> IF i \in moved THEN "none" ELSE d[i]]
                      /\ refused = {i \in Items : d[i] = "unreadable"}
            BY DEF Init
      <2>. DEFINE all == {i \in Items : d[i] = "ring"}
      <2>2. PICK moved \in SUBSET {i \in Items : d[i] = "corrupt"},
                 id \in [Items -> 0..Cardinality(all)] :
                /\ \A i \in Items : id[i] # 0 <=> i \in all
                /\ items = id
                /\ file = [i \in Items |-> IF i \in moved THEN "none" ELSE d[i]]
                /\ refused = {i \in Items : d[i] = "unreadable"}
            BY <2>1
      <2>3. \A i \in Items : d[i] \in {"none", "ring", "corrupt", "unreadable"}
            BY DisksAssumption
      <2>. QED BY <2>2, <2>3 DEF FileInv
<1>2. ASSUME Types, SharedInv, FileInv, [Next]_vars
      PROVE  FileInv' /\ \A i \in Items : file[i] = "unreadable" => file'[i] = "unreadable"
      <2>. USE <1>2
      <2>. DEFINE Safe == /\ file' \in [Items -> {"none", "ring", "corrupt", "unreadable"}]
                          /\ \A i \in Items : file'[i] = "unreadable" =>
                                                 i \in refused' /\ items'[i] = 0
                          /\ \A i \in Items : file[i] = "unreadable" =>
                                                 file'[i] = "unreadable"
      <2>1. ASSUME UNCHANGED <<file, items, refused>> PROVE Safe
            BY <2>1 DEF FileInv
      <2>2. refused' = refused
            <3>1. CASE UNCHANGED vars BY <3>1 DEF vars
            <3>2. CASE Outside BY <3>2, OutsideFrame
            <3>3. ASSUME NEW i \in Items, Sampler(i) PROVE refused' = refused
                  BY <3>3, SamplerFrame
            <3>4. ASSUME NEW e \in 1..MaxEntries, CloseEntry(e) \/ CloseRing(e)
                  PROVE  refused' = refused
                  BY <3>4 DEF CloseEntry, CloseRing
            <3>5. CASE SweepRemove \/ \E i \in Items, at \in Times : Forget(i, at)
                  BY <3>5 DEF Forget, SweepRemove
            <3>6. ASSUME NEW i \in Items,
                         EntryRevived(i) \/ EntryCreated(i) \/ RecordAccepted(i)
                  PROVE  refused' = refused
                  BY <3>3, <3>6 DEF Sampler
            <3>. QED BY <3>1, <3>2, <3>4, <3>5, <3>6, NextCases
      <2>. SUFFICES Safe BY DEF FileInv
      <2>. HIDE DEF Safe
      <2>3. CASE UNCHANGED vars BY <2>1, <2>3 DEF vars
      <2>4. CASE Outside BY <2>1, <2>4, OutsideFrame
      <2>5. ASSUME NEW i \in Items, EntryRevived(i) \/ RecordAccepted(i) PROVE Safe
            <3>1. CASE EntryRevived(i) BY <2>1, <3>1 DEF EntryRevived
            <3>2. CASE RecordAccepted(i)
                  <4>1. UNCHANGED <<file, items, refused>> BY <3>2 DEF RecordAccepted
                  <4>. QED BY <2>1, <4>1
            <3>. QED BY <2>5, <3>1, <3>2
      <2>6. ASSUME NEW i \in Items, EntryCreated(i) PROVE Safe
            <3>1. /\ file' = [file EXCEPT ![i] = "ring"] /\ i \notin refused
                  /\ items' = [items EXCEPT ![i] = nEnt + 1]
                  BY <2>6 DEF EntryCreated
            <3>2. file[i] # "unreadable" BY <3>1 DEF FileInv
            <3>. QED BY <2>2, <3>1, <3>2 DEF Safe, FileInv, Types, EntTypes
      <2>7. ASSUME NEW v, \A i \in v : items[i] # 0, NEW now, remove(v, now) PROVE Safe
            <3>1. /\ items' = [i \in Items |-> IF i \in v THEN 0 ELSE items[i]]
                  /\ \E kept \in SUBSET v :
                         file' = [i \in Items |-> IF i \in v \ kept THEN "none" ELSE file[i]]
                  BY <2>7 DEF remove
            <3>. QED BY <2>2, <2>7, <3>1 DEF Safe, FileInv
      <2>8. ASSUME NEW i \in Items, NEW at \in Times, Forget(i, at) PROVE Safe
            <3>. DEFINE now == [ent EXCEPT ![items[i]].forgotten = at]
            <3>1. PICK v \in Oldest(Forgotten \cup {i}, now) : remove(v, now)
                  BY <2>8 DEF Forget
            <3>2. items[i] # 0 BY <2>8 DEF Forget
            <3>3. \A j \in v : items[j] # 0 BY <3>1, <3>2 DEF Oldest, Forgotten
            <3>. QED BY <2>7, <3>1, <3>3
      <2>9. CASE SweepRemove
            <3>1. \A i \in {sw.item} : items[i] # 0
                  BY <2>9 DEF SweepRemove, SharedInv, SweepInv
            <3>2. remove({sw.item}, ent) BY <2>9 DEF SweepRemove
            <3>. QED BY <2>7, <3>1, <3>2
      <2>10. ASSUME NEW e \in 1..MaxEntries, CloseEntry(e) \/ CloseRing(e) PROVE Safe
             BY <2>1, <2>10 DEF CloseEntry, CloseRing
      <2>. QED BY <2>3, <2>4, <2>5, <2>6, <2>8, <2>9, <2>10, NextCases
<1>3. ASSUME Types, SharedInv, FileInv, [Next]_vars
      PROVE  [\A i \in Items : file[i] = "unreadable" => file'[i] = "unreadable"]_vars
      BY <1>2, <1>3
<1>. QED BY SharedAlways, <1>1, <1>2, <1>3, PTL DEF Spec, RefusedKept

-----------------------------------------------------------------------------
(* The caps on items.                                                      *)

LEMMA ItemsFinite ==
    ASSUME NEW S, S \subseteq Items
    PROVE  IsFiniteSet(S) /\ Cardinality(S) \in Nat
BY NamesAssumption, FS_Subset, FS_CardinalityType

LEMMA ItemsSmaller ==
    ASSUME NEW S, NEW T, S \subseteq T, T \subseteq Items
    PROVE  Cardinality(S) <= Cardinality(T)
BY ItemsFinite, FS_Subset

\* One more item stays within a cap that was not reached.
LEMMA ItemsOneMore ==
    ASSUME NEW S, NEW T, NEW i \in Items, NEW n \in Nat, T \subseteq Items,
           S \subseteq T \cup {i}, Cardinality(T) < n
    PROVE  Cardinality(S) <= n
<1>1. IsFiniteSet(T) /\ Cardinality(T) \in Nat BY ItemsFinite
<1>2. Cardinality(T \cup {i}) <= Cardinality(T) + 1
      <2>1. Cardinality(T \cup {i}) =
                IF i \in T THEN Cardinality(T) ELSE Cardinality(T) + 1
            BY <1>1, FS_AddElement
      <2>. QED BY <1>1, <2>1
<1>3. Cardinality(S) <= Cardinality(T \cup {i}) BY ItemsSmaller
<1>4. Cardinality(S) \in Nat /\ Cardinality(T \cup {i}) \in Nat
      <2>1. S \subseteq Items /\ T \cup {i} \subseteq Items OBVIOUS
      <2>. QED BY <2>1, ItemsFinite
<1>. QED BY <1>1, <1>2, <1>3, <1>4

\* enforceForgotten: without the oldest of them, those forgotten fit.
LEMMA OldestLemma ==
    ASSUME NEW old, NEW now, old \subseteq Items, NEW v \in Oldest(old, now)
    PROVE  v \subseteq old /\ Cardinality(old \ v) <= MaxForgotten
<1>1. /\ v \subseteq old
      /\ Cardinality(v) = IF Cardinality(old) > MaxForgotten
                             THEN Cardinality(old) - MaxForgotten ELSE 0
      BY DEF Oldest
<1>2. IsFiniteSet(old) /\ Cardinality(old) \in Nat BY ItemsFinite
<1>3. old \cap v = v BY <1>1
<1>4. Cardinality(old \ v) = Cardinality(old) - Cardinality(v)
      BY <1>2, <1>3, FS_Difference
<1>. QED BY <1>1, <1>2, <1>4, CapsAssumption

\* The items that count against each cap, in the state after a step.
LiveNext      == {i \in Items : items'[i] # 0 /\ ent'[items'[i]].forgotten = 0}
ForgottenNext == {i \in Items : items'[i] # 0 /\ ent'[items'[i]].forgotten # 0}

LEMMA CapsStep == ASSUME Types, SharedInv, ItemCaps, [Next]_vars PROVE ItemCaps'
<1>. SUFFICES /\ Cardinality(LiveNext) <= MaxItems
              /\ Cardinality(ForgottenNext) <= MaxForgotten
     BY DEF ItemCaps, Live, Forgotten, LiveNext, ForgottenNext
<1>0. /\ nEnt \in 0..MaxEntries /\ ent \in [1..MaxEntries -> Entry]
      /\ items \in [Items -> 0..nEnt] /\ MaxEntries \in Nat
      /\ Live \subseteq Items /\ Forgotten \subseteq Items
      /\ LiveNext \subseteq Items /\ ForgottenNext \subseteq Items
      /\ MaxItems \in Nat /\ MaxForgotten \in Nat
      BY BoundsAssumption, CapsAssumption
      DEF Types, EntTypes, Live, Forgotten, LiveNext, ForgottenNext
<1>1. Cardinality(Live) <= MaxItems /\ Cardinality(Forgotten) <= MaxForgotten
      BY DEF ItemCaps
<1>2. ASSUME LiveNext \subseteq Live PROVE Cardinality(LiveNext) <= MaxItems
      <2>1. /\ Cardinality(LiveNext) <= Cardinality(Live)
            /\ Cardinality(LiveNext) \in Nat /\ Cardinality(Live) \in Nat
            BY <1>0, <1>2, ItemsSmaller, ItemsFinite
      <2>. QED BY <1>0, <1>1, <2>1
<1>3. ASSUME ForgottenNext \subseteq Forgotten PROVE Cardinality(ForgottenNext) <= MaxForgotten
      <2>1. /\ Cardinality(ForgottenNext) <= Cardinality(Forgotten)
            /\ Cardinality(ForgottenNext) \in Nat /\ Cardinality(Forgotten) \in Nat
            BY <1>0, <1>3, ItemsSmaller, ItemsFinite
      <2>. QED BY <1>0, <1>1, <2>1
<1>4. ASSUME items' = items, \A e \in 1..MaxEntries : ent'[e].forgotten = ent[e].forgotten
      PROVE  LiveNext = Live /\ ForgottenNext = Forgotten
      <2>1. \A i \in Items : items[i] # 0 => items[i] \in 1..MaxEntries BY <1>0
      <2>. QED BY <1>4, <2>1 DEF Live, Forgotten, LiveNext, ForgottenNext
<1>5. ASSUME items' = items, \A e \in 1..MaxEntries : ent'[e].forgotten = ent[e].forgotten
      PROVE  /\ Cardinality(LiveNext) <= MaxItems
             /\ Cardinality(ForgottenNext) <= MaxForgotten
      BY <1>1, <1>4, <1>5
<1>6. CASE UNCHANGED vars BY <1>5, <1>6 DEF vars
<1>7. CASE Outside BY <1>5, <1>7, OutsideFrame
<1>8. ASSUME NEW i \in Items, EntryRevived(i)
      PROVE  /\ Cardinality(LiveNext) <= MaxItems
             /\ Cardinality(ForgottenNext) <= MaxForgotten
      <2>1. /\ items[i] # 0 /\ 0 \in 0..MaxTime /\ Cardinality(Live) < MaxItems
            /\ items' = items /\ ent' = [ent EXCEPT ![items[i]].forgotten = 0]
            BY <1>8, BoundsAssumption DEF EntryRevived, Forgotten
      <2>2. ASSUME NEW j \in Items \ {i}, items[j] # 0
            PROVE  ent'[items[j]].forgotten = ent[items[j]].forgotten
            <3>1. items[j] # items[i] BY <2>2, MapInjective
            <3>2. items[j] \in 1..MaxEntries BY <1>0, <2>2
            <3>. QED BY <2>1, <3>1, <3>2, ForgetNow
      <2>3. ent'[items[i]].forgotten = 0 BY <2>1, ForgetNow
      <2>4. LiveNext \subseteq Live \cup {i}
            BY <2>1, <2>2 DEF Live, LiveNext
      <2>5. ForgottenNext \subseteq Forgotten
            BY <2>1, <2>2, <2>3 DEF Forgotten, ForgottenNext
      <2>6. Cardinality(LiveNext) <= MaxItems
            BY <1>0, <2>1, <2>4, ItemsOneMore
      <2>. QED BY <1>3, <2>5, <2>6
<1>9. ASSUME NEW i \in Items, EntryCreated(i)
      PROVE  /\ Cardinality(LiveNext) <= MaxItems
             /\ Cardinality(ForgottenNext) <= MaxForgotten
      <2>1. /\ Cardinality(Live) < MaxItems /\ nEnt + 1 \in 1..MaxEntries
            /\ items' = [items EXCEPT ![i] = nEnt + 1]
            /\ ent' = [ent EXCEPT ![nEnt + 1] = NewEntry(i)]
            BY <1>0, <1>9 DEF EntryCreated
      <2>2. ASSUME NEW j \in Items \ {i}
            PROVE  items'[j] = items[j] /\ (items[j] # 0 => ent'[items[j]] = ent[items[j]])
            <3>1. items[j] \in 0..nEnt /\ items[j] # nEnt + 1 BY <1>0
            <3>. QED BY <1>0, <2>1, <3>1
      <2>3. items'[i] = nEnt + 1 /\ ent'[nEnt + 1].forgotten = 0
            BY <1>0, <2>1, NewEntryLemma
      <2>4. LiveNext \subseteq Live \cup {i} BY <2>2 DEF Live, LiveNext
      <2>5. ForgottenNext \subseteq Forgotten BY <2>2, <2>3 DEF Forgotten, ForgottenNext
      <2>6. Cardinality(LiveNext) <= MaxItems
            BY <1>0, <2>1, <2>4, ItemsOneMore
      <2>. QED BY <1>3, <2>5, <2>6
<1>10. ASSUME NEW i \in Items, RecordAccepted(i)
       PROVE  /\ Cardinality(LiveNext) <= MaxItems
              /\ Cardinality(ForgottenNext) <= MaxForgotten
       <2>1. rec[i].e \in 1..MaxEntries /\ items' = items
             BY <1>10, RecordsTo DEF RecordAccepted
       <2>2. PICK y, ks : Accepts(i, y, ks) BY <1>10, <2>1, AcceptedLemma
       <2>3. /\ ent' = [ent EXCEPT ![rec[i].e] = y]
             /\ y.forgotten = ent[rec[i].e].forgotten
             BY <2>2 DEF Accepts
       <2>. QED BY <1>0, <1>5, <2>1, <2>3
<1>11. ASSUME NEW v, NEW now \in [1..MaxEntries -> Entry], remove(v, now)
       PROVE  /\ \A j \in Items : items'[j] # 0 =>
                     /\ items'[j] = items[j] /\ j \notin v
                     /\ ent'[items[j]].forgotten = now[items[j]].forgotten
       <2>1. items' = [j \in Items |-> IF j \in v THEN 0 ELSE items[j]]
             BY <1>11 DEF remove
       <2>2. \A e \in 1..MaxEntries : ent'[e].forgotten = now[e].forgotten
             BY <1>11, RemoveLemma
       <2>. QED BY <1>0, <2>1, <2>2
<1>12. CASE SweepRemove
       <2>1. remove({sw.item}, ent) BY <1>12 DEF SweepRemove
       <2>2. LiveNext \subseteq Live /\ ForgottenNext \subseteq Forgotten
             BY <1>0, <1>11, <2>1 DEF Live, LiveNext, Forgotten, ForgottenNext
       <2>. QED BY <1>2, <1>3, <2>2
<1>13. ASSUME NEW i \in Items, NEW at \in Times, Forget(i, at)
       PROVE  /\ Cardinality(LiveNext) <= MaxItems
              /\ Cardinality(ForgottenNext) <= MaxForgotten
       <2>. DEFINE now == [ent EXCEPT ![items[i]].forgotten = at]
                   old == Forgotten \cup {i}
       <2>1. items[i] # 0 /\ at \in 0..MaxTime /\ at # 0 BY <1>13, <1>0 DEF Forget, Times
       <2>2. PICK v \in Oldest(old, now) : remove(v, now) BY <1>13 DEF Forget
       <2>3. /\ now \in [1..MaxEntries -> Entry] /\ now[items[i]].forgotten = at
             /\ \A e \in 1..MaxEntries : e # items[i] => now[e] = ent[e]
             BY <2>1, ForgetNow
       <2>. HIDE DEF now
       <2>4. remove(v, now) /\ v \in Oldest(old, now) BY <2>2
       <2>5. now \in [1..MaxEntries -> Entry] BY <2>3
       <2>6. \A j \in Items : items'[j] # 0 =>
                     /\ items'[j] = items[j] /\ j \notin v
                     /\ ent'[items[j]].forgotten = now[items[j]].forgotten
             BY <1>11, <2>4, <2>5
       <2>7. \A j \in Items \ {i} : items[j] # 0 => now[items[j]] = ent[items[j]]
             BY <1>0, <2>1, <2>3, MapInjective
       <2>8. LiveNext \subseteq Live BY <2>1, <2>3, <2>6, <2>7 DEF Live, LiveNext
       <2>9. ForgottenNext \subseteq old \ v
             BY <2>6, <2>7 DEF Forgotten, ForgottenNext
       <2>10. Cardinality(old \ v) <= MaxForgotten BY <1>0, <2>2, OldestLemma
       <2>11. /\ Cardinality(ForgottenNext) <= Cardinality(old \ v)
             /\ Cardinality(ForgottenNext) \in Nat /\ Cardinality(old \ v) \in Nat
             <3>1. old \ v \subseteq Items BY <1>0
             <3>. QED BY <1>0, <2>9, <3>1, ItemsSmaller, ItemsFinite
       <2>12. Cardinality(ForgottenNext) <= MaxForgotten
             <3>. HIDE DEF old
             <3>. QED BY <1>0, <2>10, <2>11
       <2>. QED BY <1>2, <2>8, <2>12
<1>14. ASSUME NEW k \in 1..MaxEntries, CloseEntry(k)
       PROVE  /\ Cardinality(LiveNext) <= MaxItems
              /\ Cardinality(ForgottenNext) <= MaxForgotten
       <2>1. PICK y : Closes(k, y) BY <1>14, CloseEntryLemma
       <2>2. items' = items BY <1>14, CloseEntryLemma
       <2>3. ent' = [ent EXCEPT ![k] = y] /\ y.forgotten = ent[k].forgotten
             BY <2>1 DEF Closes
       <2>. QED BY <1>0, <1>5, <2>2, <2>3
<1>15. ASSUME NEW k \in 1..MaxEntries, CloseRing(k)
       PROVE  /\ Cardinality(LiveNext) <= MaxItems
              /\ Cardinality(ForgottenNext) <= MaxForgotten
       <2>1. items' = items /\ \A e \in 1..MaxEntries : ent'[e].forgotten = ent[e].forgotten
             BY <1>0, <1>15 DEF CloseRing, Entry
       <2>. QED BY <1>5, <2>1
<1>. QED BY <1>6, <1>7, <1>8, <1>9, <1>10, <1>12, <1>13, <1>14, <1>15, NextCases

\* Neither cap is ever exceeded: not by an item that Record revives, nor by the
\* one Forget adds to those forgotten.
THEOREM CapsHold == Spec => []ItemCaps
<1>1. ASSUME Init PROVE ItemCaps
      <2>1. Types /\ Fresh BY <1>1, TypesInit
      <2>2. \A i \in Items : items[i] # 0 => ent[items[i]].forgotten = 0
            BY <2>1, BoundsAssumption DEF Types, EntTypes, Fresh
      <2>3. Live = {i \in Items : items[i] # 0} /\ Forgotten = {}
            BY <2>2 DEF Live, Forgotten
      <2>. QED BY <2>1, <2>3, FS_EmptySet, CapsAssumption DEF Fresh, ItemCaps
<1>2. ItemCaps /\ Types /\ SharedInv /\ [Next]_vars => ItemCaps'
      BY CapsStep
<1>. QED BY SharedAlways, <1>1, <1>2, PTL DEF Spec

-----------------------------------------------------------------------------
(* The order of hooks.                                                     *)

\* The commit whose hook a sampler has yet to look up.
Got(i) == IF rec[i].pc = "getHook" THEN <<rec[i].min>> ELSE <<>>

\* The hooks called, then the one a sampler owes, then the one Close owes, are
\* for the minutes committed, in their order.
OrderInv ==
    \A i \in Items :
        /\ (\A p \in cl.done : p[1] # i) => commits[i] = hooked[i] \o Got(i)
        /\ \A p \in cl.done : p[1] = i => commits[i] = (hooked[i] \o Got(i)) \o <<p[2]>>

\* Got(i), of the state after the step.
GotNext(i) == IF rec'[i].pc = "getHook" THEN <<rec'[i].min>> ELSE <<>>

\* A sampler leaves getHook for the call of its hook only.
LEMMA GetHookLeft ==
    ASSUME Types, SharedInv, [Next]_vars, NEW i \in Items, rec[i].pc = "getHook",
           rec'[i] # rec[i]
    PROVE  RecordGetHook(i)
<1>0. rec \in [Items -> Rec] BY DEF Types, RecTypes
<1>1. ASSUME NEW j \in Items, Sampler(j) PROVE j = i
      BY <1>0, <1>1
      DEF Sampler, EntryFails, EntryFound, EntryRevived, EntryCreated, RecordRefused,
          RecordAccepted, RecordGetHook, HookLookup, HookReturn
<1>2. CASE Sampler(i)
      BY <1>2
      DEF Sampler, EntryFails, EntryFound, EntryRevived, EntryCreated, RecordRefused,
          RecordAccepted, HookLookup, HookReturn
<1>3. ASSUME NEW j \in Items, NEW at \in Times, NEW ks \in (SUBSET Keys) \ {{}},
             RecordCall(j, at, ks)
      PROVE  FALSE
      BY <1>0, <1>3 DEF RecordCall
<1>4. \/ \E j \in Items, at \in Times, ks \in (SUBSET Keys) \ {{}} : RecordCall(j, at, ks)
      \/ \E j \in Items : Sampler(j)
      BY DEF Next, vars, Forget, SweepCall, Sweeper, SweepCheck, SweepRemove, SweepReturn,
             CloseCall, Closer, CloseEntry, CloseRing, CloseWait, CloseHook, CloseReturn,
             QueryCall, Querier, QueryRead, QueryReturn, Terminated
<1>. QED BY <1>1, <1>2, <1>3, <1>4

\* Minutes are committed by a sample that is accepted and by Close, and hooks
\* called by samplers and by Close.
LEMMA OrderCases ==
    ASSUME [Next]_vars
    PROVE  /\ \/ commits' = commits
              \/ \E i \in Items : RecordAccepted(i)
              \/ \E e \in 1..MaxEntries : CloseEntry(e)
           /\ \/ hooked' = hooked
              \/ \E i \in Items : RecordGetHook(i)
              \/ \E p \in cl.done : CloseHook(p)
<1>1. CASE UNCHANGED vars BY <1>1 DEF vars
<1>2. ASSUME NEW i \in Items, Sampler(i)
      PROVE  /\ commits' = commits \/ RecordAccepted(i)
             /\ hooked' = hooked \/ RecordGetHook(i)
      <2>1. CASE RecordAccepted(i) BY <2>1 DEF RecordAccepted
      <2>2. CASE EntryRevived(i) \/ EntryCreated(i) \/ RecordRefused(i)
            BY <2>2 DEF EntryRevived, EntryCreated, RecordRefused
      <2>3. CASE \/ EntryFails(i) \/ EntryFound(i) \/ RecordGetHook(i)
                 \/ HookLookup(i) \/ HookReturn(i)
            BY <2>3 DEF EntryFails, EntryFound, RecordGetHook, HookLookup, HookReturn
      <2>. QED BY <1>2, <2>1, <2>2, <2>3 DEF Sampler
<1>3. CASE \/ \E i \in Items, at \in Times, ks \in (SUBSET Keys) \ {{}} : RecordCall(i, at, ks)
           \/ \E i \in Items, at \in Times : Forget(i, at)
           \/ (\E cut \in Times : SweepCall(cut)) \/ Sweeper
      BY <1>3 DEF RecordCall, Forget, SweepCall, Sweeper, SweepCheck, SweepRemove, SweepReturn
<1>4. CASE CloseCall \/ Closer
      BY <1>4 DEF CloseCall, Closer, CloseEntry, CloseRing, CloseWait, CloseHook, CloseReturn
<1>5. CASE \/ \E q \in Queriers, i \in Items : QueryCall(q, i)
           \/ \E q \in Queriers : Querier(q)
      BY <1>5 DEF QueryCall, Querier, QueryRead, QueryReturn
<1>6. CASE Terminated BY <1>1, <1>6 DEF Terminated
<1>. QED BY <1>1, <1>2, <1>3, <1>4, <1>5, <1>6 DEF Next

LEMMA AppendConcat ==
    ASSUME NEW s \in Seq(Int), NEW m \in Int
    PROVE  Append(s, m) = s \o <<m>> /\ s \o <<>> = s /\ Append(s, m) \in Seq(Int)
BY AppendProperties, ConcatProperties, ConcatEmptySeq

LEMMA ConcatThree ==
    ASSUME NEW s \in Seq(Int), NEW t \in Seq(Int), NEW u \in Seq(Int)
    PROVE  (s \o t) \o u = s \o (t \o u)
BY ConcatAssociative

LEMMA PrefixOfConcat ==
    ASSUME NEW s \in Seq(Int), NEW t \in Seq(Int)
    PROVE  IsPrefix(s, s \o t)
<1>1. /\ s \o t \in Seq(Int) /\ Len(s \o t) = Len(s) + Len(t)
      /\ \A k \in 1..Len(s) + Len(t) : (s \o t)[k] = IF k <= Len(s) THEN s[k]
                                                     ELSE t[k - Len(s)]
      BY ConcatProperties
<1>2. Len(s) \in Nat /\ Len(t) \in Nat /\ Len(s) <= Len(s \o t) BY <1>1
<1>3. SubSeq(s, 1, Len(s)) = [k \in 1..Len(s) |-> s[k]] BY <1>2, SubSeqProperties
<1>4. SubSeq(s \o t, 1, Len(s)) = [k \in 1..Len(s) |-> (s \o t)[k]] BY <1>1, <1>2
<1>. QED BY <1>1, <1>2, <1>3, <1>4 DEF IsPrefix

LEMMA OrderStep == ASSUME Types, SharedInv, OrderInv, [Next]_vars PROVE OrderInv'
<1>. SUFFICES ASSUME NEW i \in Items
              PROVE  /\ (\A p \in cl'.done : p[1] # i) =>
                            commits'[i] = hooked'[i] \o GotNext(i)
                     /\ \A p \in cl'.done : p[1] = i =>
                            commits'[i] = (hooked'[i] \o GotNext(i)) \o <<p[2]>>
     BY DEF OrderInv, Got, GotNext
<1>0. /\ rec \in [Items -> Rec]
      /\ cl \in [pc : {"idle", "commit", "hooks", "done"}, ents : SUBSET Nat,
                 todo : SUBSET Nat, done : SUBSET (Items \X Int)]
      /\ commits \in [Items -> Seq(Int)] /\ hooked \in [Items -> Seq(Int)]
      BY DEF Types, RecTypes, ProcTypes, HistTypes
<1>1. /\ (\A p \in cl.done : p[1] # i) => commits[i] = hooked[i] \o Got(i)
      /\ \A p \in cl.done : p[1] = i => commits[i] = (hooked[i] \o Got(i)) \o <<p[2]>>
      BY DEF OrderInv
<1>2. Got(i) \in Seq(Int) /\ hooked[i] \in Seq(Int) /\ commits[i] \in Seq(Int)
      /\ hooked[i] \o Got(i) \in Seq(Int)
      <2>1. rec[i].min \in Int BY RecTyped
      <2>2. Got(i) \in Seq(Int) BY <2>1 DEF Got
      <2>. QED BY <1>0, <2>2, ConcatProperties
<1>3. ASSUME cl'.done = cl.done, commits'[i] = commits[i], hooked'[i] = hooked[i],
             GotNext(i) = Got(i)
      PROVE  /\ (\A p \in cl'.done : p[1] # i) =>
                    commits'[i] = hooked'[i] \o GotNext(i)
             /\ \A p \in cl'.done : p[1] = i =>
                    commits'[i] = (hooked'[i] \o GotNext(i)) \o <<p[2]>>
      BY <1>1, <1>3
<1>4. CASE \E e \in 1..MaxEntries : CloseEntry(e)
      <2>1. PICK e \in 1..MaxEntries : CloseEntry(e) BY <1>4
      <2>2. PICK y : Closes(e, y) BY <2>1, CloseEntryLemma
      <2>3. cl.pc = "commit" /\ e \in cl.todo /\ rec' = rec /\ hooked' = hooked
            BY <2>1, CloseEntryLemma
      <2>4. GotNext(i) = Got(i) BY <2>3 DEF Got, GotNext
      <2>5. PICK k \in Items : items[k] = e BY <2>3 DEF SharedInv, CloseInv
      <2>6. ent[e].item = k
            BY <2>3, <2>5, RecTyped DEF SharedInv, MapInv, CloseInv
      <2>7. ent[e].acc.min \in Int BY EntryFields DEF Types, EntTypes
      <2>8. PICK p0 : p0 = <<k, ent[e].acc.min>> OBVIOUS
      <2>9. CASE cl' = [cl EXCEPT !.todo = @ \ {e}] /\ commits' = commits
            <3>1. cl'.done = cl.done BY <1>0, <2>9
            <3>. QED BY <1>3, <2>3, <2>4, <2>9, <3>1
      <2>10. CASE /\ cl' = [cl EXCEPT !.todo = @ \ {e}, !.done = @ \cup {p0}]
                  /\ commits' = [commits EXCEPT ![k] = Append(@, ent[e].acc.min)]
             <3>1. cl'.done = cl.done \cup {p0} BY <1>0, <2>10
             <3>2. p0[1] = k /\ p0[2] = ent[e].acc.min BY <2>8
             <3>3. CASE i = k
                   <4>1. \A p \in cl.done : p[1] # i
                         BY <2>3, <2>5, <3>3 DEF SharedInv, CloseInv
                   <4>2. commits[i] = hooked[i] \o Got(i) BY <1>1, <4>1
                   <4>3. commits'[i] = Append(commits[i], ent[e].acc.min)
                         BY <1>0, <2>10, <3>3
                   <4>4. commits'[i] = (hooked[i] \o Got(i)) \o <<ent[e].acc.min>>
                         BY <1>2, <2>7, <4>2, <4>3, AppendConcat
                   <4>5. \A p \in cl'.done : p[1] = i => p = p0 BY <3>1, <4>1
                   <4>6. p0 \in cl'.done /\ p0[1] = i BY <3>1, <3>2, <3>3
                   <4>. QED BY <2>3, <2>4, <3>2, <4>4, <4>5, <4>6
             <3>4. CASE i # k
                   <4>1. commits'[i] = commits[i] BY <1>0, <2>10, <3>4
                   <4>2. p0[1] # i BY <3>2, <3>4
                   <4>. QED BY <1>1, <2>3, <2>4, <3>1, <4>1, <4>2
             <3>. QED BY <3>3, <3>4
      <2>. QED BY <2>2, <2>6, <2>8, <2>9, <2>10 DEF Closes
<1>5. CASE \E p \in cl.done : CloseHook(p)
      <2>1. PICK p \in cl.done : CloseHook(p) BY <1>5
      <2>2. /\ cl.pc = "hooks" /\ rec' = rec /\ commits' = commits
            /\ hooked' = [hooked EXCEPT ![p[1]] = Append(@, p[2])]
            /\ cl'.done = cl.done \ {p}
            BY <1>0, <2>1 DEF CloseHook
      <2>3. GotNext(i) = Got(i) BY <2>2 DEF Got, GotNext
      <2>4. Got(i) = <<>>
            BY <2>2 DEF Got, SharedInv, RecInv, HookPcs
      <2>5. CASE p[1] = i
            <3>1. commits[i] = (hooked[i] \o Got(i)) \o <<p[2]>> BY <1>1, <2>5
            <3>2. p[2] \in Int BY <1>0
            <3>3. hooked'[i] = Append(hooked[i], p[2]) BY <1>0, <2>2, <2>5
            <3>4. /\ hooked'[i] = hooked[i] \o <<p[2]>> /\ hooked'[i] \in Seq(Int)
                  /\ hooked[i] \o <<>> = hooked[i] /\ hooked'[i] \o <<>> = hooked'[i]
                  BY <1>2, <3>2, <3>3, AppendConcat
            <3>5. commits'[i] = hooked'[i] \o GotNext(i)
                  BY <2>2, <2>3, <2>4, <3>1, <3>4
            <3>6. \A q \in cl'.done : q[1] # i
                  BY <2>2, <2>5 DEF SharedInv, CloseInv
            <3>. QED BY <3>5, <3>6
      <2>6. CASE p[1] # i
            <3>1. hooked'[i] = hooked[i] BY <1>0, <2>2, <2>6
            <3>. QED BY <1>1, <2>2, <2>3, <2>6, <3>1
      <2>. QED BY <2>5, <2>6
<1>6. CASE \E j \in Items : RecordAccepted(j)
      <2>1. PICK j \in Items : RecordAccepted(j) BY <1>6
      <2>2. /\ rec[j].pc = "record" /\ cl' = cl /\ hooked' = hooked
            /\ ~ent[rec[j].e].gone /\ ~ent[rec[j].e].closed
            BY <2>1 DEF RecordAccepted
      <2>3. rec[j].e \in 1..MaxEntries /\ items[j] = rec[j].e
            BY <2>2, RecordsTo
      <2>4. PICK y, ks : Accepts(j, y, ks) BY <2>1, <2>3, AcceptedLemma
      <2>5. CASE Joins(j, y) \/ Loses(j, y)
            <3>1. rec' = [rec EXCEPT ![j] = IdleRec] /\ commits' = commits
                  BY <2>5 DEF Joins, Loses
            <3>2. IdleRec.pc = "idle" BY DEF IdleRec
            <3>3. GotNext(i) = Got(i)
                  <4>1. CASE i = j
                        <5>1. rec'[i].pc = "idle" /\ rec[i].pc = "record"
                              BY <1>0, <2>2, <3>1, <3>2, <4>1
                        <5>. QED BY <5>1 DEF Got, GotNext
                  <4>2. CASE i # j
                        <5>1. rec'[i] = rec[i] BY <1>0, <3>1, <4>2
                        <5>. QED BY <5>1 DEF Got, GotNext
                  <4>. QED BY <4>1, <4>2
            <3>. QED BY <1>3, <2>2, <3>1, <3>3
      <2>6. CASE Commits(j, y)
            <3>1. /\ commits' = [commits EXCEPT ![j] = Append(@, ent[rec[j].e].acc.min)]
                  /\ rec' = [rec EXCEPT ![j].pc = "getHook", ![j].min = ent[rec[j].e].acc.min,
                                        ![j].by = rec[j].e]
                  BY <2>6 DEF Commits
            <3>2. ent[rec[j].e].acc.min \in Int BY <2>3, EntryFields DEF Types, EntTypes
            <3>3. CASE i = j
                  <4>1. rec'[i].pc = "getHook" /\ rec'[i].min = ent[rec[j].e].acc.min
                        BY <1>0, <3>1, <3>3 DEF Rec
                  <4>2. GotNext(i) = <<ent[rec[j].e].acc.min>> BY <4>1 DEF GotNext
                  <4>3. Got(i) = <<>> BY <2>2, <3>3 DEF Got
                  <4>4. \A p \in cl.done : p[1] # i
                        <5>. SUFFICES ASSUME NEW p \in cl.done, p[1] = i PROVE FALSE
                             OBVIOUS
                        <5>1. cl.pc # "idle" /\ items[i] # 0 /\ items[i] \notin cl.todo
                              BY DEF SharedInv, CloseInv
                        <5>. QED BY <2>2, <2>3, <3>3, <5>1 DEF SharedInv, CloseInv
                  <4>5. commits[i] = hooked[i] BY <1>1, <1>2, <4>3, <4>4, AppendConcat
                  <4>6. commits'[i] = Append(commits[i], ent[rec[j].e].acc.min)
                        BY <1>0, <3>1, <3>3
                  <4>7. commits'[i] = hooked[i] \o <<ent[rec[j].e].acc.min>>
                        BY <1>2, <3>2, <4>5, <4>6, AppendConcat
                  <4>. QED BY <2>2, <4>2, <4>4, <4>7
            <3>4. CASE i # j
                  <4>1. rec'[i] = rec[i] /\ commits'[i] = commits[i]
                        BY <1>0, <3>1, <3>4
                  <4>2. GotNext(i) = Got(i) BY <4>1 DEF Got, GotNext
                  <4>. QED BY <1>3, <2>2, <4>1, <4>2
            <3>. QED BY <3>3, <3>4
      <2>. QED BY <2>4, <2>5, <2>6 DEF Accepts
<1>7. CASE \E j \in Items : RecordGetHook(j)
      <2>1. PICK j \in Items : RecordGetHook(j) BY <1>7
      <2>2. /\ rec[j].pc = "getHook" /\ cl' = cl /\ commits' = commits
            /\ rec' = [rec EXCEPT ![j].pc = "hook"]
            /\ hooked' = [hooked EXCEPT ![j] = Append(@, rec[j].min)]
            BY <2>1 DEF RecordGetHook
      <2>3. CASE i = j
            <3>1. rec'[i].pc = "hook" /\ hooked'[i] = Append(hooked[i], rec[i].min)
                  BY <1>0, <2>2, <2>3 DEF Rec
            <3>2. Got(i) = <<rec[i].min>> /\ GotNext(i) = <<>>
                  BY <2>2, <2>3, <3>1 DEF Got, GotNext
            <3>3. rec[i].min \in Int BY RecTyped
            <3>4. hooked'[i] = hooked[i] \o Got(i) /\ hooked'[i] \in Seq(Int)
                  <4>1. PICK m \in Int : m = rec[i].min BY <3>3
                  <4>2. PICK h \in Seq(Int) : h = hooked[i] BY <1>2
                  <4>3. Append(h, m) = h \o <<m>> /\ Append(h, m) \in Seq(Int)
                        BY AppendConcat
                  <4>. QED BY <3>1, <3>2, <4>1, <4>2, <4>3
            <3>5. hooked'[i] \o <<>> = hooked'[i] BY <3>4, ConcatEmptySeq
            <3>6. hooked'[i] \o GotNext(i) = hooked[i] \o Got(i) BY <3>2, <3>4, <3>5
            <3>. QED BY <1>1, <2>2, <3>6
      <2>4. CASE i # j
            <3>1. rec'[i] = rec[i] /\ hooked'[i] = hooked[i] BY <1>0, <2>2, <2>4
            <3>2. GotNext(i) = Got(i) BY <3>1 DEF Got, GotNext
            <3>. QED BY <1>3, <2>2, <3>1, <3>2
      <2>. QED BY <2>3, <2>4
<1>8. CASE /\ ~ \E e \in 1..MaxEntries : CloseEntry(e)
           /\ ~ \E p \in cl.done : CloseHook(p)
           /\ ~ \E j \in Items : RecordAccepted(j)
           /\ ~ \E j \in Items : RecordGetHook(j)
      <2>1. commits' = commits /\ hooked' = hooked BY <1>8, OrderCases
      <2>2. cl'.done = cl.done
            <3>1. CASE CloseCall
                  <4>1. ~closed /\ cl'.done = {} BY <3>1 DEF CloseCall
                  <4>. QED BY <4>1 DEF SharedInv, CloseInv
            <3>2. CASE CloseWait \/ CloseReturn BY <1>0, <3>2 DEF CloseWait, CloseReturn
            <3>3. ASSUME NEW e \in 1..MaxEntries, CloseRing(e) PROVE cl'.done = cl.done
                  BY <1>0, <3>3 DEF CloseRing
            <3>. QED BY <1>8, <3>1, <3>2, <3>3, CloseCases
      <2>3. GotNext(i) = Got(i)
            <3>1. CASE rec'[i] = rec[i] BY <3>1 DEF Got, GotNext
            <3>2. CASE rec'[i] # rec[i]
                  <4>1. rec[i].pc # "getHook" BY <1>8, <3>2, GetHookLeft
                  <4>2. rec'[i].pc # "getHook"
                        <5>1. [rec[i] EXCEPT !.pc = "hookRead", !.e = items[i]].pc = "hookRead"
                              BY <1>0 DEF Rec
                        <5>. QED BY <1>8, <3>2, <5>1, RecMoves
                  <4>. QED BY <4>1, <4>2 DEF Got, GotNext
            <3>. QED BY <3>1, <3>2
      <2>. QED BY <1>3, <2>1, <2>2, <2>3
<1>. QED BY <1>4, <1>5, <1>6, <1>7, <1>8

\* The hooks of an item are called once per minute committed and in the order of
\* the commits, those of Close after those of Record; when Close has returned
\* none is missing and none runs.
THEOREM HooksOrdered == Spec => []HooksInOrder
<1>1. ASSUME Init PROVE OrderInv
      <2>. SUFFICES ASSUME NEW i \in Items
                    PROVE  cl.done = {} /\ commits[i] = hooked[i] \o Got(i)
           BY DEF OrderInv
      <2>1. /\ cl.done = {} /\ commits[i] = <<>> /\ hooked[i] = <<>>
            /\ rec[i].pc = "idle"
            BY <1>1 DEF Init, IdleRec
      <2>2. <<>> \in Seq(Int) OBVIOUS
      <2>. QED BY <2>1, <2>2, ConcatEmptySeq DEF Got
<1>2. OrderInv /\ Types /\ SharedInv /\ [Next]_vars => OrderInv'
      BY OrderStep
<1>3. ASSUME Types, SharedInv, OrderInv PROVE HooksInOrder
      <2>. USE <1>3
      <2>. SUFFICES ASSUME NEW i \in Items
                    PROVE  /\ IsPrefix(hooked[i], commits[i])
                           /\ cl.pc = "done" =>
                                  /\ rec[i].pc \notin {"getHook", "hook", "hookRead"}
                                  /\ hooked[i] = commits[i]
           BY DEF HooksInOrder
      <2>1. hooked[i] \in Seq(Int) /\ rec[i].min \in Int /\ cl.done \subseteq Items \X Int
            BY RecTyped DEF Types, HistTypes, ProcTypes
      <2>2. Got(i) \in Seq(Int) BY <2>1 DEF Got
      <2>3. \E t \in Seq(Int) : commits[i] = hooked[i] \o t
            <3>1. CASE \A p \in cl.done : p[1] # i BY <2>2, <3>1 DEF OrderInv
            <3>2. ASSUME NEW p \in cl.done, p[1] = i
                  PROVE  \E t \in Seq(Int) : commits[i] = hooked[i] \o t
                  <4>1. commits[i] = (hooked[i] \o Got(i)) \o <<p[2]>> BY <3>2 DEF OrderInv
                  <4>2. <<p[2]>> \in Seq(Int)
                        <5>1. p[2] \in Int BY <2>1
                        <5>. QED BY <5>1
                  <4>3. commits[i] = hooked[i] \o (Got(i) \o <<p[2]>>)
                        <5>1. PICK u \in Seq(Int) : u = <<p[2]>> BY <4>2
                        <5>2. PICK h \in Seq(Int) : h = hooked[i] BY <2>1
                        <5>3. PICK g \in Seq(Int) : g = Got(i) BY <2>2
                        <5>4. (h \o g) \o u = h \o (g \o u) BY ConcatThree
                        <5>. QED BY <4>1, <5>1, <5>2, <5>3, <5>4
                  <4>4. Got(i) \o <<p[2]>> \in Seq(Int) BY <2>2, <4>2, ConcatProperties
                  <4>. QED BY <4>3, <4>4
            <3>. QED BY <3>1, <3>2
      <2>4. IsPrefix(hooked[i], commits[i]) BY <2>1, <2>3, PrefixOfConcat
      <2>5. ASSUME cl.pc = "done"
            PROVE  rec[i].pc \notin HookPcs /\ hooked[i] = commits[i]
            <3>1. rec[i].pc \notin HookPcs BY <2>5 DEF SharedInv, RecInv
            <3>2. Got(i) = <<>> BY <3>1 DEF Got, HookPcs
            <3>3. cl.done = {} BY <2>5 DEF SharedInv, CloseInv
            <3>4. commits[i] = hooked[i] \o <<>> BY <3>2, <3>3 DEF OrderInv
            <3>. QED BY <2>1, <3>1, <3>4, ConcatEmptySeq
      <2>. QED BY <2>4, <2>5 DEF HookPcs
<1>. QED BY SharedAlways, <1>1, <1>2, <1>3, PTL DEF Spec
=============================================================================
