------------------------------ MODULE RingFile ------------------------------
(***************************************************************************)
(* One ring file of pkg/stats (ring.go): two header copies, a stamp column *)
(* and NCols value columns per series, written by one writer at a time     *)
(* (ring.mu), read without a lock, and torn by whatever can happen between *)
(* two system calls: an I/O error, the death of the process, a power loss. *)
(*                                                                         *)
(* Every cell of the file has the value the page cache shows (hdr, groups, *)
(* stamp, col) and the set of values a power loss may leave on the disk    *)
(* (hdrMay, groupsMay, stampMay, colMay).  WriteAt changes the first and   *)
(* widens the second, Sync narrows the second to the first.  A 4-byte      *)
(* aligned write is atomic; a 4096-byte header write can be torn; the file *)
(* can grow before the bytes it grew by are written (they read as zeros).  *)
(*                                                                         *)
(* Names: values are the numbers of the minute writes they come from.      *)
(***************************************************************************)
EXTENDS Integers, Sequences, FiniteSets, SequencesExt

CONSTANTS
    Keys,        \* names of series
    Minutes,     \* slots of the ring (10 080 in the code)
    MaxSeries,   \* cap on the series of an item (48 in the code)
    NCols,       \* columns of a series (avg, min, max: 3 in the code)
    Readers,     \* goroutines that may be inside readWindow
    Faults,      \* which of "io", "restart", "power" can happen
    MaxMinute,   \* bound: minutes 1..MaxMinute are written
    MaxWrites,   \* bound: calls of writeMinute
    MaxSeq,      \* bound: header sequence numbers
    MaxLives     \* bound: times the file is opened again

ASSUME MinutesAssumption   == Minutes \in Nat \ {0}
ASSUME MaxSeriesAssumption == MaxSeries \in Nat \ {0}
ASSUME NColsAssumption     == NCols \in Nat \ {0}
ASSUME BoundsAssumption    == /\ MaxMinute \in Nat
                              /\ MaxWrites \in Nat
                              /\ MaxSeq \in Nat
                              /\ MaxLives \in Nat
ASSUME FaultsAssumption    == Faults \subseteq {"io", "restart", "power"}

VARIABLES
    hdr, hdrMay,         \* header copies 0 (A) and 1 (B)
    groups, groupsMay,   \* whole series groups inside the file's size
    stamp, stampMay,     \* stamp column, by slot
    col, colMay,         \* value columns, by <<series, column, slot>>
    status,              \* absent, open, closed, lost (power), corrupt
    rh, cur,             \* ring.hdr and ring.cur
    pc,                  \* where the holder of ring.mu is
    tgt,                 \* the header writeHeader was called with
    wr,                  \* writeMinute: minute m, series v with a value, loop i, c
    lives,               \* processes that have opened the file
    rd,                  \* readers
    log,                 \* history: the minute of each call of writeMinute
    acked                \* history: the minute writeMinute acknowledged, by slot

file   == <<hdr, hdrMay, groups, groupsMay, stamp, stampMay, col, colMay>>
writer == <<pc, tgt, wr>>
vars   == <<file, status, rh, cur, writer, rd, lives, log, acked>>

-----------------------------------------------------------------------------
(* Cells and values.                                                       *)

Copies == 0..1
Slots  == 0..(Minutes - 1)
Cells  == (0..(MaxSeries - 1)) \X (0..(NCols - 1)) \X Slots

NaN  == 0       \* a gap
Hole == -1      \* bytes the file grew by that were never written
Values == {Hole, NaN} \cup 1..MaxWrites

slotOf(minute) == minute % Minutes

Header(seq, keys, forgotten) ==
    [ok |-> TRUE, seq |-> seq, keys |-> keys, forgotten |-> forgotten]

\* A copy decodeHeader rejects: its checksum does not match.
Torn == [ok |-> FALSE, seq |-> 0, keys |-> <<>>, forgotten |-> FALSE]

Headers == [ok : BOOLEAN, seq : Nat, keys : Seq(Keys), forgotten : BOOLEAN]

\* Mutant: the valid copy with the lower seq.
LatestLower(h) ==
    CASE ~h[0].ok /\ ~h[1].ok -> -1
      [] h[0].ok /\ (~h[1].ok \/ h[1].seq >= h[0].seq) -> 0
      [] OTHER -> 1

\* The copy parseRing takes, or -1: the valid one with the higher seq, A first.
Latest(h) ==
    CASE ~h[0].ok /\ ~h[1].ok -> -1
      [] h[0].ok /\ (~h[1].ok \/ h[1].seq <= h[0].seq) -> 0
      [] OTHER -> 1

\* What a process that finds header copies h and g groups does: -1 = errCorrupt.
parseRing(h, g) ==
    LET c == Latest(h)
    IN  IF c = -1 \/ g < Len(h[c].keys) THEN -1 ELSE c

-----------------------------------------------------------------------------
(* The file system.                                                        *)

\* Mutant: a sync that leaves the stamp column out.
SyncNoStamps ==
        /\ hdrMay'    = [i \in Copies |-> {hdr[i]}]
        /\ groupsMay' = {groups}
        /\ colMay'    = [x \in Cells |-> {col[x]}]
        /\ UNCHANGED <<hdr, groups, stamp, stampMay, col>>

\* Sync: what the page cache shows is what the disk holds.
Sync == /\ hdrMay'    = [i \in Copies |-> {hdr[i]}]
        /\ groupsMay' = {groups}
        /\ stampMay'  = [s \in Slots |-> {stamp[s]}]
        /\ colMay'    = [x \in Cells |-> {col[x]}]
        /\ UNCHANGED <<hdr, groups, stamp, col>>

WriteStamp(s, m) ==
    /\ stamp'    = [stamp EXCEPT ![s] = m]
    /\ stampMay' = [stampMay EXCEPT ![s] = @ \cup {m}]
    /\ UNCHANGED <<hdr, hdrMay, groups, groupsMay, col, colMay>>

\* Every way to choose one value of may[x] for each x, given the clean value.
Outcomes(D, now, may) ==
    LET dirty == {x \in D : may[x] # {now[x]}}
    IN  {[x \in D |-> IF x \in dirty THEN f[x] ELSE now[x]] :
            f \in {g \in [dirty -> UNION {may[x] : x \in dirty}] :
                       \A x \in dirty : g[x] \in may[x]}}

-----------------------------------------------------------------------------
(* createRing: the file is written and synced under a temporary name and   *)
(* appears at its path by a rename; until then there is no ring.           *)

NoTgt  == Torn
NoWrite == [m |-> 0, v |-> {}, i |-> 0, c |-> 0]
NoRead == [pc |-> "idle", m |-> 0, i |-> 0, before |-> 0,
           vals |-> <<>>, after |-> 0, seen |-> 0]

Init ==
    /\ hdr = [i \in Copies |-> Torn] /\ hdrMay = [i \in Copies |-> {Torn}]
    /\ groups = 0 /\ groupsMay = {0}
    /\ stamp = [s \in Slots |-> 0] /\ stampMay = [s \in Slots |-> {0}]
    /\ col = [x \in Cells |-> Hole] /\ colMay = [x \in Cells |-> {Hole}]
    /\ status = "absent"
    /\ rh = Header(0, <<>>, FALSE) /\ cur = 0
    /\ pc = "idle" /\ tgt = NoTgt
    /\ wr = NoWrite /\ lives = 0
    /\ rd = [r \in Readers |-> NoRead]
    /\ log = <<>>
    /\ acked = [s \in Slots |-> 0]

Fresh == [i \in Copies |-> Header(1 - i, <<>>, FALSE)]

CreateWrite ==
    /\ status = "absent" /\ pc = "idle" /\ MaxSeq >= 1
    /\ hdr' = Fresh
    /\ hdrMay' = [i \in Copies |-> {Torn, Fresh[i]}]
    /\ pc' = "createSync"
    /\ UNCHANGED <<groups, groupsMay, stamp, stampMay, col, colMay, status,
                   rh, cur, tgt, wr, rd, lives, log, acked>>

CreateSync ==
    /\ pc = "createSync"
    /\ Sync
    /\ pc' = "createRename"
    /\ UNCHANGED <<status, rh, cur, tgt, wr, rd, lives, log, acked>>

\* Rename, SyncDir, and openRing of the file just made.
CreateRename ==
    /\ pc = "createRename"
    /\ pc' = "idle"
    /\ LET c == parseRing(hdr, groups)
       IN  IF c = -1
             THEN /\ status' = "corrupt"
                  /\ UNCHANGED <<rh, cur>>
             ELSE /\ status' = "open"
                  /\ rh' = hdr[c] /\ cur' = c
    /\ UNCHANGED <<file, tgt, wr, rd, lives, log, acked>>

Creating == pc \in {"createSync", "createRename"}

-----------------------------------------------------------------------------
(* writeHeader: bump seq, write the copy that is not current, sync, and    *)
(* only then make the header current and publish its keys to the readers.  *)

\* Mutant: writeHeader rewrites the current copy.
OtherIsCurrent == cur

Other == 1 - cur

HeaderWrite ==
    /\ pc = "headerWrite" /\ status = "open"
    /\ LET h == [tgt EXCEPT !.seq = rh.seq + 1]
       IN  /\ hdr' = [hdr EXCEPT ![Other] = h]
           /\ hdrMay' = [hdrMay EXCEPT ![Other] = @ \cup {Torn, h}]
           /\ tgt' = h
    /\ pc' = "headerSync"
    /\ UNCHANGED <<groups, groupsMay, stamp, stampMay, col, colMay, status, rh,
                   cur, wr, rd, lives, log, acked>>

HeaderSync ==
    /\ pc = "headerSync" /\ status = "open"
    /\ Sync
    /\ rh' = tgt /\ cur' = Other
    /\ pc' = "idle" /\ tgt' = NoTgt
    /\ UNCHANGED <<status, wr, rd, lives, log, acked>>

(* addSeries: nothing to do for a key the ring has, refused at the cap;    *)
(* otherwise fill the columns of the new group with NaN, sync, writeHeader.*)

AddSeries(k) ==
    /\ pc = "idle" /\ status = "open"
    /\ k \notin Range(rh.keys)
    /\ Len(rh.keys) < MaxSeries
    /\ rh.seq < MaxSeq
    /\ LET n    == Len(rh.keys)
           mine == {x \in Cells : x[1] = n}
           top  == IF groups > n THEN groups ELSE n + 1
       IN  /\ col' = [x \in Cells |-> IF x \in mine THEN NaN ELSE col[x]]
           /\ colMay' = [x \in Cells |-> IF x \in mine
                            THEN colMay[x] \cup {NaN}
                                   \cup (IF groups > n THEN {} ELSE {Hole})
                            ELSE colMay[x]]
           /\ groups' = top
           /\ groupsMay' = groupsMay \cup {top}
    /\ tgt' = [rh EXCEPT !.keys = Append(@, k)]
    /\ pc' = "addSync"
    /\ UNCHANGED <<hdr, hdrMay, stamp, stampMay, status, rh, cur,
                   wr, rd, lives, log, acked>>

AddSync ==
    /\ pc = "addSync" /\ status = "open"
    /\ Sync
    /\ pc' = "headerWrite"
    /\ UNCHANGED <<status, rh, cur, tgt, wr, rd, lives, log, acked>>

\* setForgotten: no guard, the header is rewritten even when nothing changes.
SetForgotten(f) ==
    /\ pc = "idle" /\ status = "open" /\ rh.seq < MaxSeq
    /\ tgt' = [rh EXCEPT !.forgotten = f]
    /\ pc' = "headerWrite"
    /\ UNCHANGED <<file, status, rh, cur, wr, rd, lives, log, acked>>

-----------------------------------------------------------------------------
(* writeMinute: invalidate the slot's stamp, sync, write the columns of    *)
(* every series in order, sync, write the stamp.                           *)

\* Mutant: the old stamp stays while the columns are rewritten.
WriteMinuteNoInvalidate(m, v) ==
    /\ pc = "idle" /\ status = "open" /\ Len(log) < MaxWrites
    /\ wr' = [m |-> m, v |-> v, i |-> 0, c |-> 0]
    /\ log' = Append(log, m)
    /\ acked' = [acked EXCEPT ![slotOf(m)] = 0]
    /\ pc' = "invalidSync"
    /\ UNCHANGED <<file, status, rh, cur, tgt, rd, lives>>

\* The stamp is zeroed.  m may be any minute: the clock can step back.
WriteMinute(m, v) ==
    /\ pc = "idle" /\ status = "open" /\ Len(log) < MaxWrites
    /\ WriteStamp(slotOf(m), 0)
    /\ wr' = [m |-> m, v |-> v, i |-> 0, c |-> 0]
    /\ log' = Append(log, m)
    /\ acked' = [acked EXCEPT ![slotOf(m)] = 0]
    /\ pc' = "invalidSync"
    /\ UNCHANGED <<status, rh, cur, tgt, rd, lives>>

\* Mutant: the columns are written before the zeroed stamp is on the disk.
InvalidNoSync ==
    /\ pc = "invalidSync" /\ status = "open"
    /\ pc' = "columns"
    /\ UNCHANGED <<file, status, rh, cur, tgt, wr, rd, lives, log, acked>>

InvalidSync ==
    /\ pc = "invalidSync" /\ status = "open"
    /\ Sync
    /\ pc' = "columns"
    /\ UNCHANGED <<status, rh, cur, tgt, wr, rd, lives, log, acked>>

\* Mutant: the loop over the columns runs one past the last.
NextColumnPast == IF wr.c + 1 <= NCols THEN [wr EXCEPT !.c = @ + 1]
                                       ELSE [wr EXCEPT !.c = 0, !.i = @ + 1]

NextColumn == IF wr.c + 1 < NCols THEN [wr EXCEPT !.c = @ + 1]
                                  ELSE [wr EXCEPT !.c = 0, !.i = @ + 1]

\* One iteration of the loop over series and columns.
WriteColumn ==
    /\ pc = "columns" /\ status = "open" /\ wr.i < Len(rh.keys)
    /\ LET x == <<wr.i, wr.c, slotOf(wr.m)>>
           v == IF wr.i \in wr.v THEN Len(log) ELSE NaN
       IN  /\ col' = [col EXCEPT ![x] = v]
           /\ colMay' = [colMay EXCEPT ![x] = @ \cup {v}]
    /\ wr' = NextColumn
    /\ UNCHANGED <<hdr, hdrMay, groups, groupsMay, stamp, stampMay, status,
                   rh, cur, pc, tgt, rd, lives, log, acked>>

ColumnsSync ==
    /\ pc = "columns" /\ status = "open" /\ wr.i >= Len(rh.keys)
    /\ Sync
    /\ pc' = "stamp"
    /\ UNCHANGED <<status, rh, cur, tgt, wr, rd, lives, log, acked>>

StampMinute ==
    /\ pc = "stamp" /\ status = "open"
    /\ WriteStamp(slotOf(wr.m), wr.m)
    /\ acked' = [acked EXCEPT ![slotOf(wr.m)] = wr.m]
    /\ pc' = "idle" /\ wr' = NoWrite
    /\ UNCHANGED <<status, rh, cur, tgt, rd, lives, log>>

-----------------------------------------------------------------------------
(* Errors.  A system call of the writer fails, because the disk does or    *)
(* because Close ran (Close does not take ring.mu): the operation returns  *)
(* the error and undoes nothing.  A WriteAt that fails may have written    *)
(* part of its bytes: of a header, that is a torn copy.                    *)

WriteFails ==
    /\ pc \notin {"idle"} /\ ~Creating
    /\ "io" \in Faults \/ status # "open"
    /\ pc' = "idle" /\ tgt' = NoTgt /\ wr' = NoWrite
    /\ \/ UNCHANGED <<hdr, hdrMay>>
       \/ /\ pc = "headerWrite" /\ status = "open"
          /\ hdr' = [hdr EXCEPT ![Other] = Torn]
          /\ hdrMay' = [hdrMay EXCEPT ![Other] = @ \cup {Torn}]
    /\ UNCHANGED <<groups, groupsMay, stamp, stampMay, col, colMay, status,
                   rh, cur, rd, lives, log, acked>>

\* createRing removes the temporary file, or the process dies and the next
\* createRing truncates it: either way there is no ring at the path.
CreateFails ==
    /\ Creating
    /\ Faults # {}
    /\ hdr' = [i \in Copies |-> Torn] /\ hdrMay' = [i \in Copies |-> {Torn}]
    /\ pc' = "idle"
    /\ UNCHANGED <<groups, groupsMay, stamp, stampMay, col, colMay, status,
                   rh, cur, tgt, wr, rd, lives, log, acked>>

\* Close waits for the readers in flight (ring.cmu), not for the writer.
Close ==
    /\ status = "open"
    /\ \A r \in Readers : rd[r].pc = "idle"
    /\ status' = "closed"
    /\ UNCHANGED <<file, rh, cur, writer, rd, lives, log, acked>>

\* The process dies; the page cache survives it.
Kill ==
    /\ "restart" \in Faults
    /\ status \in {"open", "closed"} /\ ~Creating
    /\ status' = "closed"
    /\ pc' = "idle" /\ tgt' = NoTgt /\ wr' = NoWrite
    /\ rd' = [r \in Readers |-> NoRead]
    /\ UNCHANGED <<file, rh, cur, lives, log, acked>>

\* Every cell is left with one of the values it may have on the disk.
PowerLoss ==
    /\ "power" \in Faults
    /\ status \in {"open", "closed"} /\ ~Creating
    /\ \E h \in Outcomes(Copies, hdr, hdrMay), g \in groupsMay,
          s \in Outcomes(Slots, stamp, stampMay), x \in Outcomes(Cells, col, colMay) :
          /\ hdr' = h    /\ hdrMay' = [i \in Copies |-> {h[i]}]
          /\ groups' = g /\ groupsMay' = {g}
          /\ stamp' = s  /\ stampMay' = [i \in Slots |-> {s[i]}]
          /\ col' = x    /\ colMay' = [i \in Cells |-> {x[i]}]
          /\ acked' = s
    /\ status' = "lost"
    /\ pc' = "idle" /\ tgt' = NoTgt /\ wr' = NoWrite
    /\ rd' = [r \in Readers |-> NoRead]
    /\ UNCHANGED <<rh, cur, lives, log>>

\* openRing by the next process: after a power loss, or from the page cache.
Open ==
    /\ status = "lost" \/ (status = "closed" /\ "restart" \in Faults)
    /\ pc = "idle" /\ lives < MaxLives
    /\ lives' = lives + 1
    /\ LET c == parseRing(hdr, groups)
       IN  IF c = -1
             THEN /\ status' = "corrupt"
                  /\ UNCHANGED <<rh, cur>>
             ELSE /\ status' = "open"
                  /\ rh' = hdr[c] /\ cur' = c
    /\ UNCHANGED <<file, writer, rd, log, acked>>

-----------------------------------------------------------------------------
(* readWindow, for one minute of its window and one series of its keys:    *)
(* stamp, the columns in order, stamp again.  Slots of a window and series *)
(* are accepted or dropped one by one, so one cell shows what all do.      *)

InFlight == IF pc \in {"invalidSync", "columns", "stamp"} THEN 1 ELSE 0

ReadBefore(r, m, i) ==
    /\ status = "open" /\ rd[r].pc = "idle"
    /\ i < Len(rh.keys)
    /\ rd' = [rd EXCEPT ![r] =
                 [pc |-> "columns", m |-> m, i |-> i, before |-> stamp[slotOf(m)],
                  vals |-> <<>>, after |-> 0, seen |-> Len(log) - InFlight]]
    /\ UNCHANGED <<file, status, rh, cur, writer, lives, log, acked>>

ReadColumn(r) ==
    /\ rd[r].pc = "columns" /\ Len(rd[r].vals) < NCols
    /\ LET x == <<rd[r].i, Len(rd[r].vals), slotOf(rd[r].m)>>
       IN  rd' = [rd EXCEPT ![r].vals = Append(@, col[x])]
    /\ UNCHANGED <<file, status, rh, cur, writer, lives, log, acked>>

ReadAfter(r) ==
    /\ rd[r].pc = "columns" /\ Len(rd[r].vals) = NCols
    /\ rd' = [rd EXCEPT ![r].after = stamp[slotOf(rd[r].m)], ![r].pc = "done"]
    /\ UNCHANGED <<file, status, rh, cur, writer, lives, log, acked>>

ReadReturn(r) ==
    /\ rd[r].pc = "done"
    /\ rd' = [rd EXCEPT ![r] = NoRead]
    /\ UNCHANGED <<file, status, rh, cur, writer, lives, log, acked>>

\* The cell of a finished read is OK: the caller sees its values.
Accepted(r) ==
    LET q == rd[r]
    IN  /\ q.pc = "done"
        /\ q.before = q.m /\ q.after = q.m
        /\ \A c \in 1..NCols : q.vals[c] # NaN

-----------------------------------------------------------------------------
WriterNext ==
    \/ HeaderWrite \/ HeaderSync
    \/ \E k \in Keys : AddSeries(k)
    \/ AddSync
    \/ \E f \in BOOLEAN : SetForgotten(f)
    \/ \E m \in 1..MaxMinute, v \in SUBSET (0..(Len(rh.keys) - 1)) : WriteMinute(m, v)
    \/ InvalidSync \/ WriteColumn \/ ColumnsSync \/ StampMinute

FaultNext ==
    \/ WriteFails \/ CreateFails \/ Kill \/ PowerLoss

ReaderNext ==
    \E r \in Readers :
        \/ \E m \in 1..MaxMinute, i \in 0..(MaxSeries - 1) : ReadBefore(r, m, i)
        \/ ReadColumn(r) \/ ReadAfter(r) \/ ReadReturn(r)

Next ==
    \/ CreateWrite \/ CreateSync \/ CreateRename
    \/ WriterNext
    \/ Close \/ Open
    \/ FaultNext
    \/ ReaderNext

Spec == Init /\ [][Next]_vars

-----------------------------------------------------------------------------
(* Properties.                                                             *)

HdrType == /\ hdr \in [Copies -> Headers]
           /\ hdrMay \in [Copies -> SUBSET Headers]

DataType == /\ groups \in 0..MaxSeries /\ groupsMay \in SUBSET (0..MaxSeries)
            /\ stamp \in [Slots -> Nat] /\ stampMay \in [Slots -> SUBSET Nat]
            /\ col \in [Cells -> Values] /\ colMay \in [Cells -> SUBSET Values]

RingType == /\ status \in {"absent", "open", "closed", "lost", "corrupt"}
            /\ rh \in Headers /\ Len(rh.keys) <= MaxSeries
            /\ cur \in Copies
            /\ lives \in Nat

WriterType ==
    /\ pc \in {"idle", "createSync", "createRename", "addSync", "headerWrite",
               "headerSync", "invalidSync", "columns", "stamp"}
    /\ tgt \in Headers /\ Len(tgt.keys) <= MaxSeries
    /\ wr \in [m : Nat, v : SUBSET (0..(MaxSeries - 1)),
               i : 0..MaxSeries, c : 0..(NCols - 1)]

ReaderType == rd \in [Readers -> [pc : {"idle", "columns", "done"}, m : Nat,
                                  i : 0..(MaxSeries - 1), before : Nat,
                                  vals : Seq(Values), after : Nat, seen : Int]]

HistoryType == /\ log \in Seq(Nat) /\ Len(log) <= MaxWrites
               /\ acked \in [Slots -> Nat]

\* Every variable holds a value the code's types and caps allow: in particular
\* the loop of writeMinute stays inside the columns of the ring's series.
TypeOK == HdrType /\ DataType /\ RingType /\ WriterType /\ ReaderType /\ HistoryType

\* "one valid copy survives a torn header write": whatever a power loss leaves,
\* parseRing finds a ring, with the header last acknowledged or a newer one,
\* and the file is long enough for it.  (writeHeader, parseRing.)
HeaderSurvives ==
    status \in {"open", "closed", "lost"} =>
        \A a \in hdrMay[0], b \in hdrMay[1], g \in groupsMay :
            LET h == [i \in Copies |-> IF i = 0 THEN a ELSE b]
                c == parseRing(h, g)
            IN  /\ c # -1
                /\ h[c] = rh \/ h[c].seq > rh.seq

\* The weakest reading of the same comment: some copy is valid.
OneValidCopy ==
    status \in {"open", "closed", "lost"} =>
        \A a \in hdrMay[0], b \in hdrMay[1] : a.ok \/ b.ok

\* A series keeps its column: across header writes, errors, power losses and
\* reopening, the acknowledged keys stay where they are and new ones follow.
KeysStable == [][IsPrefix(rh.keys, rh'.keys)]_vars

Referenced(i) == \E c \in Copies : \E h \in hdrMay[c] : h.ok /\ i < Len(h.keys)

WholeSeries(i, s, w) ==
    \E v \in {w, NaN} : \A c \in 0..(NCols - 1) : colMay[<<i, c, s>>] = {v}

\* A stamp that may be found on the disk vouches for the columns beside it:
\* every series a recovered header can name holds, in all its columns, the
\* values of one and the same writeMinute of that minute, or gaps.
StampedWhole ==
    \A s \in Slots : \A t \in stampMay[s] \ {0} :
        \E w \in 1..Len(log) :
            /\ log[w] = t
            /\ \A i \in 0..(MaxSeries - 1) : Referenced(i) => WholeSeries(i, s, w)

\* A power loss costs at most one acknowledged minute: writeMinute does not sync
\* its stamp, but the next one syncs before it touches another slot.
LoseOneMinute ==
    Cardinality({s \in Slots : acked[s] # 0 /\ stampMay[s] # {acked[s]}}) <= 1

\* A cell readWindow accepts comes whole from one writeMinute of its minute,
\* although reader and writer share no lock.  The one exception is the known
\* limit of readWindow: a write of the same minute overlapped the read.
ReadWhole ==
    \A r \in Readers : Accepted(r) =>
        LET q == rd[r]
        IN  \/ \E w \in 1..Len(log) : /\ log[w] = q.m
                                     /\ \A c \in 1..NCols : q.vals[c] = w
            \/ \E w \in (q.seen + 1)..Len(log) : log[w] = q.m

=============================================================================
