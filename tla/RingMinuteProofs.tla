-------------------------- MODULE RingMinuteProofs --------------------------
(***************************************************************************)
(* A stamp on the disk vouches for the columns beside it, with every fault *)
(* of RingFile: I/O errors, power losses and reopening from the page       *)
(* cache.  What the header protocol still gives then is weaker than in     *)
(* RingFileProofs: rh is in the cache, and not always on the disk.         *)
(***************************************************************************)
EXTENDS RingFileProofs, FiniteSetTheorems

-----------------------------------------------------------------------------
(* The inductive invariant.                                                *)

Live == status \in {"open", "closed"}

\* The value the page cache shows is one of those that may be on the disk.
InCache == /\ \A c \in Copies : hdr[c] \in hdrMay[c]
           /\ groups \in groupsMay
           /\ \A s \in Slots : stamp[s] \in stampMay[s]
           /\ \A x \in Cells : col[x] \in colMay[x]

\* Where the writer can be, given the state of the ring.
PhaseInv ==
    /\ status = "absent" => \A c \in Copies : \A h \in hdrMay[c] : Len(h.keys) = 0
    /\ Creating => status = "absent" /\ hdr = Fresh
    /\ pc = "createRename" => \A c \in Copies : hdrMay[c] = {hdr[c]}
    /\ pc \notin {"idle", "createSync", "createRename"} => Live
    /\ status = "lost" => \A c \in Copies : hdrMay[c] = {hdr[c]}

\* The file has the groups of every header that may be found in it.
RoomInv == \A c \in Copies : \A h \in hdrMay[c] :
               h.ok => \A g \in groupsMay : Len(h.keys) <= g

SeqInv == \A a \in hdrMay[0], b \in hdrMay[1] : a.ok /\ b.ok => a.seq # b.seq

\* The header in force is in the cache, and only an unfinished writeHeader
\* can have left a newer one there.
NewestInv == Live =>
    /\ hdr[cur] = rh /\ rh.ok
    /\ \A h \in hdrMay[cur] : h.ok => h.seq <= rh.seq
    /\ \A h \in hdrMay[Other] : h.ok => h.seq <= rh.seq + 1
    /\ hdr[Other].ok => \/ hdr[Other].seq < rh.seq
                        \/ Len(hdr[Other].keys) >= Len(rh.keys)

Clean(i) == \A c \in 0..(NCols - 1), s \in Slots : colMay[<<i, c, s>>] = {NaN}

\* A series that only the older of two headers names holds gaps.
PairInv ==
    \A a \in hdrMay[0], b \in hdrMay[1], i \in 0..(MaxSeries - 1) :
        a.ok /\ b.ok /\ ( \/ b.seq < a.seq /\ Len(a.keys) <= i /\ i < Len(b.keys)
                          \/ a.seq < b.seq /\ Len(b.keys) <= i /\ i < Len(a.keys) )
        => Clean(i)

\* So does a series the header in force does not name but another one may.
GapInv == Live => \A i \in 0..(MaxSeries - 1) :
                      Referenced(i) /\ i >= Len(rh.keys) => Clean(i)

\* A header is written when the columns of what it adds are on the disk.
NextInv ==
    /\ pc \in {"addSync", "headerWrite", "headerSync"} =>
           /\ tgt.ok /\ Len(rh.keys) <= Len(tgt.keys)
           /\ Len(tgt.keys) <= Len(rh.keys) + 1
    /\ pc = "addSync" =>
           /\ Len(tgt.keys) <= groups
           /\ \A c \in 0..(NCols - 1), s \in Slots : col[<<Len(rh.keys), c, s>>] = NaN
    /\ pc \in {"headerWrite", "headerSync"} =>
           /\ \A g \in groupsMay : Len(tgt.keys) <= g
           /\ \A i \in 0..(MaxSeries - 1) :
                  i >= Len(rh.keys) /\ i < Len(tgt.keys) => Clean(i)
    /\ pc = "headerSync" => hdr[Other] = tgt /\ tgt.seq = rh.seq + 1

\* What the columns of series i hold after the loop of writeMinute.
Val(i) == IF i \in wr.v THEN Len(log) ELSE NaN

Done(i, c) == i < wr.i \/ (i = wr.i /\ c < wr.c)

MinuteInv ==
    /\ InFlight = 1 => /\ Len(log) >= 1 /\ log[Len(log)] = wr.m
                       /\ stamp[slotOf(wr.m)] = 0
    /\ pc = "invalidSync" => wr.i = 0 /\ wr.c = 0
    /\ pc \in {"columns", "stamp"} =>
           /\ stampMay[slotOf(wr.m)] = {0}
           /\ \A c \in Copies : hdrMay[c] = {hdr[c]}
    /\ pc = "columns" =>
           \A i \in 0..(MaxSeries - 1), c \in 0..(NCols - 1) :
               i < Len(rh.keys) /\ Done(i, c) => col[<<i, c, slotOf(wr.m)>>] = Val(i)
    /\ pc = "stamp" =>
           \A i \in 0..(MaxSeries - 1), c \in 0..(NCols - 1) :
               i < Len(rh.keys) => colMay[<<i, c, slotOf(wr.m)>>] = {Val(i)}

FileInv == InCache /\ PhaseInv /\ RoomInv /\ SeqInv /\ PairInv

RingInv == FileInv /\ NewestInv /\ GapInv /\ NextInv /\ MinuteInv /\ StampedWhole

-----------------------------------------------------------------------------
(* Lemmas.                                                                 *)

\* The types the proofs below use.
LEMMA Typing ==
    ASSUME TypeOK
    PROVE  /\ cur \in Copies /\ Other \in Copies /\ Other # cur /\ cur = 1 - Other
           /\ rh \in Headers /\ tgt \in Headers
           /\ rh.keys \in Seq(Keys) /\ tgt.keys \in Seq(Keys)
           /\ Len(rh.keys) \in 0..MaxSeries /\ Len(tgt.keys) \in 0..MaxSeries
           /\ rh.seq \in Nat /\ groups \in Nat /\ groupsMay \subseteq Nat
           /\ \A c \in Copies : hdr[c] \in Headers /\ hdrMay[c] \subseteq Headers
           /\ \A h \in Headers : h.seq \in Nat /\ Len(h.keys) \in Nat /\ h.ok \in BOOLEAN
           /\ Copies = {0, 1} /\ Len(log) \in Nat
<1>1. cur \in Copies /\ Other \in Copies /\ Other # cur /\ cur = 1 - Other /\ Copies = {0, 1}
      BY DEF TypeOK, RingType, Other, Copies
<1>2. rh \in Headers /\ tgt \in Headers
      BY DEF TypeOK, RingType, WriterType
<1>3. groups \in Nat /\ groupsMay \subseteq Nat
      BY MaxSeriesAssumption DEF TypeOK, DataType
<1>4. \A h \in Headers : h.seq \in Nat /\ Len(h.keys) \in Nat /\ h.ok \in BOOLEAN
      BY HeaderLemma DEF Headers
<1>5. Len(rh.keys) \in 0..MaxSeries /\ Len(tgt.keys) \in 0..MaxSeries
      BY <1>2, HeaderLemma, MaxSeriesAssumption DEF TypeOK, RingType, WriterType
<1>6. \A c \in Copies : hdr[c] \in Headers /\ hdrMay[c] \subseteq Headers
      BY DEF TypeOK, HdrType
<1>7. Len(log) \in Nat BY DEF TypeOK, HistoryType
<1>. QED BY <1>1, <1>2, <1>3, <1>4, <1>5, <1>6, <1>7, HeaderLemma

\* A step after which no valid header, no group count, no stamp but 0 and no
\* value can be on the disk that could not be there before, and the log grows.
Narrows ==
    /\ \A c \in Copies : \A h \in hdrMay'[c] : h.ok => h \in hdrMay[c]
    /\ groupsMay' \subseteq groupsMay
    /\ \A s \in Slots : stampMay'[s] \subseteq stampMay[s] \cup {0}
    /\ \A x \in Cells : colMay'[x] \subseteq colMay[x] /\ colMay'[x] # {}
    /\ Len(log) <= Len(log') /\ \A w \in 1..Len(log) : log'[w] = log[w]

\* Such a step keeps what is said of the disk.
LEMMA NarrowLemma ==
    ASSUME TypeOK, TypeOK', Narrows
    PROVE  /\ \A i \in 0..(MaxSeries - 1) : Clean(i) => Clean(i)'
           /\ \A i : Referenced(i)' => Referenced(i)
           /\ RoomInv => RoomInv'
           /\ SeqInv => SeqInv'
           /\ PairInv => PairInv'
           /\ StampedWhole => StampedWhole'
<1>1. \A i \in 0..(MaxSeries - 1), c \in 0..(NCols - 1), s \in Slots : <<i, c, s>> \in Cells
      BY DEF Cells
<1>2. ASSUME NEW i \in 0..(MaxSeries - 1), Clean(i) PROVE Clean(i)'
      BY <1>1, <1>2 DEF Clean, Narrows
<1>3. ASSUME NEW i, Referenced(i)' PROVE Referenced(i)
      BY <1>3 DEF Referenced, Narrows
<1>4. RoomInv => RoomInv' BY DEF RoomInv, Narrows
<1>5. SeqInv => SeqInv' BY DEF SeqInv, Narrows, Copies
<1>6. PairInv => PairInv'
      <2>. SUFFICES ASSUME PairInv,
                           NEW a \in hdrMay'[0], NEW b \in hdrMay'[1],
                           NEW i \in 0..(MaxSeries - 1), a.ok, b.ok,
                           \/ b.seq < a.seq /\ Len(a.keys) <= i /\ i < Len(b.keys)
                           \/ a.seq < b.seq /\ Len(b.keys) <= i /\ i < Len(a.keys)
                    PROVE  Clean(i)'
           BY DEF PairInv
      <2>1. a \in hdrMay[0] /\ b \in hdrMay[1] BY DEF Narrows, Copies
      <2>2. Clean(i) BY <2>1 DEF PairInv
      <2>. QED BY <2>2, <1>2
<1>7. StampedWhole => StampedWhole'
      <2>. SUFFICES ASSUME StampedWhole, NEW s \in Slots, NEW t \in stampMay'[s] \ {0}
                    PROVE  \E w \in 1..Len(log') :
                               /\ log'[w] = t
                               /\ \A i \in 0..(MaxSeries - 1) :
                                      Referenced(i)' => WholeSeries(i, s, w)'
           BY DEF StampedWhole
      <2>1. t \in stampMay[s] \ {0} BY DEF Narrows
      <2>2. PICK w \in 1..Len(log) :
                 /\ log[w] = t
                 /\ \A i \in 0..(MaxSeries - 1) : Referenced(i) => WholeSeries(i, s, w)
            BY <2>1 DEF StampedWhole
      <2>3. w \in 1..Len(log') /\ log'[w] = t
            BY <2>2 DEF Narrows, TypeOK, HistoryType
      <2>4. ASSUME NEW i \in 0..(MaxSeries - 1), Referenced(i)' PROVE WholeSeries(i, s, w)'
            <3>1. PICK v \in {w, NaN} : \A c \in 0..(NCols - 1) : colMay[<<i, c, s>>] = {v}
                  BY <2>2, <2>4, <1>3 DEF WholeSeries
            <3>2. \A c \in 0..(NCols - 1) : colMay'[<<i, c, s>>] = {v}
                  BY <3>1, <1>1 DEF Narrows
            <3>. QED BY <3>2 DEF WholeSeries
      <2>. QED BY <2>3, <2>4
<1>. QED BY <1>2, <1>3, <1>4, <1>5, <1>6, <1>7

\* The disk after a sync, or untouched, is one a step that narrows leaves.
LEMMA SyncNarrows ==
    ASSUME TypeOK, InCache, Sync \/ UNCHANGED file, log' = log
    PROVE  Narrows /\ InCache'
<1>. Len(log) \in Nat BY Typing
<1>1. CASE Sync
      <2>1. Narrows BY <1>1 DEF Sync, Narrows, InCache
      <2>2. InCache' BY <1>1 DEF Sync, InCache
      <2>. QED BY <2>1, <2>2
<1>2. CASE UNCHANGED file BY <1>2 DEF file, Narrows, InCache
<1>. QED BY <1>1, <1>2

LEMMA RingInit == Init => RingInv
<1>. SUFFICES ASSUME Init PROVE RingInv
     OBVIOUS
<1>. USE MinutesAssumption, MaxSeriesAssumption, NColsAssumption DEF Init
<1>1. InCache BY DEF InCache
<1>2. PhaseInv BY DEF PhaseInv, Creating, Torn
<1>3. RoomInv /\ SeqInv /\ PairInv
      BY DEF RoomInv, SeqInv, PairInv, Torn, Copies
<1>4. NewestInv /\ GapInv BY DEF NewestInv, GapInv, Live
<1>5. NextInv BY DEF NextInv
<1>6. MinuteInv BY DEF MinuteInv, InFlight
<1>7. StampedWhole BY DEF StampedWhole
<1>. QED BY <1>1, <1>2, <1>3, <1>4, <1>5, <1>6, <1>7 DEF RingInv, FileInv

\* Steps of the readers, and stuttering.
LEMMA QuietStep ==
    ASSUME RingInv, UNCHANGED <<file, status, rh, cur, pc, tgt, wr, log>>
    PROVE  RingInv'
<1>. USE DEF file, RingInv, FileInv, Live, Other, Referenced, Clean
<1>1. (InCache /\ PhaseInv)' BY DEF InCache, PhaseInv, Creating
<1>2. (RoomInv /\ SeqInv /\ PairInv)' BY DEF RoomInv, SeqInv, PairInv
<1>3. (NewestInv /\ GapInv /\ NextInv)' BY DEF NewestInv, GapInv, NextInv
<1>4. MinuteInv' BY DEF MinuteInv, InFlight, Val, Done
<1>5. StampedWhole' BY DEF StampedWhole, WholeSeries
<1>. QED BY <1>1, <1>2, <1>3, <1>4, <1>5

\* createRing: no header names a series yet.
LEMMA CreateStep ==
    ASSUME TypeOK, TypeOK', RingInv,
           CreateWrite \/ CreateSync \/ CreateRename \/ CreateFails
    PROVE  RingInv'
<1>. USE DEF Live, Creating
<1>0. /\ \A c \in Copies : Fresh[c].ok /\ Len(Fresh[c].keys) = 0 /\ Fresh[c].seq = 1 - c
      /\ Len(Torn.keys) = 0 /\ ~Torn.ok
      BY DEF Fresh, Header, Torn
<1>1. CASE CreateWrite
      <2>1. /\ status = "absent" /\ pc' = "createSync" /\ hdr' = Fresh
            /\ hdrMay' = [i \in Copies |-> {Torn, Fresh[i]}]
            /\ UNCHANGED <<groups, groupsMay, stamp, stampMay, col, colMay, status, log>>
            BY <1>1 DEF CreateWrite
      <2>2. \A c \in Copies : \A h \in hdrMay'[c] : Len(h.keys) = 0
            BY <2>1, <1>0
      <2>3. InCache' BY <2>1 DEF RingInv, FileInv, InCache
      <2>4. PhaseInv' BY <2>1, <2>2 DEF PhaseInv
      <2>5. RoomInv' BY <2>1, <2>2, Typing DEF RoomInv
      <2>6. SeqInv' BY <2>1, <1>0 DEF SeqInv, Copies
      <2>7. PairInv' BY <2>2 DEF PairInv, Copies
      <2>8. (NewestInv /\ GapInv /\ NextInv /\ MinuteInv)'
            BY <2>1 DEF NewestInv, GapInv, NextInv, MinuteInv, InFlight
      <2>9. \A i \in 0..(MaxSeries - 1) : ~Referenced(i)'
            BY <2>2 DEF Referenced
      <2>10. StampedWhole' BY <2>1, <2>9 DEF RingInv, StampedWhole
      <2>. QED BY <2>3, <2>4, <2>5, <2>6, <2>7, <2>8, <2>10 DEF RingInv, FileInv
<1>2. CASE CreateSync
      <2>1. /\ pc = "createSync" /\ pc' = "createRename" /\ Sync
            /\ UNCHANGED <<status, log>>
            BY <1>2 DEF CreateSync
      <2>2. Narrows /\ InCache' BY <2>1, SyncNarrows DEF RingInv, FileInv
      <2>3. (RoomInv /\ SeqInv /\ PairInv /\ StampedWhole)'
            BY <2>2, NarrowLemma DEF RingInv, FileInv
      <2>4. PhaseInv' BY <2>1 DEF Sync, RingInv, FileInv, PhaseInv, InCache
      <2>5. (NewestInv /\ GapInv /\ NextInv /\ MinuteInv)'
            BY <2>1 DEF RingInv, FileInv, PhaseInv, NewestInv, GapInv, NextInv, MinuteInv, InFlight
      <2>. QED BY <2>2, <2>3, <2>4, <2>5 DEF RingInv, FileInv
<1>3. CASE CreateRename
      <2>1. /\ pc = "createRename" /\ pc' = "idle" /\ UNCHANGED file /\ UNCHANGED log
            /\ status = "absent" /\ hdr = Fresh
            /\ \A c \in Copies : hdrMay[c] = {hdr[c]}
            BY <1>3 DEF CreateRename, RingInv, FileInv, PhaseInv
      <2>2. Narrows /\ InCache' BY <2>1, SyncNarrows DEF RingInv, FileInv
      <2>3. (RoomInv /\ SeqInv /\ PairInv /\ StampedWhole)'
            BY <2>2, NarrowLemma DEF RingInv, FileInv
      <2>4. status' \in {"open", "corrupt"} BY <1>3 DEF CreateRename
      <2>5. PhaseInv' BY <2>1, <2>4 DEF file, PhaseInv
      <2>6. NewestInv'
            <3>1. hdr[0].ok /\ hdr[0].seq = 1 /\ hdr[1].ok /\ hdr[1].seq = 0
                  BY <2>1, <1>0 DEF Copies
            <3>2. status' = "open" => rh' = hdr[0] /\ cur' = 0 /\ Other' = 1
                  BY <1>3, <3>1 DEF CreateRename, parseRing, Latest, Other
            <3>3. UNCHANGED <<hdr, hdrMay>> BY <2>1 DEF file
            <3>. QED BY <2>1, <2>4, <3>1, <3>2, <3>3 DEF NewestInv, Copies
      <2>7. \A i \in 0..(MaxSeries - 1) : ~Referenced(i)'
            BY <2>1, <1>0 DEF file, Referenced
      <2>8. (GapInv /\ NextInv /\ MinuteInv)'
            BY <2>1, <2>7 DEF GapInv, NextInv, MinuteInv, InFlight
      <2>. QED BY <2>2, <2>3, <2>5, <2>6, <2>8 DEF RingInv, FileInv
<1>4. CASE CreateFails
      <2>1. /\ status = "absent" /\ pc' = "idle" /\ hdr' = [i \in Copies |-> Torn]
            /\ hdrMay' = [i \in Copies |-> {Torn}]
            /\ UNCHANGED <<groups, groupsMay, stamp, stampMay, col, colMay, status, log>>
            BY <1>4 DEF CreateFails, RingInv, FileInv, PhaseInv
      <2>2. Narrows
            BY <2>1, <1>0, Typing DEF Narrows, RingInv, FileInv, InCache
      <2>3. (RoomInv /\ SeqInv /\ PairInv /\ StampedWhole)'
            BY <2>2, NarrowLemma DEF RingInv, FileInv
      <2>4. InCache' BY <2>1 DEF RingInv, FileInv, InCache
      <2>5. PhaseInv' BY <2>1, <1>0 DEF PhaseInv
      <2>6. (NewestInv /\ GapInv /\ NextInv /\ MinuteInv)'
            BY <2>1 DEF NewestInv, GapInv, NextInv, MinuteInv, InFlight
      <2>. QED BY <2>3, <2>4, <2>5, <2>6 DEF RingInv, FileInv
<1>. QED BY <1>1, <1>2, <1>3, <1>4

\* writeHeader: the copy it writes names what has its columns on the disk.
LEMMA WriteHeaderStep ==
    ASSUME TypeOK, TypeOK', RingInv, HeaderWrite \/ HeaderSync
    PROVE  RingInv'
<1>. USE DEF Live, Creating
<1>1. CASE HeaderWrite
      <2>. DEFINE h == tgt'
      <2>1. /\ h.ok = tgt.ok /\ h.keys = tgt.keys /\ h.seq = rh.seq + 1
            <3>1. rh.seq + 1 \in Nat BY Typing
            <3>. QED BY <1>1, <3>1, Typing, HeaderLemma DEF HeaderWrite
      <2>2. /\ hdr' = [hdr EXCEPT ![Other] = h]
            /\ hdrMay' = [hdrMay EXCEPT ![Other] = @ \cup {Torn, h}]
            /\ pc = "headerWrite" /\ status = "open" /\ pc' = "headerSync"
            /\ UNCHANGED <<groups, groupsMay, stamp, stampMay, col, colMay,
                           status, rh, cur, log>>
            /\ Other' = Other
            BY <1>1 DEF HeaderWrite, Other
      <2>3. /\ tgt.ok /\ Len(rh.keys) <= Len(tgt.keys) /\ Len(tgt.keys) <= Len(rh.keys) + 1
            /\ \A g \in groupsMay : Len(tgt.keys) <= g
            /\ \A i \in 0..(MaxSeries - 1) :
                   i >= Len(rh.keys) /\ i < Len(tgt.keys) => Clean(i)
            BY <2>2 DEF RingInv, NextInv
      <2>4. /\ hdr'[cur] = hdr[cur] /\ hdrMay'[cur] = hdrMay[cur]
            /\ hdr'[Other] = h /\ hdrMay'[Other] = hdrMay[Other] \cup {Torn, h}
            BY <2>2, Typing DEF TypeOK, HdrType
      <2>5. /\ hdr[cur] = rh /\ rh.ok
            /\ \A a \in hdrMay[cur] : a.ok => a.seq <= rh.seq
            /\ \A a \in hdrMay[Other] : a.ok => a.seq <= rh.seq + 1
            BY <2>2 DEF RingInv, NewestInv
      <2>6. ~Torn.ok BY DEF Torn
      <2>7. \A i \in 0..(MaxSeries - 1) : Clean(i) => Clean(i)'
            BY <2>2 DEF Clean
      <2>. HIDE DEF h
      <2>8. InCache'
            <3>1. \A c \in Copies : hdr'[c] \in hdrMay'[c]
                  BY <2>2, <2>4, Typing DEF RingInv, FileInv, InCache
            <3>. QED BY <2>2, <3>1 DEF RingInv, FileInv, InCache
      <2>9. PhaseInv' BY <2>2 DEF PhaseInv
      <2>10. RoomInv'
            <3>1. \A g \in groupsMay : Len(h.keys) <= g BY <2>1, <2>3
            <3>2. \A c \in Copies : \A a \in hdrMay'[c] : a.ok => a = h \/ a \in hdrMay[c]
                  BY <2>4, <2>6, Typing
            <3>. QED BY <2>2, <3>1, <3>2 DEF RingInv, FileInv, RoomInv
      <2>11. SeqInv'
            <3>1. \A a \in hdrMay[cur] : a.ok => a.seq # h.seq
                  BY <2>1, <2>5, Typing
            <3>2. CASE cur = 0
                  BY <2>4, <2>6, <3>1, <3>2, Typing DEF RingInv, FileInv, SeqInv
            <3>3. CASE cur = 1
                  BY <2>4, <2>6, <3>1, <3>3, Typing DEF RingInv, FileInv, SeqInv
            <3>. QED BY <3>2, <3>3, Typing
      <2>12. ASSUME NEW i \in 0..(MaxSeries - 1), i >= Len(rh.keys),
                    Referenced(i) \/ i < Len(h.keys)
             PROVE  Clean(i)
             BY <2>1, <2>2, <2>3, <2>12 DEF RingInv, GapInv
      <2>13. \A i \in 0..(MaxSeries - 1) :
                Referenced(i)' => Referenced(i) \/ i < Len(h.keys)
            <3>. SUFFICES ASSUME NEW i \in 0..(MaxSeries - 1), NEW c \in Copies,
                                 NEW a \in hdrMay'[c], a.ok, i < Len(a.keys)
                          PROVE  Referenced(i) \/ i < Len(h.keys)
                 BY DEF Referenced
            <3>1. a = h \/ a \in hdrMay[c] BY <2>4, <2>6, Typing
            <3>. QED BY <3>1 DEF Referenced
      <2>14. PairInv'
            <3>1. ASSUME NEW a \in hdrMay[cur], a.ok, NEW i \in 0..(MaxSeries - 1),
                         \/ h.seq < a.seq /\ Len(a.keys) <= i /\ i < Len(h.keys)
                         \/ a.seq < h.seq /\ Len(h.keys) <= i /\ i < Len(a.keys)
                  PROVE  Clean(i)
                  <4>1. a.seq < h.seq BY <2>1, <2>5, <3>1, Typing
                  <4>2. a.seq \in Nat /\ h.seq \in Nat BY <2>1, Typing
                  <4>3. Len(h.keys) <= i /\ i < Len(a.keys) BY <3>1, <4>1, <4>2
                  <4>4. Referenced(i) BY <3>1, <4>3, Typing DEF Referenced
                  <4>5. i >= Len(rh.keys) BY <2>1, <2>3, <4>3, Typing
                  <4>. QED BY <4>4, <4>5, <2>12
            <3>2. CASE cur = 0
                  BY <2>4, <2>6, <2>7, <3>1, <3>2, Typing DEF RingInv, FileInv, PairInv
            <3>3. CASE cur = 1
                  BY <2>4, <2>6, <2>7, <3>1, <3>3, Typing DEF RingInv, FileInv, PairInv
            <3>. QED BY <3>2, <3>3, Typing
      <2>15. NewestInv'
            <3>1. \A a \in hdrMay'[Other] : a.ok => a.seq <= rh.seq + 1
                  BY <2>1, <2>4, <2>5, <2>6, Typing
            <3>. QED BY <2>1, <2>2, <2>3, <2>4, <2>5, <3>1 DEF NewestInv
      <2>16. GapInv' BY <2>2, <2>7, <2>12, <2>13 DEF GapInv
      <2>17. NextInv' BY <2>1, <2>2, <2>3, <2>4, <2>7 DEF NextInv, h
      <2>18. MinuteInv' BY <2>2 DEF MinuteInv, InFlight
      <2>19. StampedWhole'
            <3>. SUFFICES ASSUME NEW s \in Slots, NEW t \in stampMay[s] \ {0}
                          PROVE  \E w \in 1..Len(log) :
                                     /\ log[w] = t
                                     /\ \A i \in 0..(MaxSeries - 1) :
                                            Referenced(i)' => WholeSeries(i, s, w)'
                 BY <2>2 DEF StampedWhole
            <3>1. PICK w \in 1..Len(log) :
                       /\ log[w] = t
                       /\ \A i \in 0..(MaxSeries - 1) : Referenced(i) => WholeSeries(i, s, w)
                  BY DEF RingInv, StampedWhole
            <3>2. ASSUME NEW i \in 0..(MaxSeries - 1), Referenced(i)'
                  PROVE  WholeSeries(i, s, w)'
                  <4>1. CASE Referenced(i)
                        BY <2>2, <3>1, <4>1 DEF WholeSeries
                  <4>2. CASE ~Referenced(i)
                        <5>1. i < Len(h.keys) BY <2>13, <3>2, <4>2
                        <5>2. i >= Len(rh.keys)
                              BY <2>5, <4>2, Typing DEF Referenced, RingInv, FileInv, InCache
                        <5>3. Clean(i) BY <2>12, <5>1, <5>2
                        <5>. QED BY <2>2, <5>3 DEF Clean, WholeSeries
                  <4>. QED BY <4>1, <4>2
            <3>. QED BY <3>1, <3>2
      <2>. QED
            BY <2>8, <2>9, <2>10, <2>11, <2>14, <2>15, <2>16, <2>17, <2>18, <2>19
            DEF RingInv, FileInv
<1>2. CASE HeaderSync
      <2>1. /\ pc = "headerSync" /\ status = "open" /\ pc' = "idle" /\ Sync
            /\ rh' = tgt /\ cur' = Other /\ Other' = cur
            /\ UNCHANGED <<status, log>>
            BY <1>2, Typing DEF HeaderSync, Other
      <2>2. /\ hdr[Other] = tgt /\ tgt.seq = rh.seq + 1 /\ hdr[cur] = rh
            /\ tgt.ok /\ rh.ok /\ Len(rh.keys) <= Len(tgt.keys)
            BY <2>1 DEF RingInv, NewestInv, NextInv
      <2>3. Narrows /\ InCache' BY <2>1, SyncNarrows DEF RingInv, FileInv
      <2>4. (RoomInv /\ SeqInv /\ PairInv /\ StampedWhole)'
            BY <2>3, NarrowLemma DEF RingInv, FileInv
      <2>5. (PhaseInv /\ NextInv /\ MinuteInv)'
            BY <2>1 DEF PhaseInv, NextInv, MinuteInv, InFlight
      <2>6. NewestInv' BY <2>1, <2>2, Typing DEF Sync, NewestInv
      <2>7. GapInv'
            <3>. SUFFICES ASSUME NEW i \in 0..(MaxSeries - 1), Referenced(i)', i >= Len(tgt.keys)
                          PROVE  Clean(i)'
                 BY <2>1 DEF GapInv
            <3>1. i >= Len(rh.keys) BY <2>2, Typing
            <3>2. Clean(i) BY <2>1, <2>3, <3>1, NarrowLemma DEF RingInv, GapInv
            <3>. QED BY <2>3, <3>2, NarrowLemma
      <2>. QED BY <2>3, <2>4, <2>5, <2>6, <2>7 DEF RingInv, FileInv
<1>. QED BY <1>1, <1>2

\* addSeries fills the columns of the group after the last; setForgotten
\* goes to writeHeader at once.
LEMMA PrepareStep ==
    ASSUME TypeOK, TypeOK', RingInv,
           \/ \E k \in Keys : AddSeries(k)
           \/ AddSync
           \/ \E f \in BOOLEAN : SetForgotten(f)
    PROVE  RingInv'
<1>. USE DEF Live, Creating
<1>1. ASSUME NEW k \in Keys, AddSeries(k) PROVE RingInv'
      <2>. DEFINE n    == Len(rh.keys)
                  mine == {x \in Cells : x[1] = n}
                  top  == IF groups > n THEN groups ELSE n + 1
      <2>1. /\ pc = "idle" /\ status = "open" /\ pc' = "addSync"
            /\ groups' = top /\ groupsMay' = groupsMay \cup {top}
            /\ tgt' = [rh EXCEPT !.keys = Append(@, k)]
            /\ UNCHANGED <<hdr, hdrMay, stamp, stampMay, status, rh, cur, log>>
            /\ Other' = Other /\ n < MaxSeries
            BY <1>1 DEF AddSeries, Other
      <2>2. /\ \A x \in Cells : x[1] # n => col'[x] = col[x] /\ colMay'[x] = colMay[x]
            /\ \A x \in Cells : x[1] = n =>
                   /\ col'[x] = NaN /\ NaN \in colMay'[x]
                   /\ groups > n => colMay'[x] = colMay[x] \cup {NaN}
            BY <1>1 DEF AddSeries
      <2>3. tgt'.ok = rh.ok /\ Len(tgt'.keys) = n + 1
            BY <2>1, Typing, HeaderLemma DEF Headers
      <2>4. top \in Nat /\ top >= groups /\ top >= n + 1 BY Typing
      <2>5. hdr[cur] = rh /\ rh.ok /\ groups \in groupsMay
            BY <2>1 DEF RingInv, FileInv, NewestInv, InCache
      <2>. HIDE DEF n, mine, top
      <2>6. \A i \in 0..(MaxSeries - 1), c \in 0..(NCols - 1), s \in Slots :
                <<i, c, s>> \in Cells /\ <<i, c, s>>[1] = i
            BY DEF Cells
      <2>7. ASSUME NEW i \in 0..(MaxSeries - 1), Referenced(i) PROVE i < groups
            <3>1. PICK c \in Copies : \E h \in hdrMay[c] : h.ok /\ i < Len(h.keys)
                  BY <2>7 DEF Referenced
            <3>2. PICK h \in hdrMay[c] : h.ok /\ i < Len(h.keys)
                  BY <3>1
            <3>3. Len(h.keys) <= groups BY <2>5, <3>2 DEF RingInv, FileInv, RoomInv
            <3>. QED BY <3>2, <3>3, Typing
      <2>8. ASSUME NEW i \in 0..(MaxSeries - 1), Referenced(i), Clean(i) PROVE Clean(i)'
            <3>1. CASE i = n
                  BY <2>2, <2>6, <2>7, <2>8, <3>1 DEF Clean
            <3>2. CASE i # n
                  BY <2>2, <2>6, <2>8, <3>2 DEF Clean
            <3>. QED BY <3>1, <3>2
      <2>9. InCache'
            <3>1. \A x \in Cells : col'[x] \in colMay'[x]
                  BY <2>2 DEF RingInv, FileInv, InCache
            <3>. QED BY <2>1, <3>1 DEF RingInv, FileInv, InCache
      <2>10. PhaseInv' BY <2>1 DEF PhaseInv
      <2>11. RoomInv'
            <3>. SUFFICES ASSUME NEW c \in Copies, NEW h \in hdrMay[c], h.ok
                          PROVE  Len(h.keys) <= top
                 BY <2>1 DEF RingInv, FileInv, RoomInv
            <3>1. Len(h.keys) <= groups BY <2>5 DEF RingInv, FileInv, RoomInv
            <3>. QED BY <3>1, <2>4, Typing
      <2>12. SeqInv' BY <2>1 DEF RingInv, FileInv, SeqInv
      <2>13. PairInv'
            <3>. SUFFICES ASSUME NEW a \in hdrMay[0], NEW b \in hdrMay[1],
                                 NEW i \in 0..(MaxSeries - 1), a.ok, b.ok,
                                 \/ b.seq < a.seq /\ Len(a.keys) <= i /\ i < Len(b.keys)
                                 \/ a.seq < b.seq /\ Len(b.keys) <= i /\ i < Len(a.keys)
                          PROVE  Clean(i)'
                 BY <2>1 DEF PairInv
            <3>1. Clean(i) BY DEF RingInv, FileInv, PairInv
            <3>2. Referenced(i) BY Typing DEF Referenced
            <3>. QED BY <3>1, <3>2, <2>8
      <2>14. NewestInv' BY <2>1 DEF RingInv, NewestInv
      <2>15. GapInv' BY <2>1, <2>8 DEF RingInv, GapInv, Referenced
      <2>16. NextInv'
            <3>1. n \in 0..(MaxSeries - 1) BY <2>1, MaxSeriesAssumption, Typing DEF n
            <3>2. \A c \in 0..(NCols - 1), s \in Slots : col'[<<n, c, s>>] = NaN
                  BY <2>2, <2>6, <3>1
            <3>3. Len(rh'.keys) = n /\ n \in Nat BY <2>1, Typing DEF n
            <3>4. /\ tgt'.ok /\ Len(rh'.keys) <= Len(tgt'.keys)
                  /\ Len(tgt'.keys) <= Len(rh'.keys) + 1 /\ Len(tgt'.keys) <= groups'
                  BY <2>1, <2>3, <2>4, <2>5, <3>3
            <3>. QED BY <2>1, <3>2, <3>3, <3>4 DEF NextInv
      <2>17. MinuteInv' BY <2>1 DEF MinuteInv, InFlight
      <2>18. StampedWhole'
            <3>. SUFFICES ASSUME NEW s \in Slots, NEW t \in stampMay[s] \ {0}
                          PROVE  \E w \in 1..Len(log) :
                                     /\ log[w] = t
                                     /\ \A i \in 0..(MaxSeries - 1) :
                                            Referenced(i) => WholeSeries(i, s, w)'
                 BY <2>1 DEF StampedWhole, Referenced
            <3>1. PICK w \in 1..Len(log) :
                       /\ log[w] = t
                       /\ \A i \in 0..(MaxSeries - 1) : Referenced(i) => WholeSeries(i, s, w)
                  BY DEF RingInv, StampedWhole
            <3>2. ASSUME NEW i \in 0..(MaxSeries - 1), Referenced(i)
                  PROVE  WholeSeries(i, s, w)'
                  <4>1. CASE i = n
                        <5>1. Clean(i)
                              BY <2>1, <3>2, <4>1, Typing DEF RingInv, GapInv, n
                        <5>. QED BY <2>8, <3>2, <5>1 DEF Clean, WholeSeries
                  <4>2. CASE i # n
                        BY <2>2, <2>6, <3>1, <3>2, <4>2 DEF WholeSeries
                  <4>. QED BY <4>1, <4>2
            <3>. QED BY <3>1, <3>2
      <2>. QED
            BY <2>9, <2>10, <2>11, <2>12, <2>13, <2>14, <2>15, <2>16, <2>17, <2>18
            DEF RingInv, FileInv
<1>2. CASE AddSync
      <2>1. /\ pc = "addSync" /\ status = "open" /\ pc' = "headerWrite" /\ Sync
            /\ UNCHANGED <<status, rh, cur, tgt, log>> /\ Other' = Other
            BY <1>2 DEF AddSync, Other
      <2>2. Narrows /\ InCache' BY <2>1, SyncNarrows DEF RingInv, FileInv
      <2>3. (RoomInv /\ SeqInv /\ PairInv /\ StampedWhole)'
            BY <2>2, NarrowLemma DEF RingInv, FileInv
      <2>4. (PhaseInv /\ MinuteInv)' BY <2>1 DEF PhaseInv, MinuteInv, InFlight
      <2>5. NewestInv'
            BY <2>1, Typing DEF Sync, RingInv, FileInv, InCache, NewestInv
      <2>6. GapInv' BY <2>1, <2>2, NarrowLemma DEF RingInv, GapInv
      <2>7. NextInv'
            <3>1. \A i \in 0..(MaxSeries - 1) :
                      i >= Len(rh.keys) /\ i < Len(tgt.keys) => i = Len(rh.keys)
                  BY <2>1, Typing DEF RingInv, NextInv
            <3>2. \A i \in 0..(MaxSeries - 1), c \in 0..(NCols - 1), s \in Slots :
                      colMay'[<<i, c, s>>] = {col[<<i, c, s>>]}
                  BY <2>1 DEF Sync, Cells
            <3>3. \A i \in 0..(MaxSeries - 1) :
                      i >= Len(rh.keys) /\ i < Len(tgt.keys) => Clean(i)'
                  BY <2>1, <3>1, <3>2 DEF RingInv, NextInv, Clean
            <3>. QED BY <2>1, <3>3 DEF Sync, RingInv, NextInv
      <2>. QED BY <2>2, <2>3, <2>4, <2>5, <2>6, <2>7 DEF RingInv, FileInv
<1>3. ASSUME NEW f \in BOOLEAN, SetForgotten(f) PROVE RingInv'
      <2>1. /\ pc = "idle" /\ status = "open" /\ pc' = "headerWrite" /\ UNCHANGED file
            /\ UNCHANGED <<status, rh, cur, log>> /\ Other' = Other
            /\ tgt'.ok = rh.ok /\ tgt'.keys = rh.keys
            BY <1>3, Typing DEF SetForgotten, Other, Headers
      <2>2. Narrows /\ InCache' BY <2>1, SyncNarrows DEF RingInv, FileInv
      <2>3. (RoomInv /\ SeqInv /\ PairInv /\ StampedWhole)'
            BY <2>2, NarrowLemma DEF RingInv, FileInv
      <2>4. (PhaseInv /\ MinuteInv)' BY <2>1 DEF PhaseInv, MinuteInv, InFlight
      <2>5. NewestInv' BY <2>1 DEF file, RingInv, NewestInv
      <2>6. GapInv' BY <2>1, <2>2, NarrowLemma DEF RingInv, GapInv
      <2>7. NextInv'
            <3>1. \A g \in groupsMay : Len(rh.keys) <= g
                  BY <2>1, Typing DEF RingInv, FileInv, RoomInv, NewestInv, InCache
            <3>2. Len(rh'.keys) = Len(tgt'.keys) /\ Len(rh'.keys) \in Nat
                  BY <2>1, Typing
            <3>3. groupsMay' = groupsMay BY <2>1 DEF file
            <3>4. rh.ok BY <2>1 DEF RingInv, NewestInv
            <3>5. tgt'.ok /\ \A g \in groupsMay' : Len(tgt'.keys) <= g
                  BY <2>1, <3>1, <3>3, <3>4
            <3>. QED BY <2>1, <3>2, <3>5 DEF NextInv
      <2>. QED BY <2>2, <2>3, <2>4, <2>5, <2>6, <2>7 DEF RingInv, FileInv
<1>. QED BY <1>1, <1>2, <1>3

\* writeMinute: while it writes columns its slot has no stamp on the disk, and
\* every sync in it leaves one header on the disk, the one in the cache.
LEMMA MinuteStep ==
    ASSUME TypeOK, TypeOK', RingInv,
           \/ \E m \in 1..MaxMinute, v \in SUBSET (0..(Len(rh.keys) - 1)) : WriteMinute(m, v)
           \/ InvalidSync \/ WriteColumn \/ ColumnsSync \/ StampMinute
    PROVE  RingInv'
<1>. USE DEF Live, Creating
<1>0. /\ wr.m \in Nat /\ slotOf(wr.m) \in Slots /\ wr.i \in Nat /\ wr.c \in Nat
      /\ \A i \in 0..(MaxSeries - 1), c \in 0..(NCols - 1), s \in Slots : <<i, c, s>> \in Cells
      BY SlotLemma DEF TypeOK, WriterType, Cells
<1>1. ASSUME NEW m \in 1..MaxMinute, NEW v \in SUBSET (0..(Len(rh.keys) - 1)),
             WriteMinute(m, v)
      PROVE  RingInv'
      <2>1. /\ pc = "idle" /\ status = "open" /\ pc' = "invalidSync"
            /\ stamp' = [stamp EXCEPT ![slotOf(m)] = 0]
            /\ stampMay' = [stampMay EXCEPT ![slotOf(m)] = @ \cup {0}]
            /\ UNCHANGED <<hdr, hdrMay, groups, groupsMay, col, colMay, status, rh, cur, tgt>>
            /\ wr' = [m |-> m, v |-> v, i |-> 0, c |-> 0]
            /\ log' = Append(log, m) /\ Other' = Other
            BY <1>1 DEF WriteMinute, WriteStamp, Other
      <2>2. /\ Len(log') = Len(log) + 1 /\ log'[Len(log')] = m
            /\ \A w \in 1..Len(log) : log'[w] = log[w]
            BY <2>1, BoundsAssumption DEF TypeOK, HistoryType
      <2>3. slotOf(m) \in Slots BY SlotLemma
      <2>4. /\ \A s \in Slots : stampMay'[s] \subseteq stampMay[s] \cup {0}
            /\ \A s \in Slots : stamp'[s] \in stampMay'[s]
            /\ stamp'[slotOf(m)] = 0
            BY <2>1, <2>3 DEF RingInv, FileInv, InCache, TypeOK, DataType
      <2>5. Narrows
            <3>1. \A x \in Cells : colMay[x] # {} BY DEF RingInv, FileInv, InCache
            <3>2. Len(log) <= Len(log') BY <2>2, Typing
            <3>. QED BY <2>1, <2>2, <2>4, <3>1, <3>2 DEF Narrows
      <2>6. InCache' BY <2>1, <2>4 DEF RingInv, FileInv, InCache
      <2>7. (RoomInv /\ SeqInv /\ PairInv /\ StampedWhole)'
            BY <2>5, NarrowLemma DEF RingInv, FileInv
      <2>8. (PhaseInv /\ NextInv)' BY <2>1 DEF PhaseInv, NextInv
      <2>9. (NewestInv /\ GapInv)'
            BY <2>1 DEF RingInv, NewestInv, GapInv, Referenced, Clean
      <2>10. MinuteInv' BY <2>1, <2>2, <2>4, Typing DEF MinuteInv, InFlight
      <2>. QED BY <2>6, <2>7, <2>8, <2>9, <2>10 DEF RingInv, FileInv
<1>2. ASSUME InvalidSync \/ ColumnsSync PROVE RingInv'
      <2>1. /\ pc \in {"invalidSync", "columns"} /\ status = "open" /\ Sync
            /\ UNCHANGED <<status, rh, cur, tgt, wr, log>> /\ Other' = Other
            /\ pc = "invalidSync" => pc' = "columns" /\ InvalidSync
            /\ pc = "columns" => pc' = "stamp" /\ ColumnsSync
            BY <1>2 DEF InvalidSync, ColumnsSync, Other
      <2>2. Narrows /\ InCache' BY <2>1, SyncNarrows DEF RingInv, FileInv
      <2>3. (RoomInv /\ SeqInv /\ PairInv /\ StampedWhole)'
            BY <2>2, NarrowLemma DEF RingInv, FileInv
      <2>4. (PhaseInv /\ NextInv)' BY <2>1 DEF PhaseInv, NextInv
      <2>5. NewestInv'
            BY <2>1, Typing DEF Sync, RingInv, FileInv, InCache, NewestInv
      <2>6. GapInv' BY <2>1, <2>2, NarrowLemma DEF RingInv, GapInv
      <2>7. MinuteInv'
            <3>1. /\ Len(log) >= 1 /\ log[Len(log)] = wr.m /\ stamp[slotOf(wr.m)] = 0
                  BY <2>1 DEF RingInv, MinuteInv, InFlight
            <3>2. /\ stampMay'[slotOf(wr.m)] = {0} /\ stamp' = stamp /\ hdr' = hdr
                  /\ \A c \in Copies : hdrMay'[c] = {hdr[c]}
                  /\ \A x \in Cells : colMay'[x] = {col[x]}
                  BY <2>1, <3>1, <1>0 DEF Sync
            <3>3. CASE pc = "invalidSync"
                  <4>1. \A i \in 0..(MaxSeries - 1), c \in 0..(NCols - 1) : ~Done(i, c)
                        BY <3>3 DEF RingInv, MinuteInv, Done
                  <4>. QED BY <2>1, <3>1, <3>2, <3>3, <4>1 DEF MinuteInv, InFlight, Done, InvalidSync
            <3>4. CASE pc = "columns"
                  <4>1. wr.i >= Len(rh.keys) BY <2>1, <3>4 DEF ColumnsSync
                  <4>2. \A i \in 0..(MaxSeries - 1), c \in 0..(NCols - 1) :
                            i < Len(rh.keys) => col[<<i, c, slotOf(wr.m)>>] = Val(i)
                        BY <3>4, <4>1, <1>0, Typing DEF RingInv, MinuteInv, Done
                  <4>3. \A i : Val(i)' = Val(i) BY <2>1 DEF Val
                  <4>. QED BY <2>1, <3>1, <3>2, <3>4, <4>2, <4>3, <1>0 DEF MinuteInv, InFlight
            <3>. QED BY <2>1, <3>3, <3>4
      <2>. QED BY <2>2, <2>3, <2>4, <2>5, <2>6, <2>7 DEF RingInv, FileInv
<1>3. CASE WriteColumn
      <2>. DEFINE x == <<wr.i, wr.c, slotOf(wr.m)>>
                  v == Val(wr.i)
      <2>1. /\ pc = "columns" /\ status = "open" /\ wr.i < Len(rh.keys)
            /\ col' = [col EXCEPT ![x] = v]
            /\ colMay' = [colMay EXCEPT ![x] = @ \cup {v}]
            /\ wr' = NextColumn
            /\ UNCHANGED <<hdr, hdrMay, groups, groupsMay, stamp, stampMay, status,
                           rh, cur, pc, tgt, log>>
            /\ Other' = Other
            BY <1>3 DEF WriteColumn, Val, Other
      <2>2. x \in Cells
            <3>1. wr.c \in 0..(NCols - 1) BY DEF TypeOK, WriterType
            <3>2. wr.i \in 0..(MaxSeries - 1)
                  BY <2>1, <1>0, MaxSeriesAssumption, Typing
            <3>. QED BY <3>1, <3>2, <1>0
      <2>3. /\ col'[x] = v /\ colMay'[x] = colMay[x] \cup {v}
            /\ \A y \in Cells : y # x => col'[y] = col[y] /\ colMay'[y] = colMay[y]
            BY <2>1, <2>2 DEF TypeOK, DataType
      <2>. HIDE DEF v
      <2>4. /\ stampMay[slotOf(wr.m)] = {0} /\ stamp[slotOf(wr.m)] = 0
            /\ \A c \in Copies : hdrMay[c] = {hdr[c]}
            /\ Len(log) >= 1 /\ log[Len(log)] = wr.m
            BY <2>1 DEF RingInv, MinuteInv, InFlight
      <2>5. \A i \in 0..(MaxSeries - 1) : i # wr.i /\ Clean(i) => Clean(i)'
            BY <2>3, <1>0 DEF Clean
      <2>6. InCache' BY <2>1, <2>3 DEF RingInv, FileInv, InCache
      <2>7. (PhaseInv /\ RoomInv /\ SeqInv /\ NewestInv)'
            BY <2>1 DEF RingInv, FileInv, PhaseInv, RoomInv, SeqInv, NewestInv
      <2>8. GapInv'
            <3>. SUFFICES ASSUME NEW i \in 0..(MaxSeries - 1), Referenced(i), i >= Len(rh.keys)
                          PROVE  Clean(i)'
                 BY <2>1 DEF GapInv, Referenced
            <3>. QED BY <2>1, <2>5, <1>0, Typing DEF RingInv, GapInv
      <2>9. PairInv'
            <3>. SUFFICES ASSUME NEW i \in 0..(MaxSeries - 1), hdr[0].ok, hdr[1].ok,
                                 \/ /\ hdr[1].seq < hdr[0].seq
                                    /\ Len(hdr[0].keys) <= i /\ i < Len(hdr[1].keys)
                                 \/ /\ hdr[0].seq < hdr[1].seq
                                    /\ Len(hdr[1].keys) <= i /\ i < Len(hdr[0].keys)
                          PROVE  Clean(i)'
                 BY <2>1, <2>4 DEF PairInv, Copies
            <3>1. Clean(i) BY <2>4 DEF RingInv, FileInv, PairInv, Copies
            <3>2. /\ hdr[cur] = rh
                  /\ hdr[Other].ok => \/ hdr[Other].seq < rh.seq
                                      \/ Len(hdr[Other].keys) >= Len(rh.keys)
                  BY <2>1 DEF RingInv, NewestInv
            <3>3. i >= Len(rh.keys)
                  <4>1. CASE cur = 0 BY <3>2, <4>1, Typing
                  <4>2. CASE cur = 1 BY <3>2, <4>2, Typing
                  <4>. QED BY <4>1, <4>2, Typing
            <3>. QED BY <2>1, <2>5, <3>1, <3>3, <1>0, Typing
      <2>10. NextInv' BY <2>1 DEF NextInv
      <2>11. MinuteInv'
            <3>1. wr'.m = wr.m /\ wr'.v = wr.v
                  BY <2>1 DEF NextColumn, TypeOK, WriterType
            <3>2. \A i \in 0..(MaxSeries - 1), c \in 0..(NCols - 1) :
                      Done(i, c)' => Done(i, c) \/ (i = wr.i /\ c = wr.c)
                  <4>1. CASE wr.c + 1 < NCols
                        <5>1. wr'.i = wr.i /\ wr'.c = wr.c + 1
                              BY <2>1, <4>1 DEF NextColumn, TypeOK, WriterType
                        <5>. QED BY <5>1, <1>0 DEF Done
                  <4>2. CASE ~(wr.c + 1 < NCols)
                        <5>1. wr'.i = wr.i + 1 /\ wr'.c = 0
                              BY <2>1, <4>2 DEF NextColumn, TypeOK, WriterType
                        <5>. QED BY <4>2, <5>1, <1>0, NColsAssumption DEF Done
                  <4>. QED BY <4>1, <4>2
            <3>3. \A i : Val(i)' = Val(i) BY <2>1, <3>1 DEF Val
            <3>4. ASSUME NEW i \in 0..(MaxSeries - 1), NEW c \in 0..(NCols - 1),
                         i < Len(rh.keys), Done(i, c)'
                  PROVE  col'[<<i, c, slotOf(wr.m)>>] = Val(i)
                  <4>1. CASE i = wr.i /\ c = wr.c
                        BY <2>3, <4>1 DEF v
                  <4>2. CASE ~(i = wr.i /\ c = wr.c)
                        <5>1. Done(i, c) BY <3>2, <3>4, <4>2
                        <5>2. <<i, c, slotOf(wr.m)>> # x BY <4>2
                        <5>3. col'[<<i, c, slotOf(wr.m)>>] = col[<<i, c, slotOf(wr.m)>>]
                              BY <2>3, <5>2, <1>0
                        <5>. QED BY <2>1, <3>4, <5>1, <5>3 DEF RingInv, MinuteInv
                  <4>. QED BY <4>1, <4>2
            <3>. QED BY <2>1, <2>4, <3>1, <3>3, <3>4 DEF MinuteInv, InFlight
      <2>12. StampedWhole'
            <3>. SUFFICES ASSUME NEW s \in Slots, NEW t \in stampMay[s] \ {0}
                          PROVE  \E w \in 1..Len(log) :
                                     /\ log[w] = t
                                     /\ \A i \in 0..(MaxSeries - 1) :
                                            Referenced(i) => WholeSeries(i, s, w)'
                 BY <2>1 DEF StampedWhole, Referenced
            <3>1. s # slotOf(wr.m) BY <2>4
            <3>2. \A i \in 0..(MaxSeries - 1), c \in 0..(NCols - 1) :
                      colMay'[<<i, c, s>>] = colMay[<<i, c, s>>]
                  BY <2>3, <3>1, <1>0
            <3>. QED BY <3>2 DEF RingInv, StampedWhole, WholeSeries
      <2>. QED
            BY <2>6, <2>7, <2>8, <2>9, <2>10, <2>11, <2>12 DEF RingInv, FileInv
<1>4. CASE StampMinute
      <2>1. /\ pc = "stamp" /\ status = "open" /\ pc' = "idle"
            /\ stamp' = [stamp EXCEPT ![slotOf(wr.m)] = wr.m]
            /\ stampMay' = [stampMay EXCEPT ![slotOf(wr.m)] = @ \cup {wr.m}]
            /\ UNCHANGED <<hdr, hdrMay, groups, groupsMay, col, colMay, status,
                           rh, cur, tgt, log>>
            /\ Other' = Other
            BY <1>4 DEF StampMinute, WriteStamp, Other
      <2>2. /\ stamp'[slotOf(wr.m)] = wr.m
            /\ stampMay'[slotOf(wr.m)] = stampMay[slotOf(wr.m)] \cup {wr.m}
            /\ \A s \in Slots : s # slotOf(wr.m) =>
                   stamp'[s] = stamp[s] /\ stampMay'[s] = stampMay[s]
            BY <2>1, <1>0 DEF TypeOK, DataType
      <2>3. /\ Len(log) >= 1 /\ log[Len(log)] = wr.m /\ stampMay[slotOf(wr.m)] = {0}
            /\ \A i \in 0..(MaxSeries - 1), c \in 0..(NCols - 1) :
                   i < Len(rh.keys) => colMay[<<i, c, slotOf(wr.m)>>] = {Val(i)}
            BY <2>1 DEF RingInv, MinuteInv, InFlight
      <2>4. InCache' BY <2>1, <2>2 DEF RingInv, FileInv, InCache
      <2>5. (PhaseInv /\ RoomInv /\ SeqInv /\ NewestInv)'
            BY <2>1 DEF RingInv, FileInv, PhaseInv, RoomInv, SeqInv, NewestInv
      <2>6. (PairInv /\ GapInv)'
            BY <2>1 DEF RingInv, FileInv, PairInv, GapInv, Clean, Referenced
      <2>7. (NextInv /\ MinuteInv)' BY <2>1 DEF NextInv, MinuteInv, InFlight
      <2>8. StampedWhole'
            <3>. SUFFICES ASSUME NEW s \in Slots, NEW t \in stampMay'[s] \ {0}
                          PROVE  \E w \in 1..Len(log) :
                                     /\ log[w] = t
                                     /\ \A i \in 0..(MaxSeries - 1) :
                                            Referenced(i) => WholeSeries(i, s, w)
                 <4>1. /\ \A i : Referenced(i)' = Referenced(i)
                       /\ \A i, s, w : WholeSeries(i, s, w)' = WholeSeries(i, s, w)
                       BY <2>1 DEF Referenced, WholeSeries
                 <4>. QED BY <2>1, <4>1 DEF StampedWhole
            <3>1. CASE t \in stampMay[s]
                  BY <3>1 DEF RingInv, StampedWhole
            <3>2. CASE t \notin stampMay[s]
                  <4>1. s = slotOf(wr.m) /\ t = wr.m BY <2>2, <3>2
                  <4>2. ASSUME NEW i \in 0..(MaxSeries - 1), Referenced(i)
                        PROVE  WholeSeries(i, s, Len(log))
                        <5>1. CASE i < Len(rh.keys)
                              BY <2>3, <4>1, <5>1 DEF Val, WholeSeries
                        <5>2. CASE ~(i < Len(rh.keys))
                              <6>1. Clean(i)
                                    BY <2>1, <4>2, <5>2, Typing DEF RingInv, GapInv
                              <6>. QED BY <6>1 DEF Clean, WholeSeries
                        <5>. QED BY <5>1, <5>2
                  <4>3. Len(log) \in 1..Len(log) BY <2>3, Typing
                  <4>. QED BY <2>3, <4>1, <4>2, <4>3
            <3>. QED BY <3>1, <3>2
      <2>. QED BY <2>4, <2>5, <2>6, <2>7, <2>8 DEF RingInv, FileInv
<1>. QED BY <1>1, <1>2, <1>3, <1>4

\* Errors, Close, the end of a process, and what the next one finds.
LEMMA FaultStep ==
    ASSUME TypeOK, TypeOK', RingInv,
           WriteFails \/ Close \/ Kill \/ PowerLoss \/ Open
    PROVE  RingInv'
<1>. USE DEF Live, Creating
<1>1. CASE WriteFails
      <2>1. /\ pc' = "idle" /\ Live
            /\ UNCHANGED <<groups, groupsMay, stamp, stampMay, col, colMay, status,
                           rh, cur, log>>
            /\ Other' = Other
            BY <1>1 DEF WriteFails, RingInv, FileInv, PhaseInv, Other
      <2>2. /\ hdr'[cur] = hdr[cur] /\ hdrMay'[cur] = hdrMay[cur]
            /\ \/ hdr'[Other] = hdr[Other] /\ hdrMay'[Other] = hdrMay[Other]
               \/ hdr'[Other] = Torn /\ hdrMay'[Other] = hdrMay[Other] \cup {Torn}
            BY <1>1, Typing DEF WriteFails, TypeOK, HdrType
      <2>3. ~Torn.ok BY DEF Torn
      <2>4. \A c \in Copies : c = cur \/ c = Other BY Typing
      <2>5. Narrows
            <3>1. \A x \in Cells : colMay[x] # {} BY DEF RingInv, FileInv, InCache
            <3>. QED BY <2>1, <2>2, <2>3, <2>4, <3>1, Typing DEF Narrows
      <2>6. (RoomInv /\ SeqInv /\ PairInv /\ StampedWhole)'
            BY <2>5, NarrowLemma DEF RingInv, FileInv
      <2>7. InCache'
            <3>1. \A c \in Copies : hdr'[c] \in hdrMay'[c]
                  BY <2>2, <2>4 DEF RingInv, FileInv, InCache
            <3>. QED BY <2>1, <3>1 DEF RingInv, FileInv, InCache
      <2>8. (PhaseInv /\ NextInv /\ MinuteInv)'
            BY <2>1 DEF PhaseInv, NextInv, MinuteInv, InFlight
      <2>9. NewestInv' BY <2>1, <2>2, <2>3 DEF RingInv, NewestInv
      <2>10. GapInv' BY <2>1, <2>5, NarrowLemma DEF RingInv, GapInv
      <2>. QED BY <2>6, <2>7, <2>8, <2>9, <2>10 DEF RingInv, FileInv
<1>2. CASE Close
      <2>1. /\ status = "open" /\ status' = "closed"
            /\ UNCHANGED file /\ UNCHANGED <<rh, cur, pc, tgt, wr, log>>
            /\ Other' = Other
            BY <1>2 DEF Close, writer, Other
      <2>2. Narrows /\ InCache' BY <2>1, SyncNarrows DEF RingInv, FileInv
      <2>3. (RoomInv /\ SeqInv /\ PairInv /\ StampedWhole)'
            BY <2>2, NarrowLemma DEF RingInv, FileInv
      <2>4. PhaseInv' BY <2>1 DEF RingInv, FileInv, PhaseInv
      <2>5. (NewestInv /\ NextInv)'
            BY <2>1 DEF file, RingInv, NewestInv, NextInv, Clean
      <2>6. GapInv' BY <2>1, <2>2, NarrowLemma DEF RingInv, GapInv
      <2>7. MinuteInv' BY <2>1 DEF file, RingInv, MinuteInv, InFlight, Val, Done
      <2>. QED BY <2>2, <2>3, <2>4, <2>5, <2>6, <2>7 DEF RingInv, FileInv
<1>3. CASE Kill
      <2>1. /\ Live /\ status' = "closed" /\ pc' = "idle"
            /\ UNCHANGED file /\ UNCHANGED <<rh, cur, log>> /\ Other' = Other
            BY <1>3 DEF Kill, Other
      <2>2. Narrows /\ InCache' BY <2>1, SyncNarrows DEF RingInv, FileInv
      <2>3. (RoomInv /\ SeqInv /\ PairInv /\ StampedWhole)'
            BY <2>2, NarrowLemma DEF RingInv, FileInv
      <2>4. (PhaseInv /\ NextInv /\ MinuteInv)'
            BY <2>1 DEF PhaseInv, NextInv, MinuteInv, InFlight
      <2>5. NewestInv' BY <2>1 DEF file, RingInv, NewestInv
      <2>6. GapInv' BY <2>1, <2>2, NarrowLemma DEF RingInv, GapInv
      <2>. QED BY <2>2, <2>3, <2>4, <2>5, <2>6 DEF RingInv, FileInv
<1>4. CASE PowerLoss
      <2>1. PICK h \in Outcomes(Copies, hdr, hdrMay), g \in groupsMay,
                 s \in Outcomes(Slots, stamp, stampMay), x \in Outcomes(Cells, col, colMay) :
                 /\ hdr' = h    /\ hdrMay' = [i \in Copies |-> {h[i]}]
                 /\ groups' = g /\ groupsMay' = {g}
                 /\ stamp' = s  /\ stampMay' = [i \in Slots |-> {s[i]}]
                 /\ col' = x    /\ colMay' = [i \in Cells |-> {x[i]}]
            BY <1>4 DEF PowerLoss
      <2>2. status' = "lost" /\ pc' = "idle" /\ UNCHANGED log
            BY <1>4 DEF PowerLoss
      <2>3. /\ \A c \in Copies : h[c] \in hdrMay[c]
            /\ \A i \in Slots : s[i] \in stampMay[i]
            /\ \A i \in Cells : x[i] \in colMay[i]
            BY OutcomesLemma
      <2>4. Narrows BY <2>1, <2>2, <2>3, Typing DEF Narrows
      <2>5. (RoomInv /\ SeqInv /\ PairInv /\ StampedWhole)'
            BY <2>4, NarrowLemma DEF RingInv, FileInv
      <2>6. InCache' BY <2>1 DEF InCache
      <2>7. PhaseInv' BY <2>1, <2>2 DEF PhaseInv
      <2>8. (NewestInv /\ GapInv /\ NextInv /\ MinuteInv)'
            BY <2>2 DEF NewestInv, GapInv, NextInv, MinuteInv, InFlight
      <2>. QED BY <2>5, <2>6, <2>7, <2>8 DEF RingInv, FileInv
<1>5. CASE Open
      <2>. DEFINE k == parseRing(hdr, groups)
      <2>1. /\ status \in {"lost", "closed"} /\ pc = "idle" /\ pc' = "idle"
            /\ UNCHANGED file /\ UNCHANGED log
            /\ \/ k = -1 /\ status' = "corrupt"
               \/ k # -1 /\ status' = "open" /\ rh' = hdr[k] /\ cur' = k /\ Other' = 1 - k
            BY <1>5 DEF Open, writer, Other
      <2>2. Narrows /\ InCache' BY <2>1, SyncNarrows DEF RingInv, FileInv
      <2>3. (RoomInv /\ SeqInv /\ PairInv /\ StampedWhole)'
            BY <2>2, NarrowLemma DEF RingInv, FileInv
      <2>4. (PhaseInv /\ NextInv /\ MinuteInv)'
            BY <2>1 DEF PhaseInv, NextInv, MinuteInv, InFlight
      <2>5. CASE k = -1
            BY <2>1, <2>2, <2>3, <2>4, <2>5 DEF RingInv, FileInv, NewestInv, GapInv
      <2>6. CASE k # -1
            <3>1. /\ k \in Copies /\ 1 - k \in Copies /\ hdr[k].ok
                  /\ hdr[1 - k].ok => hdr[1 - k].seq < hdr[k].seq
                  <4>1. hdr[0].ok /\ hdr[1].ok => hdr[0].seq # hdr[1].seq
                        BY DEF RingInv, FileInv, SeqInv, InCache, Copies
                  <4>2. hdr[0].seq \in Nat /\ hdr[1].seq \in Nat
                        /\ hdr[0].ok \in BOOLEAN /\ hdr[1].ok \in BOOLEAN
                        BY Typing
                  <4>3. k = Latest(hdr) BY <2>6 DEF parseRing
                  <4>4. Latest(hdr) \in {-1, 0, 1} BY DEF Latest
                  <4>5. CASE Latest(hdr) = 0
                        BY <4>1, <4>2, <4>3, <4>5, Typing DEF Latest
                  <4>6. CASE Latest(hdr) = 1
                        BY <4>1, <4>2, <4>3, <4>6, Typing DEF Latest
                  <4>. QED BY <2>6, <4>3, <4>4, <4>5, <4>6
            <3>2. /\ status' = "open" /\ rh' = hdr[k] /\ cur' = k /\ Other' = 1 - k
                  /\ UNCHANGED <<hdr, hdrMay, groups, groupsMay, colMay>>
                  BY <2>1, <2>6 DEF file
            <3>. HIDE DEF k
            <3>3. hdr[k].seq \in Nat /\ hdr[1 - k].seq \in Nat /\ Len(hdr[k].keys) \in Nat
                  BY <3>1, Typing
            <3>4. CASE status = "lost"
                  <4>1. \A c \in Copies : hdrMay[c] = {hdr[c]}
                        BY <3>4 DEF RingInv, FileInv, PhaseInv
                  <4>2. NewestInv' BY <3>1, <3>2, <3>3, <4>1 DEF NewestInv
                  <4>3. GapInv'
                        <5>. SUFFICES ASSUME NEW i \in 0..(MaxSeries - 1), Referenced(i),
                                             i >= Len(hdr[k].keys)
                                      PROVE  Clean(i)
                             BY <3>2 DEF GapInv, Referenced, Clean
                        <5>1. hdr[1 - k].ok /\ i < Len(hdr[1 - k].keys)
                              BY <3>1, <3>3, <4>1, Typing DEF Referenced
                        <5>2. hdr[0] \in hdrMay[0] /\ hdr[1] \in hdrMay[1]
                              BY <4>1 DEF Copies
                        <5>3. CASE k = 0
                              BY <3>1, <5>1, <5>2, <5>3, <3>3 DEF RingInv, FileInv, PairInv
                        <5>4. CASE k = 1
                              BY <3>1, <5>1, <5>2, <5>4, <3>3 DEF RingInv, FileInv, PairInv
                        <5>. QED BY <3>1, <5>3, <5>4 DEF Copies
                  <4>. QED BY <2>2, <2>3, <2>4, <4>2, <4>3 DEF RingInv, FileInv
            <3>5. CASE status = "closed"
                  <4>1. /\ hdr[cur] = rh /\ rh.ok
                        /\ \A h \in hdrMay[cur] : h.ok => h.seq <= rh.seq
                        /\ \A h \in hdrMay[Other] : h.ok => h.seq <= rh.seq + 1
                        /\ hdr[Other].ok => \/ hdr[Other].seq < rh.seq
                                            \/ Len(hdr[Other].keys) >= Len(rh.keys)
                        BY <3>5 DEF RingInv, NewestInv
                  <4>2. \A c \in Copies : \A h \in hdrMay[c] : h.seq \in Nat
                        BY Typing
                  <4>3. (k = cur /\ 1 - k = Other) \/ (k = Other /\ 1 - k = cur)
                        BY <3>1, Typing
                  <4>4. NewestInv' /\ Len(rh.keys) <= Len(hdr[k].keys)
                        <5>1. CASE k = cur /\ 1 - k = Other
                              BY <3>1, <3>2, <3>3, <4>1, <5>1 DEF NewestInv
                        <5>2. CASE k = Other /\ 1 - k = cur
                              <6>1. rh.seq < hdr[k].seq /\ Len(rh.keys) <= Len(hdr[k].keys)
                                    BY <3>1, <3>3, <4>1, <5>2, Typing
                              <6>2. \A h \in hdrMay[k] : h.ok => h.seq <= hdr[k].seq
                                    BY <3>1, <3>3, <4>1, <4>2, <5>2, <6>1, Typing
                              <6>3. \A h \in hdrMay[1 - k] : h.ok => h.seq <= hdr[k].seq + 1
                                    BY <3>1, <3>3, <4>1, <4>2, <5>2, <6>1, Typing
                              <6>. QED BY <3>1, <3>2, <6>1, <6>2, <6>3 DEF NewestInv
                        <5>. QED BY <4>3, <5>1, <5>2
                  <4>5. GapInv'
                        <5>. SUFFICES ASSUME NEW i \in 0..(MaxSeries - 1), Referenced(i),
                                             i >= Len(hdr[k].keys)
                                      PROVE  Clean(i)
                             BY <3>2 DEF GapInv, Referenced, Clean
                        <5>. QED BY <3>3, <3>5, <4>4, Typing DEF RingInv, GapInv
                  <4>. QED BY <2>2, <2>3, <2>4, <4>4, <4>5 DEF RingInv, FileInv
            <3>. QED BY <2>1, <3>4, <3>5
      <2>. QED BY <2>5, <2>6
<1>. QED BY <1>1, <1>2, <1>3, <1>4, <1>5

LEMMA RingStep == TypeOK /\ RingInv /\ [Next]_vars => RingInv'
<1>. SUFFICES ASSUME TypeOK, RingInv, [Next]_vars PROVE RingInv'
     OBVIOUS
<1>0. TypeOK' BY TypeStep
<1>1. CASE CreateWrite \/ CreateSync \/ CreateRename \/ CreateFails
      BY <1>0, <1>1, CreateStep
<1>2. CASE HeaderWrite \/ HeaderSync
      BY <1>0, <1>2, WriteHeaderStep
<1>3. CASE \/ \E k \in Keys : AddSeries(k)
           \/ AddSync
           \/ \E f \in BOOLEAN : SetForgotten(f)
      BY <1>0, <1>3, PrepareStep
<1>4. CASE \/ \E m \in 1..MaxMinute, v \in SUBSET (0..(Len(rh.keys) - 1)) : WriteMinute(m, v)
           \/ InvalidSync \/ WriteColumn \/ ColumnsSync \/ StampMinute
      BY <1>0, <1>4, MinuteStep
<1>5. CASE WriteFails \/ Close \/ Kill \/ PowerLoss \/ Open
      BY <1>0, <1>5, FaultStep
<1>6. CASE ReaderNext
      BY <1>6, QuietStep
      DEF ReaderNext, ReadBefore, ReadColumn, ReadAfter, ReadReturn, writer
<1>7. CASE UNCHANGED vars
      BY <1>7, QuietStep DEF vars, writer
<1>. QED
      BY <1>1, <1>2, <1>3, <1>4, <1>5, <1>6, <1>7 DEF Next, WriterNext, FaultNext

\* A stamp that may be found on the disk vouches for every series a recovered
\* header can name, whatever the writes, errors, power losses and reopenings
\* that led there: writeMinute's invalidate, sync, write, sync, stamp.
THEOREM StampCorrect == Spec => []StampedWhole
<1>1. Init => TypeOK /\ RingInv BY TypeInit, RingInit
<1>2. TypeOK /\ RingInv /\ [Next]_vars => (TypeOK /\ RingInv)'
      BY TypeStep, RingStep
<1>3. RingInv => StampedWhole BY DEF RingInv
<1>. QED BY <1>1, <1>2, <1>3, PTL DEF Spec

-----------------------------------------------------------------------------
(* writeMinute does not sync its stamp: how much can that cost?            *)

\* An acknowledged minute a power loss may take away.
AtRisk(s) == acked[s] # 0 /\ stampMay[s] # {acked[s]}

LossInv ==
    /\ \A s \in Slots : acked[s] # 0 => stamp[s] = acked[s]
    /\ pc \in {"columns", "stamp"} => \A s \in Slots : stampMay[s] = {stamp[s]}
    /\ \A s, t \in Slots : AtRisk(s) /\ AtRisk(t) => s = t

LEMMA LossInit == Init => LossInv
BY DEF Init, LossInv, AtRisk

\* A step that leaves every stamp and acknowledgement alone.
LEMMA LossFrame ==
    ASSUME LossInv, UNCHANGED <<stamp, stampMay, acked>>,
           pc' \in {"columns", "stamp"} => pc \in {"columns", "stamp"}
    PROVE  LossInv'
BY DEF LossInv, AtRisk

\* A step that puts every stamp on the disk.
LEMMA LossSync ==
    ASSUME LossInv, stampMay' = [s \in Slots |-> {stamp'[s]}],
           \A s \in Slots : acked'[s] # 0 => stamp'[s] = acked'[s]
    PROVE  LossInv'
BY DEF LossInv, AtRisk

LEMMA LossStep == TypeOK /\ LossInv /\ [Next]_vars => LossInv'
<1>. SUFFICES ASSUME TypeOK, LossInv, [Next]_vars PROVE LossInv'
     OBVIOUS
<1>1. CASE CreateSync \/ HeaderSync \/ AddSync \/ InvalidSync \/ ColumnsSync
      BY <1>1, LossSync
      DEF CreateSync, HeaderSync, AddSync, InvalidSync, ColumnsSync, Sync, LossInv
<1>2. CASE \/ CreateWrite \/ CreateRename \/ CreateFails \/ HeaderWrite
           \/ (\E k \in Keys : AddSeries(k))
           \/ (\E f \in BOOLEAN : SetForgotten(f))
           \/ WriteColumn \/ WriteFails \/ Close \/ Kill \/ Open
      BY <1>2, LossFrame
      DEF CreateWrite, CreateRename, CreateFails, HeaderWrite, AddSeries, SetForgotten,
          WriteColumn, WriteFails, Close, Kill, Open, file, writer
<1>3. CASE ReaderNext
      BY <1>3, LossFrame
      DEF ReaderNext, ReadBefore, ReadColumn, ReadAfter, ReadReturn, file, writer
<1>4. CASE UNCHANGED vars
      BY <1>4, LossFrame DEF vars, file, writer
<1>5. ASSUME NEW m \in 1..MaxMinute, NEW v \in SUBSET (0..(Len(rh.keys) - 1)),
             WriteMinute(m, v)
      PROVE  LossInv'
      <2>1. slotOf(m) \in Slots /\ pc' = "invalidSync" BY <1>5, SlotLemma DEF WriteMinute
      <2>2. /\ acked'[slotOf(m)] = 0
            /\ \A s \in Slots : s # slotOf(m) =>
                   /\ acked'[s] = acked[s] /\ stamp'[s] = stamp[s]
                   /\ stampMay'[s] = stampMay[s]
            BY <1>5, <2>1 DEF WriteMinute, WriteStamp, TypeOK, DataType, HistoryType
      <2>. QED BY <2>1, <2>2 DEF LossInv, AtRisk
<1>6. CASE StampMinute
      <2>1. slotOf(wr.m) \in Slots BY SlotLemma DEF TypeOK, WriterType
      <2>2. /\ pc = "stamp" /\ pc' = "idle"
            /\ acked'[slotOf(wr.m)] = wr.m /\ stamp'[slotOf(wr.m)] = wr.m
            /\ \A s \in Slots : s # slotOf(wr.m) =>
                   /\ acked'[s] = acked[s] /\ stamp'[s] = stamp[s]
                   /\ stampMay'[s] = stampMay[s]
            BY <1>6, <2>1 DEF StampMinute, WriteStamp, TypeOK, DataType, HistoryType
      <2>3. \A s \in Slots : s # slotOf(wr.m) => ~AtRisk(s)'
            BY <2>2 DEF LossInv, AtRisk
      <2>. QED BY <2>2, <2>3 DEF LossInv
<1>7. CASE PowerLoss
      BY <1>7, LossSync DEF PowerLoss
<1>. QED
      BY <1>1, <1>2, <1>3, <1>4, <1>5, <1>6, <1>7 DEF Next, WriterNext, FaultNext

\* A power loss costs at most one acknowledged minute, although writeMinute
\* never syncs its stamp: the next call syncs before it stamps another slot.
THEOREM LossCorrect == Spec => []LoseOneMinute
<1>1. Init => TypeOK /\ LossInv BY TypeInit, LossInit
<1>2. TypeOK /\ LossInv /\ [Next]_vars => (TypeOK /\ LossInv)'
      BY TypeStep, LossStep
<1>3. LossInv => LoseOneMinute
      <2>. SUFFICES ASSUME LossInv PROVE LoseOneMinute
           OBVIOUS
      <2>. DEFINE R == {s \in Slots : AtRisk(s)}
      <2>1. CASE R = {}
            <3>1. Cardinality(R) = 0 BY <2>1, FS_EmptySet
            <3>. QED BY <3>1 DEF LoseOneMinute, AtRisk
      <2>2. CASE R # {}
            <3>1. PICK s \in R : TRUE BY <2>2
            <3>2. R = {s} BY <3>1 DEF LossInv
            <3>3. Cardinality(R) = 1 BY <3>2, FS_Singleton
            <3>. QED BY <3>3 DEF LoseOneMinute, AtRisk
      <2>. QED BY <2>1, <2>2
<1>. QED BY <1>1, <1>2, <1>3, PTL DEF Spec
=============================================================================
