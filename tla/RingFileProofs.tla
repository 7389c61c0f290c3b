--------------------------- MODULE RingFileProofs ---------------------------
(***************************************************************************)
(* Theorems about RingFile, for every number of slots, series, columns,    *)
(* readers and bounds.                                                     *)
(***************************************************************************)
EXTENDS RingFile, TLAPS

-----------------------------------------------------------------------------
(* Lemmas on the operators of the model.                                   *)

\* A power loss gives every cell one of the values it may have.
LEMMA OutcomesLemma ==
    ASSUME NEW D, NEW now, NEW may, NEW f \in Outcomes(D, now, may)
    PROVE  /\ f = [x \in D |-> f[x]]
           /\ \A x \in D : f[x] \in may[x]
<1> DEFINE dirty == {x \in D : may[x] # {now[x]}}
<1>1. PICK g \in [dirty -> UNION {may[x] : x \in dirty}] :
           /\ \A x \in dirty : g[x] \in may[x]
           /\ f = [x \in D |-> IF x \in dirty THEN g[x] ELSE now[x]]
      BY DEF Outcomes
<1>2. ASSUME NEW x \in D PROVE f[x] \in may[x]
      <2>1. CASE x \in dirty BY <2>1, <1>1
      <2>2. CASE x \notin dirty BY <2>2, <1>1
      <2>. QED BY <2>1, <2>2
<1>. QED BY <1>1, <1>2

\* The slot of a minute is a slot of the ring.
LEMMA SlotLemma == ASSUME NEW m \in Nat PROVE slotOf(m) \in Slots
BY MinutesAssumption DEF slotOf, Slots

\* parseRing returns -1 or a copy that is valid and fits the file.
LEMMA ParseLemma ==
    ASSUME NEW h \in [Copies -> Headers], NEW g \in Nat
    PROVE  LET c == parseRing(h, g)
           IN  c = -1 \/ (c \in Copies /\ h[c].ok /\ Len(h[c].keys) <= g)
BY DEF parseRing, Latest, Copies, Headers

-----------------------------------------------------------------------------
(* Type correctness.                                                       *)

\* The headers the code builds are headers.
LEMMA TornLemma ==
    /\ Torn \in Headers /\ Len(Torn.keys) = 0
    /\ Fresh \in [Copies -> Headers]
BY DEF Torn, Fresh, Header, Headers, Copies

\* A header built from a header by changing one field.
LEMMA HeaderLemma ==
    \A h \in Headers :
          /\ h.seq \in Nat /\ h.keys \in Seq(Keys) /\ Len(h.keys) \in Nat
          /\ \A f \in BOOLEAN : /\ [h EXCEPT !.forgotten = f] \in Headers
                              /\ [h EXCEPT !.forgotten = f].keys = h.keys
          /\ \A n \in Nat : /\ [h EXCEPT !.seq = n] \in Headers
                           /\ [h EXCEPT !.seq = n].keys = h.keys
                           /\ [h EXCEPT !.seq = n].seq = n
                           /\ [h EXCEPT !.seq = n].ok = h.ok
          /\ \A k \in Keys : /\ [h EXCEPT !.keys = Append(@, k)] \in Headers
                            /\ [h EXCEPT !.keys = Append(@, k)].keys = Append(h.keys, k)
                            /\ Len(Append(h.keys, k)) = Len(h.keys) + 1
BY DEF Headers

LEMMA TypeInit == Init => TypeOK
<1>. SUFFICES ASSUME Init PROVE TypeOK
     OBVIOUS
<1>. USE MinutesAssumption, MaxSeriesAssumption, NColsAssumption, BoundsAssumption
<1>1. HdrType BY TornLemma DEF Init, HdrType
<1>2. DataType BY DEF Init, DataType, Values, Hole
<1>3. RingType BY DEF Init, RingType, Header, Headers, Copies
<1>4. WriterType BY TornLemma DEF Init, WriterType, NoTgt, NoWrite
<1>5. ReaderType BY DEF Init, ReaderType, NoRead
<1>6. HistoryType BY DEF Init, HistoryType
<1>. QED BY <1>1, <1>2, <1>3, <1>4, <1>5, <1>6 DEF TypeOK

LEMMA TypeStep == TypeOK /\ [Next]_vars => TypeOK'
<1>. SUFFICES ASSUME TypeOK, [Next]_vars PROVE TypeOK'
     OBVIOUS
<1>. USE MinutesAssumption, MaxSeriesAssumption, NColsAssumption, BoundsAssumption
<1>1. CASE CreateWrite
      <2>1. HdrType'
            BY <1>1, TornLemma DEF CreateWrite, TypeOK, HdrType
      <2>2. WriterType'
            BY <1>1 DEF CreateWrite, TypeOK, WriterType
      <2>3. (DataType /\ RingType /\ ReaderType /\ HistoryType)'
            BY <1>1 DEF CreateWrite, TypeOK, DataType, RingType, ReaderType, HistoryType
      <2>. QED BY <2>1, <2>2, <2>3 DEF TypeOK
<1>2. CASE CreateSync
      <2>1. HdrType'
            BY <1>2 DEF CreateSync, Sync, TypeOK, HdrType
      <2>2. DataType'
            BY <1>2 DEF CreateSync, Sync, TypeOK, DataType
      <2>3. WriterType'
            BY <1>2 DEF CreateSync, Sync, TypeOK, WriterType
      <2>4. (RingType /\ ReaderType /\ HistoryType)'
            BY <1>2 DEF CreateSync, Sync, TypeOK, RingType, ReaderType, HistoryType
      <2>. QED BY <2>1, <2>2, <2>3, <2>4 DEF TypeOK
<1>3. CASE CreateRename
      <2>1. RingType'
            BY <1>3, ParseLemma DEF CreateRename, file, TypeOK, RingType, HdrType, DataType
      <2>2. WriterType'
            BY <1>3 DEF CreateRename, file, TypeOK, WriterType
      <2>3. (HdrType /\ DataType /\ ReaderType /\ HistoryType)'
            BY <1>3 DEF CreateRename, file, TypeOK, HdrType, DataType, ReaderType, HistoryType
      <2>. QED BY <2>1, <2>2, <2>3 DEF TypeOK
<1>4. CASE HeaderWrite
      <2>. DEFINE h == [tgt EXCEPT !.seq = rh.seq + 1]
      <2>0. h \in Headers /\ h.keys = tgt.keys
            <3>1. rh.seq + 1 \in Nat BY HeaderLemma DEF TypeOK, RingType
            <3>. QED BY <3>1, HeaderLemma DEF TypeOK, WriterType
      <2>1. HdrType'
            <3>1. Other \in Copies BY DEF TypeOK, RingType, Other, Copies
            <3>. HIDE DEF h
            <3>. QED BY <1>4, <2>0, <3>1, TornLemma DEF HeaderWrite, TypeOK, HdrType, h
      <2>2. WriterType'
            BY <1>4, <2>0 DEF HeaderWrite, TypeOK, WriterType
      <2>3. (DataType /\ RingType /\ ReaderType /\ HistoryType)'
            BY <1>4 DEF HeaderWrite, TypeOK, DataType, RingType, ReaderType, HistoryType
      <2>. QED BY <2>1, <2>2, <2>3 DEF TypeOK
<1>5. CASE HeaderSync
      <2>1. HdrType'
            BY <1>5 DEF HeaderSync, Sync, TypeOK, HdrType
      <2>2. DataType'
            BY <1>5 DEF HeaderSync, Sync, TypeOK, DataType
      <2>3. RingType'
            BY <1>5 DEF HeaderSync, Sync, TypeOK, RingType, WriterType, Other, Copies
      <2>4. WriterType'
            BY <1>5, TornLemma DEF HeaderSync, Sync, TypeOK, WriterType, NoTgt
      <2>5. (ReaderType /\ HistoryType)'
            BY <1>5 DEF HeaderSync, Sync, TypeOK, ReaderType, HistoryType
      <2>. QED BY <2>1, <2>2, <2>3, <2>4, <2>5 DEF TypeOK
<1>6. ASSUME NEW k \in Keys, AddSeries(k) PROVE TypeOK'
      <2>1. DataType'
            BY <1>6 DEF AddSeries, TypeOK, DataType, RingType, Headers, Values, NaN, Hole
      <2>2. WriterType'
            <3>1. [rh EXCEPT !.keys = Append(@, k)] \in Headers
                  BY HeaderLemma DEF TypeOK, RingType
            <3>2. Len([rh EXCEPT !.keys = Append(@, k)].keys) = Len(rh.keys) + 1
                  BY HeaderLemma DEF TypeOK, RingType
            <3>3. Len(rh.keys) \in Nat BY HeaderLemma DEF TypeOK, RingType
            <3>. QED BY <1>6, <3>1, <3>2, <3>3 DEF AddSeries, TypeOK, WriterType
      <2>3. (HdrType /\ RingType /\ ReaderType /\ HistoryType)'
            BY <1>6 DEF AddSeries, TypeOK, HdrType, RingType, ReaderType, HistoryType
      <2>. QED BY <2>1, <2>2, <2>3 DEF TypeOK
<1>7. CASE AddSync
      <2>1. HdrType'
            BY <1>7 DEF AddSync, Sync, TypeOK, HdrType
      <2>2. DataType'
            BY <1>7 DEF AddSync, Sync, TypeOK, DataType
      <2>3. WriterType'
            BY <1>7 DEF AddSync, Sync, TypeOK, WriterType
      <2>4. (RingType /\ ReaderType /\ HistoryType)'
            BY <1>7 DEF AddSync, Sync, TypeOK, RingType, ReaderType, HistoryType
      <2>. QED BY <2>1, <2>2, <2>3, <2>4 DEF TypeOK
<1>8. ASSUME NEW f \in BOOLEAN, SetForgotten(f) PROVE TypeOK'
      <2>1. WriterType'
            BY <1>8, HeaderLemma DEF SetForgotten, file, TypeOK, WriterType, RingType, Headers
      <2>2. (HdrType /\ DataType /\ RingType /\ ReaderType /\ HistoryType)'
            BY <1>8 DEF SetForgotten, file, TypeOK, HdrType, DataType, RingType, ReaderType, HistoryType
      <2>. QED BY <2>1, <2>2 DEF TypeOK
<1>9. ASSUME NEW m \in 1..MaxMinute, NEW v \in SUBSET (0..(Len(rh.keys) - 1)),
             WriteMinute(m, v)
      PROVE  TypeOK'
      <2>1. DataType'
            <3>1. slotOf(m) \in Slots BY SlotLemma
            <3>. QED BY <1>9, <3>1 DEF WriteMinute, WriteStamp, TypeOK, DataType
      <2>2. WriterType'
            BY <1>9 DEF WriteMinute, WriteStamp, TypeOK, WriterType, RingType, Headers
      <2>3. HistoryType'
            BY <1>9, SlotLemma DEF WriteMinute, WriteStamp, TypeOK, HistoryType
      <2>4. (HdrType /\ RingType /\ ReaderType)'
            BY <1>9 DEF WriteMinute, WriteStamp, TypeOK, HdrType, RingType, ReaderType
      <2>. QED BY <2>1, <2>2, <2>3, <2>4 DEF TypeOK
<1>10. CASE InvalidSync
      <2>1. HdrType'
            BY <1>10 DEF InvalidSync, Sync, TypeOK, HdrType
      <2>2. DataType'
            BY <1>10 DEF InvalidSync, Sync, TypeOK, DataType
      <2>3. WriterType'
            BY <1>10 DEF InvalidSync, Sync, TypeOK, WriterType
      <2>4. (RingType /\ ReaderType /\ HistoryType)'
            BY <1>10 DEF InvalidSync, Sync, TypeOK, RingType, ReaderType, HistoryType
      <2>. QED BY <2>1, <2>2, <2>3, <2>4 DEF TypeOK
<1>11. CASE WriteColumn
      <2>1. DataType'
            <3>. DEFINE x == <<wr.i, wr.c, slotOf(wr.m)>>
                        v == IF wr.i \in wr.v THEN Len(log) ELSE NaN
            <3>1. Len(rh.keys) \in Nat BY HeaderLemma DEF TypeOK, RingType
            <3>2. x \in Cells
                  BY <1>11, <3>1, SlotLemma DEF WriteColumn, TypeOK, RingType, WriterType, Cells
            <3>3. v \in Values
                  BY DEF TypeOK, HistoryType, Values, NaN
            <3>. HIDE DEF x, v
            <3>. QED BY <1>11, <3>2, <3>3 DEF WriteColumn, TypeOK, DataType, x, v
      <2>2. WriterType'
            <3>1. Len(rh.keys) \in Nat BY HeaderLemma DEF TypeOK, RingType
            <3>2. wr' \in [m : Nat, v : SUBSET (0..(MaxSeries - 1)),
                           i : 0..MaxSeries, c : 0..(NCols - 1)]
                  <4>0. wr \in [m : Nat, v : SUBSET (0..(MaxSeries - 1)),
                               i : 0..MaxSeries, c : 0..(NCols - 1)]
                        BY DEF TypeOK, WriterType
                  <4>1. CASE wr.c + 1 < NCols
                        <5>1. wr' = [wr EXCEPT !.c = wr.c + 1]
                              BY <1>11, <4>1 DEF WriteColumn, NextColumn
                        <5>2. wr.c + 1 \in 0..(NCols - 1) BY <4>0, <4>1
                        <5>. QED BY <4>0, <5>1, <5>2
                  <4>2. CASE ~(wr.c + 1 < NCols)
                        <5>1. wr' = [wr EXCEPT !.c = 0, !.i = wr.i + 1]
                              BY <1>11, <4>2 DEF WriteColumn, NextColumn
                        <5>2. wr.i + 1 \in 0..MaxSeries
                              BY <1>11, <3>1, <4>0 DEF WriteColumn, TypeOK, RingType
                        <5>3. 0 \in 0..(NCols - 1) OBVIOUS
                        <5>4. wr' = [m |-> wr.m, v |-> wr.v, i |-> wr.i + 1, c |-> 0]
                              BY <4>0, <5>1
                        <5>. QED BY <4>0, <5>2, <5>3, <5>4
                  <4>. QED BY <4>1, <4>2
            <3>. QED BY <1>11, <3>2 DEF WriteColumn, TypeOK, WriterType
      <2>3. (HdrType /\ RingType /\ ReaderType /\ HistoryType)'
            BY <1>11 DEF WriteColumn, TypeOK, HdrType, RingType, ReaderType, HistoryType
      <2>. QED BY <2>1, <2>2, <2>3 DEF TypeOK
<1>12. CASE ColumnsSync
      <2>1. HdrType'
            BY <1>12 DEF ColumnsSync, Sync, TypeOK, HdrType
      <2>2. DataType'
            BY <1>12 DEF ColumnsSync, Sync, TypeOK, DataType
      <2>3. WriterType'
            BY <1>12 DEF ColumnsSync, Sync, TypeOK, WriterType
      <2>4. (RingType /\ ReaderType /\ HistoryType)'
            BY <1>12 DEF ColumnsSync, Sync, TypeOK, RingType, ReaderType, HistoryType
      <2>. QED BY <2>1, <2>2, <2>3, <2>4 DEF TypeOK
<1>13. CASE StampMinute
      <2>1. DataType'
            BY <1>13, SlotLemma DEF StampMinute, WriteStamp, TypeOK, DataType, WriterType
      <2>2. WriterType'
            BY <1>13 DEF StampMinute, WriteStamp, TypeOK, WriterType, NoWrite
      <2>3. HistoryType'
            BY <1>13, SlotLemma DEF StampMinute, WriteStamp, TypeOK, HistoryType, WriterType
      <2>4. (HdrType /\ RingType /\ ReaderType)'
            BY <1>13 DEF StampMinute, WriteStamp, TypeOK, HdrType, RingType, ReaderType
      <2>. QED BY <2>1, <2>2, <2>3, <2>4 DEF TypeOK
<1>14. CASE WriteFails
      <2>1. HdrType'
            BY <1>14, TornLemma DEF WriteFails, TypeOK, HdrType, RingType, Other, Copies
      <2>2. WriterType'
            BY <1>14, TornLemma DEF WriteFails, TypeOK, WriterType, NoTgt, NoWrite
      <2>3. (DataType /\ RingType /\ ReaderType /\ HistoryType)'
            BY <1>14 DEF WriteFails, TypeOK, DataType, RingType, ReaderType, HistoryType
      <2>. QED BY <2>1, <2>2, <2>3 DEF TypeOK
<1>15. CASE CreateFails
      <2>1. HdrType'
            BY <1>15, TornLemma DEF CreateFails, TypeOK, HdrType
      <2>2. WriterType'
            BY <1>15 DEF CreateFails, TypeOK, WriterType
      <2>3. (DataType /\ RingType /\ ReaderType /\ HistoryType)'
            BY <1>15 DEF CreateFails, TypeOK, DataType, RingType, ReaderType, HistoryType
      <2>. QED BY <2>1, <2>2, <2>3 DEF TypeOK
<1>16. CASE Close
      <2>1. RingType'
            BY <1>16 DEF Close, file, writer, TypeOK, RingType
      <2>2. (HdrType /\ DataType /\ WriterType /\ ReaderType /\ HistoryType)'
            BY <1>16 DEF Close, file, writer, TypeOK, HdrType, DataType, WriterType, ReaderType, HistoryType
      <2>. QED BY <2>1, <2>2 DEF TypeOK
<1>17. CASE Kill
      <2>1. RingType'
            BY <1>17 DEF Kill, file, TypeOK, RingType
      <2>2. WriterType'
            BY <1>17, TornLemma DEF Kill, file, TypeOK, WriterType, NoTgt, NoWrite
      <2>3. ReaderType'
            BY <1>17 DEF Kill, file, TypeOK, ReaderType, NoRead
      <2>4. (HdrType /\ DataType /\ HistoryType)'
            BY <1>17 DEF Kill, file, TypeOK, HdrType, DataType, HistoryType
      <2>. QED BY <2>1, <2>2, <2>3, <2>4 DEF TypeOK
<1>18. CASE PowerLoss
      <2>1. HdrType'
            BY <1>18, OutcomesLemma DEF PowerLoss, TypeOK, HdrType
      <2>2. DataType'
            BY <1>18, OutcomesLemma DEF PowerLoss, TypeOK, DataType
      <2>3. RingType'
            BY <1>18 DEF PowerLoss, TypeOK, RingType
      <2>4. WriterType'
            BY <1>18, TornLemma DEF PowerLoss, TypeOK, WriterType, NoTgt, NoWrite
      <2>5. ReaderType'
            BY <1>18 DEF PowerLoss, TypeOK, ReaderType, NoRead
      <2>6. HistoryType'
            BY <1>18, OutcomesLemma DEF PowerLoss, TypeOK, HistoryType, DataType
      <2>. QED BY <2>1, <2>2, <2>3, <2>4, <2>5, <2>6 DEF TypeOK
<1>19. CASE Open
      <2>1. RingType'
            BY <1>19, ParseLemma DEF Open, file, writer, TypeOK, RingType, HdrType, DataType
      <2>2. (HdrType /\ DataType /\ WriterType /\ ReaderType /\ HistoryType)'
            BY <1>19 DEF Open, file, writer, TypeOK, HdrType, DataType, WriterType, ReaderType, HistoryType
      <2>. QED BY <2>1, <2>2 DEF TypeOK
<1>20. ASSUME NEW r \in Readers, NEW m \in 1..MaxMinute,
              NEW i \in 0..(MaxSeries - 1), ReadBefore(r, m, i)
       PROVE  TypeOK'
      <2>1. ReaderType'
            BY <1>20, SlotLemma DEF ReadBefore, file, writer, TypeOK, ReaderType, DataType, HistoryType, InFlight
      <2>2. (HdrType /\ DataType /\ RingType /\ WriterType /\ HistoryType)'
            BY <1>20 DEF ReadBefore, file, writer, TypeOK, HdrType, DataType, RingType, WriterType, HistoryType
      <2>. QED BY <2>1, <2>2 DEF TypeOK
<1>21. ASSUME NEW r \in Readers, ReadColumn(r) PROVE TypeOK'
      <2>1. ReaderType'
            <3>. DEFINE x == <<rd[r].i, Len(rd[r].vals), slotOf(rd[r].m)>>
            <3>1. rd[r].m \in Nat /\ rd[r].vals \in Seq(Values)
                  BY DEF TypeOK, ReaderType
            <3>2. x \in Cells
                  <4>1. Len(rd[r].vals) \in 0..(NCols - 1)
                        BY <1>21, <3>1 DEF ReadColumn
                  <4>2. rd[r].i \in 0..(MaxSeries - 1) BY DEF TypeOK, ReaderType
                  <4>3. slotOf(rd[r].m) \in Slots BY <3>1, SlotLemma
                  <4>. QED BY <4>1, <4>2, <4>3 DEF Cells
            <3>3. Append(rd[r].vals, col[x]) \in Seq(Values)
                  BY <3>1, <3>2 DEF TypeOK, DataType
            <3>. HIDE DEF x
            <3>. QED BY <1>21, <3>3 DEF ReadColumn, TypeOK, ReaderType, x
      <2>2. (HdrType /\ DataType /\ RingType /\ WriterType /\ HistoryType)'
            BY <1>21 DEF ReadColumn, file, writer, TypeOK, HdrType, DataType, RingType, WriterType, HistoryType
      <2>. QED BY <2>1, <2>2 DEF TypeOK
<1>22. ASSUME NEW r \in Readers, ReadAfter(r) PROVE TypeOK'
      <2>1. ReaderType'
            BY <1>22, SlotLemma DEF ReadAfter, file, writer, TypeOK, ReaderType, DataType
      <2>2. (HdrType /\ DataType /\ RingType /\ WriterType /\ HistoryType)'
            BY <1>22 DEF ReadAfter, file, writer, TypeOK, HdrType, DataType, RingType, WriterType, HistoryType
      <2>. QED BY <2>1, <2>2 DEF TypeOK
<1>23. ASSUME NEW r \in Readers, ReadReturn(r) PROVE TypeOK'
      <2>1. ReaderType'
            BY <1>23 DEF ReadReturn, file, writer, TypeOK, ReaderType, NoRead
      <2>2. (HdrType /\ DataType /\ RingType /\ WriterType /\ HistoryType)'
            BY <1>23 DEF ReadReturn, file, writer, TypeOK, HdrType, DataType, RingType, WriterType, HistoryType
      <2>. QED BY <2>1, <2>2 DEF TypeOK
<1>24. CASE UNCHANGED vars
      <2>1. (HdrType /\ DataType /\ RingType /\ WriterType /\ ReaderType /\ HistoryType)'
            BY <1>24 DEF vars, file, writer, TypeOK, HdrType, DataType, RingType, WriterType, ReaderType, HistoryType
      <2>. QED BY <2>1 DEF TypeOK
<1>. QED
      BY <1>1, <1>2, <1>3, <1>4, <1>5, <1>6, <1>7, <1>8, <1>9, <1>10, <1>11, <1>12,
         <1>13, <1>14, <1>15, <1>16, <1>17, <1>18, <1>19, <1>20, <1>21, <1>22, <1>23, <1>24
      DEF Next, WriterNext, FaultNext, ReaderNext

\* Every variable keeps its type: writeMinute's loop never leaves the columns of
\* the ring, and no header ever names more series than the file has groups for.
THEOREM TypeCorrect == Spec => []TypeOK
BY TypeInit, TypeStep, PTL DEF Spec

-----------------------------------------------------------------------------
(* The header protocol.  Reopening from the page cache is excluded         *)
(* ("restart"): with it the invariant is false, see run ring_reopen.       *)

HasRing == status \in {"open", "closed", "lost"}

\* Where the writer can be, given the state of the ring.
ControlInv ==
    /\ status # "corrupt"
    /\ status = "absent" => rh.keys = <<>>
    /\ Creating => status = "absent" /\ hdr = Fresh
    /\ pc = "createRename" => /\ hdrMay = [i \in Copies |-> {hdr[i]}]
                              /\ groups \in groupsMay
    /\ pc \notin {"idle", "createSync", "createRename"} => status \in {"open", "closed"}
    /\ status = "lost" => /\ hdrMay = [i \in Copies |-> {hdr[i]}]
                          /\ groupsMay = {groups}

\* A header a power loss may put in the other copy: older than the current
\* one, or the next one, whose columns are already on the disk.
GoodOther(h) ==
    h.ok => \/ h.seq < rh.seq /\ Len(h.keys) <= Len(rh.keys)
            \/ /\ h.seq = rh.seq + 1
               /\ IsPrefix(rh.keys, h.keys)
               /\ \A g \in groupsMay : Len(h.keys) <= g

CurInv == HasRing => /\ rh.ok /\ hdr[cur] = rh /\ hdrMay[cur] = {rh}
                     /\ \A g \in groupsMay : Len(rh.keys) <= g
                     /\ groups \in groupsMay

OtherInv == HasRing => /\ hdr[Other] \in hdrMay[Other]
                       /\ \A h \in hdrMay[Other] : GoodOther(h)

TgtInv ==
    /\ pc \in {"addSync", "headerWrite", "headerSync"} =>
           tgt.ok /\ IsPrefix(rh.keys, tgt.keys)
    /\ pc = "addSync" => Len(tgt.keys) <= groups
    /\ pc \in {"headerWrite", "headerSync"} =>
           \A g \in groupsMay : Len(tgt.keys) <= g
    /\ pc = "headerSync" => hdr[Other] = tgt /\ tgt.seq = rh.seq + 1

HeaderInv == ControlInv /\ CurInv /\ OtherInv /\ TgtInv

\* A sequence is a prefix of itself and of what is appended to it.
LEMMA PrefixLemma ==
    ASSUME NEW s \in Seq(Keys)
    PROVE  /\ IsPrefix(s, s)
           /\ IsPrefix(<<>>, s)
           /\ \A k \in Keys : IsPrefix(s, Append(s, k))
           /\ \A t \in Seq(Keys) : IsPrefix(s, t) => Len(s) <= Len(t)
BY DEF IsPrefix

\* The header parseRing takes, with the current copy intact and a good other one.
LEMMA ParseGood ==
    ASSUME TypeOK, HasRing, CurInv,
           NEW h \in [Copies -> Headers], NEW g \in groupsMay,
           h[cur] = rh, GoodOther(h[Other])
    PROVE  \/ parseRing(h, g) = cur
           \/ /\ parseRing(h, g) = Other
              /\ h[Other].ok /\ h[Other].seq = rh.seq + 1
              /\ IsPrefix(rh.keys, h[Other].keys)
              /\ \A n \in groupsMay : Len(h[Other].keys) <= n
<1>1. cur \in {0, 1} /\ Other \in {0, 1} /\ Other = 1 - cur
      BY DEF TypeOK, RingType, Copies, Other
<1>2. h[Other] \in Headers /\ rh \in Headers
      BY <1>1 DEF Copies, TypeOK, RingType
<1>3. /\ rh.seq \in Nat /\ h[Other].seq \in Nat
      /\ Len(rh.keys) \in Nat /\ Len(h[Other].keys) \in Nat
      BY <1>2, HeaderLemma
<1>4. g \in Nat BY DEF TypeOK, DataType
<1>5. rh.ok /\ Len(rh.keys) <= g BY DEF CurInv
<1>6. h[Other].ok \in BOOLEAN BY <1>2 DEF Headers
<1>7. CASE cur = 0
      BY <1>1, <1>2, <1>3, <1>4, <1>5, <1>6, <1>7 DEF parseRing, Latest, GoodOther
<1>8. CASE cur = 1
      BY <1>1, <1>2, <1>3, <1>4, <1>5, <1>6, <1>8 DEF parseRing, Latest, GoodOther
<1>. QED BY <1>1, <1>7, <1>8

LEMMA HeaderInit == Init => HeaderInv
BY DEF Init, HeaderInv, ControlInv, CurInv, OtherInv, TgtInv, HasRing, Creating, Header

\* Steps that touch neither the headers, the groups nor the header's writer.
LEMMA HeaderFrame ==
    ASSUME HeaderInv,
           UNCHANGED <<hdr, hdrMay, groups, groupsMay, status, rh, cur, pc, tgt>>
    PROVE  HeaderInv'
BY DEF HeaderInv, ControlInv, CurInv, OtherInv, TgtInv, HasRing, GoodOther, Other, Creating

\* Steps of writeMinute, which run while no header is being written.
LEMMA MinuteFrame ==
    ASSUME HeaderInv,
           UNCHANGED <<hdr, groups, status, rh, cur, tgt>>,
           \/ UNCHANGED <<hdrMay, groupsMay>>
           \/ hdrMay' = [i \in Copies |-> {hdr[i]}] /\ groupsMay' = {groups},
           status \in {"open", "closed"}, TypeOK,
           pc' \in {"idle", "invalidSync", "columns", "stamp"}
    PROVE  HeaderInv'
<1>. USE DEF HasRing, Creating
<1>0. cur \in Copies /\ Other \in Copies /\ Other' = Other
      BY DEF TypeOK, RingType, Other, Copies
<1>1. ControlInv' BY DEF HeaderInv, ControlInv
<1>2. CurInv' BY <1>0 DEF HeaderInv, CurInv
<1>3. OtherInv' BY <1>0 DEF HeaderInv, CurInv, OtherInv, GoodOther
<1>4. TgtInv' BY DEF TgtInv
<1>. QED BY <1>1, <1>2, <1>3, <1>4 DEF HeaderInv

LEMMA HeaderStep ==
    ASSUME "restart" \notin Faults, TypeOK, HeaderInv, [Next]_vars
    PROVE  HeaderInv'
<1>. USE DEF HasRing, Creating
<1>0. /\ cur \in Copies /\ Other \in Copies /\ Other # cur /\ cur = 1 - Other
      /\ rh \in Headers /\ tgt \in Headers
      /\ rh.keys \in Seq(Keys) /\ tgt.keys \in Seq(Keys)
      /\ Len(rh.keys) \in Nat /\ Len(tgt.keys) \in Nat
      /\ rh.seq \in Nat /\ groups \in Nat /\ groupsMay \subseteq Nat
      <2>1. cur \in Copies /\ Other \in Copies /\ Other # cur /\ cur = 1 - Other
            BY DEF TypeOK, RingType, Other, Copies
      <2>2. rh \in Headers /\ tgt \in Headers BY DEF TypeOK, RingType, WriterType
      <2>3. groups \in Nat /\ groupsMay \subseteq Nat
            BY MaxSeriesAssumption DEF TypeOK, DataType
      <2>. QED BY <2>1, <2>2, <2>3, HeaderLemma
<1>1. CASE CreateWrite
      <2>1. ControlInv' BY <1>1 DEF CreateWrite, HeaderInv, ControlInv
      <2>2. (CurInv /\ OtherInv /\ TgtInv)'
            BY <1>1 DEF CreateWrite, CurInv, OtherInv, TgtInv
      <2>. QED BY <2>1, <2>2 DEF HeaderInv
<1>2. CASE CreateSync
      <2>1. ControlInv' BY <1>2 DEF CreateSync, Sync, HeaderInv, ControlInv
      <2>2. (CurInv /\ OtherInv /\ TgtInv)'
            BY <1>2 DEF CreateSync, Sync, HeaderInv, ControlInv, CurInv, OtherInv, TgtInv
      <2>. QED BY <2>1, <2>2 DEF HeaderInv
<1>3. CASE CreateRename
      <2>1. /\ hdr = Fresh /\ hdrMay = [i \in Copies |-> {hdr[i]}]
            /\ status = "absent" /\ rh.keys = <<>>
            BY <1>3 DEF CreateRename, HeaderInv, ControlInv
      <2>2. /\ hdr[0].ok /\ hdr[0].seq = 1 /\ hdr[0].keys = <<>>
            /\ hdr[1].ok /\ hdr[1].seq = 0 /\ hdr[1].keys = <<>>
            BY <2>1 DEF Fresh, Header, Copies
      <2>3. parseRing(hdr, groups) = 0
            BY <2>2, <1>0 DEF parseRing, Latest
      <2>4. status' = "open" /\ rh' = hdr[0] /\ cur' = 0 /\ Other' = 1 /\ pc' = "idle"
            BY <1>3, <2>3 DEF CreateRename, Other
      <2>5. UNCHANGED <<hdr, hdrMay, groups, groupsMay, tgt>>
            BY <1>3 DEF CreateRename, file
      <2>6. hdr[0] \in Headers /\ Len(hdr[0].keys) = 0 /\ Len(hdr[1].keys) = 0
            BY <2>2 DEF TypeOK, HdrType, Copies
      <2>7. hdrMay'[0] = {hdr[0]} /\ hdrMay'[1] = {hdr[1]}
            BY <2>1, <2>5 DEF Copies
      <2>8. ControlInv' BY <2>1, <2>4, <2>5 DEF HeaderInv, ControlInv
      <2>9. CurInv'
            <3>1. groups \in groupsMay BY <1>3 DEF CreateRename, HeaderInv, ControlInv
            <3>2. \A g \in groupsMay : 0 <= g BY <1>0
            <3>. QED BY <2>2, <2>4, <2>5, <2>6, <2>7, <3>1, <3>2 DEF CurInv
      <2>10. OtherInv'
            <3>1. GoodOther(hdr[1])'
                  BY <2>2, <2>4, <2>5, <2>6 DEF GoodOther
            <3>. QED BY <2>4, <2>5, <2>7, <3>1 DEF OtherInv
      <2>11. TgtInv' BY <2>4 DEF TgtInv
      <2>. QED BY <2>8, <2>9, <2>10, <2>11 DEF HeaderInv
<1>4. CASE HeaderWrite
      <2>. DEFINE h == [tgt EXCEPT !.seq = rh.seq + 1]
      <2>1. /\ h.ok = tgt.ok /\ h.keys = tgt.keys /\ h.seq = rh.seq + 1 /\ h \in Headers
            <3>1. rh.seq + 1 \in Nat BY <1>0
            <3>. QED BY <1>0, <3>1, HeaderLemma
      <2>. HIDE DEF h
      <2>2. /\ tgt' = h /\ hdr' = [hdr EXCEPT ![Other] = h]
            /\ hdrMay' = [hdrMay EXCEPT ![Other] = @ \cup {Torn, h}]
            /\ pc = "headerWrite" /\ status = "open" /\ pc' = "headerSync"
            /\ UNCHANGED <<groups, groupsMay, status, rh, cur>> /\ Other' = Other
            BY <1>4 DEF HeaderWrite, h, Other
      <2>3. /\ tgt.ok /\ IsPrefix(rh.keys, tgt.keys)
            /\ \A g \in groupsMay : Len(tgt.keys) <= g
            BY <2>2 DEF HeaderInv, TgtInv
      <2>4. /\ hdr'[cur] = hdr[cur] /\ hdrMay'[cur] = hdrMay[cur]
            /\ hdr'[Other] = h /\ hdrMay'[Other] = hdrMay[Other] \cup {Torn, h}
            BY <2>2, <1>0 DEF TypeOK, HdrType
      <2>5. ControlInv' BY <2>2 DEF HeaderInv, ControlInv
      <2>6. CurInv' BY <2>2, <2>4 DEF HeaderInv, CurInv
      <2>7. OtherInv'
            <3>1. GoodOther(tgt)' BY <2>1, <2>2, <2>3 DEF GoodOther
            <3>2. GoodOther(Torn)' BY DEF GoodOther, Torn
            <3>3. \A x \in hdrMay[Other] : GoodOther(x)'
                  BY <2>2 DEF HeaderInv, OtherInv, GoodOther
            <3>. QED BY <2>2, <2>4, <3>1, <3>2, <3>3 DEF OtherInv
      <2>8. TgtInv' BY <2>1, <2>2, <2>3, <2>4 DEF TgtInv
      <2>. QED BY <2>5, <2>6, <2>7, <2>8 DEF HeaderInv
<1>5. CASE HeaderSync
      <2>1. /\ pc = "headerSync" /\ status = "open" /\ pc' = "idle" /\ tgt' = NoTgt
            /\ hdrMay' = [i \in Copies |-> {hdr[i]}] /\ groupsMay' = {groups}
            /\ rh' = tgt /\ cur' = Other /\ UNCHANGED <<hdr, groups, status>>
            /\ Other' = cur
            BY <1>5, <1>0 DEF HeaderSync, Sync, Other
      <2>2. /\ tgt.ok /\ IsPrefix(rh.keys, tgt.keys) /\ Len(tgt.keys) <= groups
            /\ hdr[Other] = tgt /\ tgt.seq = rh.seq + 1
            /\ hdr[cur] = rh /\ rh.ok /\ Len(rh.keys) <= Len(tgt.keys)
            BY <2>1, <1>0, PrefixLemma DEF HeaderInv, TgtInv, CurInv
      <2>3. ControlInv' BY <2>1 DEF HeaderInv, ControlInv
      <2>4. CurInv' BY <2>1, <2>2, <1>0 DEF CurInv
      <2>5. OtherInv' BY <2>1, <2>2, <1>0 DEF OtherInv, GoodOther
      <2>6. TgtInv' BY <2>1 DEF TgtInv
      <2>. QED BY <2>3, <2>4, <2>5, <2>6 DEF HeaderInv
<1>6. ASSUME NEW k \in Keys, AddSeries(k) PROVE HeaderInv'
      <2>. DEFINE n   == Len(rh.keys)
                  top == IF groups > n THEN groups ELSE n + 1
      <2>1. /\ pc = "idle" /\ status = "open" /\ pc' = "addSync"
            /\ groups' = top /\ groupsMay' = groupsMay \cup {top}
            /\ tgt' = [rh EXCEPT !.keys = Append(@, k)]
            /\ UNCHANGED <<hdr, hdrMay, status, rh, cur>> /\ Other' = Other
            BY <1>6 DEF AddSeries, Other
      <2>2. /\ tgt'.ok = rh.ok /\ tgt'.keys = Append(rh.keys, k)
            /\ Len(tgt'.keys) = n + 1 /\ IsPrefix(rh.keys, tgt'.keys)
            BY <2>1, <1>0, HeaderLemma, PrefixLemma DEF Headers
      <2>3. top \in Nat /\ top >= groups /\ top >= n + 1
            BY <1>0
      <2>. HIDE DEF n, top
      <2>4. ControlInv' BY <2>1 DEF HeaderInv, ControlInv
      <2>5. CurInv' BY <2>1, <2>3, <1>0 DEF HeaderInv, CurInv, n
      <2>6. OtherInv'
            <3>. SUFFICES ASSUME NEW h \in hdrMay[Other] PROVE GoodOther(h)'
                 BY <2>1 DEF HeaderInv, OtherInv
            <3>1. GoodOther(h) /\ groups \in groupsMay
                  BY <2>1 DEF HeaderInv, OtherInv, CurInv
            <3>2. Len(h.keys) \in Nat /\ h.seq \in Nat
                  BY <1>0, HeaderLemma DEF TypeOK, HdrType
            <3>3. UNCHANGED rh /\ groupsMay' = groupsMay \cup {top} BY <2>1
            <3>. QED BY <3>1, <3>2, <3>3, <2>3, <1>0 DEF GoodOther
      <2>7. TgtInv' BY <2>1, <2>2, <2>3 DEF HeaderInv, CurInv, TgtInv, n
      <2>. QED BY <2>4, <2>5, <2>6, <2>7 DEF HeaderInv
<1>7. CASE AddSync
      <2>1. /\ pc = "addSync" /\ status = "open" /\ pc' = "headerWrite"
            /\ hdrMay' = [i \in Copies |-> {hdr[i]}] /\ groupsMay' = {groups}
            /\ UNCHANGED <<hdr, groups, status, rh, cur, tgt>> /\ Other' = Other
            BY <1>7 DEF AddSync, Sync, Other
      <2>2. ControlInv' BY <2>1 DEF HeaderInv, ControlInv
      <2>3. CurInv' BY <2>1, <1>0 DEF HeaderInv, CurInv
      <2>4. OtherInv' BY <2>1, <1>0 DEF HeaderInv, CurInv, OtherInv, GoodOther
      <2>5. TgtInv' BY <2>1 DEF HeaderInv, TgtInv
      <2>. QED BY <2>2, <2>3, <2>4, <2>5 DEF HeaderInv
<1>8. ASSUME NEW f \in BOOLEAN, SetForgotten(f) PROVE HeaderInv'
      <2>1. /\ pc = "idle" /\ status = "open" /\ pc' = "headerWrite"
            /\ tgt' = [rh EXCEPT !.forgotten = f]
            /\ UNCHANGED <<hdr, hdrMay, groups, groupsMay, status, rh, cur>>
            /\ Other' = Other
            BY <1>8 DEF SetForgotten, file, Other
      <2>2. tgt'.ok = rh.ok /\ tgt'.keys = rh.keys /\ IsPrefix(rh.keys, tgt'.keys)
            BY <2>1, <1>0, PrefixLemma DEF Headers
      <2>3. ControlInv' BY <2>1 DEF HeaderInv, ControlInv
      <2>4. (CurInv /\ OtherInv)'
            BY <2>1 DEF HeaderInv, CurInv, OtherInv, GoodOther
      <2>5. TgtInv' BY <2>1, <2>2 DEF HeaderInv, CurInv, TgtInv
      <2>. QED BY <2>3, <2>4, <2>5 DEF HeaderInv
<1>9. ASSUME NEW m \in 1..MaxMinute, NEW v \in SUBSET (0..(Len(rh.keys) - 1)),
             WriteMinute(m, v)
      PROVE  HeaderInv'
      BY <1>9, MinuteFrame DEF WriteMinute, WriteStamp
<1>10. CASE InvalidSync
      BY <1>10, MinuteFrame DEF InvalidSync, Sync
<1>11. CASE WriteColumn
      BY <1>11, HeaderFrame DEF WriteColumn
<1>12. CASE ColumnsSync
      BY <1>12, MinuteFrame DEF ColumnsSync, Sync
<1>13. CASE StampMinute
      BY <1>13, MinuteFrame DEF StampMinute, WriteStamp
<1>14. CASE WriteFails
      <2>1. /\ pc' = "idle" /\ tgt' = NoTgt /\ status \in {"open", "closed"}
            /\ UNCHANGED <<groups, groupsMay, status, rh, cur>> /\ Other' = Other
            BY <1>14 DEF WriteFails, HeaderInv, ControlInv, Other
      <2>2. /\ hdr'[cur] = hdr[cur] /\ hdrMay'[cur] = hdrMay[cur]
            /\ hdr'[Other] \in hdrMay'[Other]
            /\ hdrMay'[Other] \subseteq hdrMay[Other] \cup {Torn}
            BY <1>14, <1>0, <2>1 DEF WriteFails, TypeOK, HdrType, HeaderInv, OtherInv
      <2>3. ControlInv' BY <2>1 DEF HeaderInv, ControlInv
      <2>4. CurInv' BY <2>1, <2>2 DEF HeaderInv, CurInv
      <2>5. OtherInv'
            <3>1. GoodOther(Torn)' BY DEF GoodOther, Torn
            <3>2. \A h \in hdrMay[Other] : GoodOther(h)'
                  BY <2>1 DEF HeaderInv, OtherInv, GoodOther
            <3>. QED BY <2>1, <2>2, <3>1, <3>2 DEF OtherInv
      <2>6. TgtInv' BY <2>1 DEF TgtInv
      <2>. QED BY <2>3, <2>4, <2>5, <2>6 DEF HeaderInv
<1>15. CASE CreateFails
      <2>1. /\ pc' = "idle" /\ status = "absent" /\ UNCHANGED <<status, rh, cur>>
            BY <1>15 DEF CreateFails, HeaderInv, ControlInv
      <2>. QED BY <2>1 DEF HeaderInv, ControlInv, CurInv, OtherInv, TgtInv
<1>16. CASE Close
      <2>1. /\ status = "open" /\ status' = "closed"
            /\ UNCHANGED <<hdr, hdrMay, groups, groupsMay, rh, cur, pc, tgt>>
            /\ Other' = Other
            BY <1>16 DEF Close, file, writer, Other
      <2>. QED
            BY <2>1 DEF HeaderInv, ControlInv, CurInv, OtherInv, TgtInv, GoodOther
<1>17. CASE Kill
      BY <1>17 DEF Kill
<1>18. CASE PowerLoss
      <2>1. PICK h \in Outcomes(Copies, hdr, hdrMay), g \in groupsMay :
                 /\ hdr' = h /\ hdrMay' = [i \in Copies |-> {h[i]}]
                 /\ groups' = g /\ groupsMay' = {g}
            BY <1>18 DEF PowerLoss
      <2>2. /\ status \in {"open", "closed"} /\ status' = "lost"
            /\ pc' = "idle" /\ tgt' = NoTgt /\ UNCHANGED <<rh, cur>> /\ Other' = Other
            BY <1>18 DEF PowerLoss, Other
      <2>3. h[cur] = rh /\ h[Other] \in hdrMay[Other] /\ GoodOther(h[Other])
            <3>1. \A i \in Copies : h[i] \in hdrMay[i] BY OutcomesLemma
            <3>. QED BY <3>1, <2>2, <1>0 DEF HeaderInv, CurInv, OtherInv
      <2>4. ControlInv' BY <2>1, <2>2 DEF ControlInv
      <2>5. CurInv' BY <2>1, <2>2, <2>3, <1>0 DEF HeaderInv, CurInv
      <2>6. OtherInv' BY <2>1, <2>2, <2>3, <1>0 DEF OtherInv, GoodOther
      <2>7. TgtInv' BY <2>2 DEF TgtInv
      <2>. QED BY <2>4, <2>5, <2>6, <2>7 DEF HeaderInv
<1>19. CASE Open
      <2>1. /\ status = "lost" /\ pc = "idle"
            /\ hdrMay = [i \in Copies |-> {hdr[i]}] /\ groupsMay = {groups}
            BY <1>19 DEF Open, HeaderInv, ControlInv
      <2>2. /\ hdr[cur] = rh /\ rh.ok /\ GoodOther(hdr[Other])
            /\ Len(rh.keys) <= groups
            BY <2>1, <1>0 DEF HeaderInv, CurInv, OtherInv
      <2>3. \/ parseRing(hdr, groups) = cur
            \/ /\ parseRing(hdr, groups) = Other
               /\ hdr[Other].ok /\ hdr[Other].seq = rh.seq + 1
               /\ IsPrefix(rh.keys, hdr[Other].keys)
               /\ Len(hdr[Other].keys) <= groups
            BY <2>1, <2>2, ParseGood DEF HeaderInv, TypeOK, HdrType
      <2>4. /\ status' = "open" /\ UNCHANGED <<hdr, hdrMay, groups, groupsMay, pc, tgt>>
            /\ rh' = hdr[cur'] /\ cur' = parseRing(hdr, groups) /\ Other' = 1 - cur'
            BY <1>19, <2>3, <1>0 DEF Open, file, writer, Other, Copies
      <2>5. ControlInv' BY <2>1, <2>4 DEF ControlInv
      <2>6. CASE parseRing(hdr, groups) = cur
            BY <2>1, <2>2, <2>4, <2>5, <2>6, <1>0
            DEF HeaderInv, CurInv, OtherInv, TgtInv, GoodOther, Other
      <2>7. CASE /\ parseRing(hdr, groups) = Other
                 /\ hdr[Other].ok /\ hdr[Other].seq = rh.seq + 1
                 /\ IsPrefix(rh.keys, hdr[Other].keys)
                 /\ Len(hdr[Other].keys) <= groups
            <3>1. cur' = Other /\ rh' = hdr[Other] /\ Other' = cur
                  BY <2>4, <2>7, <1>0
            <3>2. hdr[Other].keys \in Seq(Keys)
                  BY <1>0, HeaderLemma DEF TypeOK, HdrType
            <3>3. Len(rh.keys) <= Len(hdr[Other].keys)
                  BY <2>7, <3>2, <1>0, PrefixLemma
            <3>4. CurInv' BY <2>1, <2>4, <2>7, <3>1, <1>0 DEF CurInv
            <3>5. OtherInv'
                  BY <2>1, <2>2, <2>4, <2>7, <3>1, <3>3, <1>0 DEF OtherInv, GoodOther
            <3>6. TgtInv' BY <2>1, <2>4 DEF TgtInv
            <3>. QED BY <2>5, <3>4, <3>5, <3>6 DEF HeaderInv
      <2>. QED BY <2>3, <2>6, <2>7
<1>20. CASE ReaderNext
      BY <1>20, HeaderFrame
      DEF ReaderNext, ReadBefore, ReadColumn, ReadAfter, ReadReturn, file, writer
<1>21. CASE UNCHANGED vars
      BY <1>21, HeaderFrame DEF vars, file, writer
<1>. QED
      BY <1>1, <1>2, <1>3, <1>4, <1>5, <1>6, <1>7, <1>8, <1>9, <1>10, <1>11, <1>12,
         <1>13, <1>14, <1>15, <1>16, <1>17, <1>18, <1>19, <1>20, <1>21
      DEF Next, WriterNext, FaultNext

\* The invariant gives the property: of the current copy nothing else can be on
\* the disk, and the other copy is older or acknowledges everything it names.
LEMMA HeaderImplies == TypeOK /\ HeaderInv => HeaderSurvives
<1>. SUFFICES ASSUME TypeOK, HeaderInv, HasRing,
                     NEW a \in hdrMay[0], NEW b \in hdrMay[1], NEW g \in groupsMay
              PROVE  LET h == [i \in Copies |-> IF i = 0 THEN a ELSE b]
                         c == parseRing(h, g)
                     IN  c # -1 /\ (h[c] = rh \/ h[c].seq > rh.seq)
     BY DEF HeaderSurvives, HasRing
<1>. DEFINE h == [i \in Copies |-> IF i = 0 THEN a ELSE b]
<1>1. cur \in Copies /\ Other \in Copies /\ rh.seq \in Nat
      BY HeaderLemma DEF TypeOK, RingType, Other, Copies
<1>2. h \in [Copies -> Headers]
      BY DEF TypeOK, HdrType, Copies
<1>3. \A i \in Copies : h[i] \in hdrMay[i] BY DEF Copies
<1>. HIDE DEF h
<1>4. h[cur] = rh /\ GoodOther(h[Other])
      BY <1>1, <1>3 DEF HeaderInv, CurInv, OtherInv
<1>5. \/ parseRing(h, g) = cur
      \/ parseRing(h, g) = Other /\ h[Other].seq = rh.seq + 1
      BY <1>2, <1>4, ParseGood DEF HeaderInv
<1>6. LET c == parseRing(h, g) IN c # -1 /\ (h[c] = rh \/ h[c].seq > rh.seq)
      BY <1>1, <1>4, <1>5 DEF Copies
<1>. QED BY <1>6 DEF h

\* "one valid copy survives a torn header write": as long as no process reopens
\* a ring from the page cache, an I/O error and a power loss at any point leave a
\* file parseRing opens, with the last acknowledged header or a newer one.
THEOREM HeaderCorrect ==
    ASSUME "restart" \notin Faults
    PROVE  Spec => []HeaderSurvives
<1>1. Init => TypeOK /\ HeaderInv BY TypeInit, HeaderInit
<1>2. TypeOK /\ HeaderInv /\ [Next]_vars => (TypeOK /\ HeaderInv)'
      BY TypeStep, HeaderStep
<1>. QED BY <1>1, <1>2, HeaderImplies, PTL DEF Spec

\* A series keeps its column: whatever fails in between, the keys of the header
\* in force only grow at their end.
THEOREM KeysCorrect ==
    ASSUME "restart" \notin Faults
    PROVE  Spec => KeysStable
<1>1. Init => TypeOK /\ HeaderInv BY TypeInit, HeaderInit
<1>2. TypeOK /\ HeaderInv /\ [Next]_vars => (TypeOK /\ HeaderInv)'
      BY TypeStep, HeaderStep
<1>3. ASSUME TypeOK, HeaderInv, [Next]_vars PROVE IsPrefix(rh.keys, rh'.keys)
      <2>1. rh.keys \in Seq(Keys) /\ IsPrefix(rh.keys, rh.keys)
            BY <1>3, HeaderLemma, PrefixLemma DEF TypeOK, RingType
      <2>2. CASE CreateRename
            <3>1. rh.keys = <<>>
                  BY <1>3, <2>2 DEF CreateRename, HeaderInv, ControlInv, Creating
            <3>2. rh'.keys \in Seq(Keys)
                  BY <1>3, TypeStep, HeaderLemma DEF TypeOK, RingType
            <3>. QED BY <3>1, <3>2, PrefixLemma
      <2>3. CASE HeaderSync
            BY <2>3, <1>3 DEF HeaderSync, HeaderInv, TgtInv
      <2>4. CASE Open
            <3>1. /\ status = "lost" /\ groupsMay = {groups}
                  BY <2>4, <1>3 DEF Open, HeaderInv, ControlInv
            <3>2. hdr[cur] = rh /\ GoodOther(hdr[Other])
                  BY <3>1, <1>3 DEF HeaderInv, CurInv, OtherInv, HasRing
            <3>3. \/ parseRing(hdr, groups) = cur
                  \/ /\ parseRing(hdr, groups) = Other
                     /\ IsPrefix(rh.keys, hdr[Other].keys)
                  BY <3>1, <3>2, <1>3, ParseGood DEF HeaderInv, HasRing, TypeOK, HdrType
            <3>. QED BY <2>1, <2>4, <3>2, <3>3 DEF Open, file
      <2>5. CASE UNCHANGED rh BY <2>1, <2>5
      <2>. QED
            BY <1>3, <2>2, <2>3, <2>4, <2>5
            DEF Next, vars, WriterNext, FaultNext, ReaderNext, CreateWrite, CreateSync,
                HeaderWrite, AddSeries, AddSync, SetForgotten, WriteMinute, InvalidSync,
                WriteColumn, ColumnsSync, StampMinute, WriteFails, CreateFails, Close,
                Kill, PowerLoss, ReadBefore, ReadColumn, ReadAfter, ReadReturn
<1>. QED BY <1>1, <1>2, <1>3, PTL DEF Spec, KeysStable
=============================================================================
