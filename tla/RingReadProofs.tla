--------------------------- MODULE RingReadProofs ---------------------------
(***************************************************************************)
(* readWindow reads a ring without ring.mu, while writeMinute rewrites the *)
(* same slots, addSeries makes the file grow and writeHeader publishes new *)
(* keys: what it accepts is whole all the same, with every fault of        *)
(* RingFile.  The disk part of the argument is RingInv (RingMinuteProofs): *)
(* a stamp vouches for the columns beside it when the reader first sees    *)
(* it.  What is added here is how long that lasts.  Then what a query makes of  *)
(* what is kept: the live graph, and the points of a stored range          *)
(* (LiveRing).                                                             *)
(***************************************************************************)
EXTENDS MCRing, RingMinuteProofs

-----------------------------------------------------------------------------
(* The inductive invariant, of one reader's record q.                      *)

\* The calls of writeMinute for a minute.
Written(m) == {w \in 1..Len(log) : log[w] = m}

\* A write of the minute being read overlapped the read.
Overlapped(q) == \E w \in (q.seen + 1)..Len(log) : log[w] = q.m

\* A reader is inside a ring that is open, on a series that has its columns.
InRing(q) ==
    /\ status = "open" /\ q.i < Len(rh.keys) /\ q.m # 0
    /\ q.seen \in Nat /\ q.seen <= Len(log) - InFlight
    /\ Len(q.vals) <= NCols /\ (q.pc = "done" => Len(q.vals) = NCols)

\* While the stamp it saw is there, the columns hold v, those it has read and
\* those it will read; if the stamp is there at the end, all it read was v.
Consistent(q, v) ==
    /\ q.pc = "columns" /\ stamp[slotOf(q.m)] = q.m =>
           /\ \A c \in 0..(NCols - 1) : col[<<q.i, c, slotOf(q.m)>>] = v
           /\ \A c \in 1..Len(q.vals) : q.vals[c] = v
    /\ q.pc = "done" /\ q.after = q.m => \A c \in 1..Len(q.vals) : q.vals[c] = v

Vouched(q) == Overlapped(q) \/ \E v \in {NaN} \cup Written(q.m) : Consistent(q, v)

ReadInv == \A r \in Readers : rd[r].pc # "idle" =>
               InRing(rd[r]) /\ (rd[r].before = rd[r].m => Vouched(rd[r]))

-----------------------------------------------------------------------------
(* Steps of the others.                                                    *)

\* A step of the writer a reader can stand: what it has published stays, a
\* write in flight ends after it has begun, and a stamp that is not 0 and was
\* not put there by this step is still beside the same columns.
Mild ==
    /\ rd' = rd /\ (status = "open" => status' = "open")
    /\ Len(rh.keys) <= Len(rh'.keys)
    /\ Len(log) <= Len(log') /\ \A w \in 1..Len(log) : log'[w] = log[w]
    /\ Len(log) - InFlight <= Len(log') - InFlight'
    /\ \A s \in Slots : stamp'[s] # 0 =>
           \/ /\ stamp'[s] = stamp[s]
              /\ \A i \in 0..(MaxSeries - 1), c \in 0..(NCols - 1) :
                     i < Len(rh.keys) => col'[<<i, c, s>>] = col[<<i, c, s>>]
           \/ InFlight = 1 /\ stamp'[s] = log[Len(log)]

LEMMA ReaderTyping ==
    ASSUME TypeOK, NEW r \in Readers
    PROVE  /\ rd[r].pc \in {"idle", "columns", "done"}
           /\ rd[r].m \in Nat /\ rd[r].i \in 0..(MaxSeries - 1)
           /\ rd[r].before \in Nat /\ rd[r].after \in Nat
           /\ rd[r].vals \in Seq(Values) /\ Len(rd[r].vals) \in Nat
           /\ rd[r].seen \in Int
           /\ slotOf(rd[r].m) \in Slots
<1>1. rd[r] \in [pc : {"idle", "columns", "done"}, m : Nat,
                 i : 0..(MaxSeries - 1), before : Nat,
                 vals : Seq(Values), after : Nat, seen : Int]
      BY DEF TypeOK, ReaderType
<1>. QED BY <1>1, SlotLemma

LEMMA MildStep ==
    ASSUME TypeOK, TypeOK', ReadInv, Mild
    PROVE  ReadInv'
<1>. SUFFICES ASSUME NEW r \in Readers, (rd[r].pc # "idle")'
              PROVE  (InRing(rd[r]) /\ (rd[r].before = rd[r].m => Vouched(rd[r])))'
     BY DEF ReadInv
<1>0. PICK q, s : q = rd[r] /\ s = slotOf(q.m)
      OBVIOUS
<1>1. /\ rd'[r] = q /\ q.pc # "idle" /\ InRing(q)
      /\ q.before = q.m => Vouched(q)
      BY <1>0 DEF Mild, ReadInv
<1>2. /\ q.m \in Nat /\ q.i \in 0..(MaxSeries - 1) /\ q.seen \in Int /\ s \in Slots
      /\ Len(q.vals) \in Nat
      BY <1>0, ReaderTyping
<1>3. /\ Len(log) \in Nat /\ Len(log') \in Nat
      /\ Len(rh.keys) \in Nat /\ Len(rh'.keys) \in Nat
      /\ InFlight \in Nat /\ InFlight' \in Nat
      <2>1. Len(rh.keys) \in Nat /\ Len(log) \in Nat BY Typing, MaxSeriesAssumption
      <2>2. Len(rh'.keys) \in Nat
            BY HeaderLemma DEF TypeOK, RingType
      <2>3. Len(log') \in Nat BY DEF TypeOK, HistoryType
      <2>. QED BY <2>1, <2>2, <2>3 DEF InFlight
<1>4. InRing(q)'
      BY <1>1, <1>2, <1>3 DEF InRing, Mild
<1>5. Overlapped(q) => Overlapped(q)'
      <2>. SUFFICES ASSUME NEW w \in (q.seen + 1)..Len(log), log[w] = q.m
                    PROVE  Overlapped(q)'
           BY DEF Overlapped
      <2>1. q.seen \in Nat BY <1>1 DEF InRing
      <2>2. w \in 1..Len(log) /\ w \in (q.seen + 1)..Len(log') BY <1>3, <2>1 DEF Mild
      <2>3. log'[w] = q.m BY <2>2 DEF Mild
      <2>. QED BY <2>2, <2>3 DEF Overlapped
<1>6. ASSUME NEW v \in {NaN} \cup Written(q.m), Consistent(q, v), ~Overlapped(q)'
      PROVE  v \in {NaN} \cup Written(q.m)' /\ Consistent(q, v)'
      <2>1. v \in {NaN} \cup Written(q.m)'
            BY <1>3 DEF Written, Mild
      <2>2. q.m # 0 /\ q.i < Len(rh.keys) /\ q.seen \in Nat /\ q.seen <= Len(log) - InFlight
            BY <1>1 DEF InRing
      <2>3. ASSUME stamp'[s] = q.m
            PROVE  /\ stamp[s] = q.m
                   /\ \A c \in 0..(NCols - 1) : col'[<<q.i, c, s>>] = col[<<q.i, c, s>>]
            <3>1. ~(InFlight = 1 /\ stamp'[s] = log[Len(log)])
                  <4>. SUFFICES ASSUME InFlight = 1, q.m = log[Len(log)]
                                PROVE  FALSE
                       BY <2>3
                  <4>1. Len(log) \in (q.seen + 1)..Len(log)
                        BY <1>3, <2>2
                  <4>2. Overlapped(q) BY <4>1 DEF Overlapped
                  <4>. QED BY <4>2, <1>5, <1>6
            <3>. QED BY <1>2, <2>2, <2>3, <3>1 DEF Mild
      <2>. QED BY <1>0, <1>6, <2>1, <2>3 DEF Consistent
<1>7. q.before = q.m => Vouched(q)'
      BY <1>1, <1>5, <1>6 DEF Vouched
<1>. QED BY <1>1, <1>4, <1>7

\* Every step of the writer is one, an error included.
LEMMA WriterMild ==
    ASSUME TypeOK, TypeOK', RingInv,
           WriterNext \/ WriteFails
    PROVE  Mild
<1>. USE DEF InFlight
<1>0. Len(log) \in Nat /\ Len(rh.keys) \in Nat /\ Len(rh.keys) \in 0..MaxSeries
      BY Typing, MaxSeriesAssumption
<1>1. CASE HeaderWrite \/ AddSync \/ (\E f \in BOOLEAN : SetForgotten(f))
           \/ InvalidSync \/ ColumnsSync \/ WriteFails
      BY <1>0, <1>1
      DEF HeaderWrite, AddSync, SetForgotten, InvalidSync, ColumnsSync, WriteFails,
          Sync, file, Mild
<1>2. CASE HeaderSync
      <2>1. Len(rh.keys) <= Len(rh'.keys)
            BY <1>2 DEF HeaderSync, RingInv, NextInv
      <2>. QED BY <1>0, <1>2, <2>1 DEF HeaderSync, Sync, Mild
<1>3. ASSUME NEW k \in Keys, AddSeries(k) PROVE Mild
      <2>1. /\ col' = [x \in Cells |-> IF x \in {y \in Cells : y[1] = Len(rh.keys)}
                                         THEN NaN ELSE col[x]]
            /\ UNCHANGED <<stamp, rd, status, rh, log>>
            /\ InFlight' = InFlight
            BY <1>3 DEF AddSeries
      <2>2. ASSUME NEW s \in Slots, NEW i \in 0..(MaxSeries - 1),
                   NEW c \in 0..(NCols - 1), i < Len(rh.keys)
            PROVE  col'[<<i, c, s>>] = col[<<i, c, s>>]
            <3>1. <<i, c, s>> \in Cells /\ <<i, c, s>>[1] # Len(rh.keys)
                  BY <2>2, <1>0 DEF Cells
            <3>. QED BY <2>1, <3>1
      <2>. QED BY <1>0, <2>1, <2>2 DEF Mild
<1>4. ASSUME NEW m \in 1..MaxMinute, NEW v \in SUBSET (0..(Len(rh.keys) - 1)),
             WriteMinute(m, v)
      PROVE  Mild
      <2>1. /\ log' = Append(log, m) /\ stamp' = [stamp EXCEPT ![slotOf(m)] = 0]
            /\ UNCHANGED <<col, rd, status, rh>>
            /\ InFlight = 0 /\ InFlight' = 1
            BY <1>4 DEF WriteMinute, WriteStamp
      <2>2. /\ Len(log') = Len(log) + 1
            /\ \A w \in 1..Len(log) : log'[w] = log[w]
            BY <2>1 DEF TypeOK, HistoryType
      <2>3. \A s \in Slots : stamp'[s] # 0 => stamp'[s] = stamp[s]
            BY <2>1 DEF TypeOK, DataType
      <2>. QED BY <1>0, <2>1, <2>2, <2>3 DEF Mild
<1>5. CASE WriteColumn
      <2>1. /\ col' = [col EXCEPT ![<<wr.i, wr.c, slotOf(wr.m)>>] =
                          IF wr.i \in wr.v THEN Len(log) ELSE NaN]
            /\ UNCHANGED <<stamp, rd, status, rh, log>>
            /\ InFlight = 1 /\ InFlight' = 1
            BY <1>5 DEF WriteColumn
      <2>2. stamp[slotOf(wr.m)] = 0 BY <2>1 DEF RingInv, MinuteInv
      <2>3. ASSUME NEW s \in Slots, NEW i \in 0..(MaxSeries - 1),
                   NEW c \in 0..(NCols - 1), s # slotOf(wr.m)
            PROVE  col'[<<i, c, s>>] = col[<<i, c, s>>]
            <3>1. <<i, c, s>> # <<wr.i, wr.c, slotOf(wr.m)>> BY <2>3
            <3>2. <<i, c, s>> \in Cells BY DEF Cells
            <3>. QED BY <2>1, <3>1, <3>2 DEF TypeOK, DataType
      <2>. QED BY <1>0, <2>1, <2>2, <2>3 DEF Mild
<1>6. CASE StampMinute
      <2>1. /\ stamp' = [stamp EXCEPT ![slotOf(wr.m)] = wr.m]
            /\ UNCHANGED <<col, rd, status, rh, log>>
            /\ InFlight = 1 /\ InFlight' = 0
            BY <1>6 DEF StampMinute, WriteStamp
      <2>2. log[Len(log)] = wr.m BY <2>1 DEF RingInv, MinuteInv
      <2>3. \A s \in Slots : stamp'[s] = stamp[s] \/ stamp'[s] = wr.m
            BY <2>1 DEF TypeOK, DataType
      <2>. QED BY <1>0, <2>1, <2>2, <2>3 DEF Mild
<1>. QED BY <1>1, <1>2, <1>3, <1>4, <1>5, <1>6 DEF WriterNext

-----------------------------------------------------------------------------
(* Steps of the reader.                                                    *)

\* What the stamp vouches for when the reader sees it: RingInv says it of the
\* disk, and the page cache shows one of the states the disk can be in.
LEMMA FirstSight ==
    ASSUME TypeOK, RingInv, status = "open",
           NEW m \in Nat, m # 0, stamp[slotOf(m)] = m,
           NEW i \in 0..(MaxSeries - 1), i < Len(rh.keys)
    PROVE  \E v \in {NaN} \cup Written(m) :
               \A c \in 0..(NCols - 1) : col[<<i, c, slotOf(m)>>] = v
<1>1. slotOf(m) \in Slots BY SlotLemma
<1>2. m \in stampMay[slotOf(m)] \ {0}
      BY <1>1 DEF RingInv, FileInv, InCache
<1>3. Referenced(i)
      <2>1. hdr[cur] = rh /\ rh.ok BY DEF RingInv, NewestInv, Live
      <2>2. cur \in Copies /\ hdr[cur] \in hdrMay[cur]
            BY Typing DEF RingInv, FileInv, InCache
      <2>. QED BY <2>1, <2>2 DEF Referenced
<1>4. PICK w \in 1..Len(log) : log[w] = m /\ WholeSeries(i, slotOf(m), w)
      BY <1>1, <1>2, <1>3 DEF RingInv, StampedWhole
<1>5. PICK v \in {w, NaN} : \A c \in 0..(NCols - 1) : colMay[<<i, c, slotOf(m)>>] = {v}
      BY <1>4 DEF WholeSeries
<1>6. \A c \in 0..(NCols - 1) : col[<<i, c, slotOf(m)>>] = v
      <2>1. \A c \in 0..(NCols - 1) : <<i, c, slotOf(m)>> \in Cells BY <1>1 DEF Cells
      <2>. QED BY <1>5, <2>1 DEF RingInv, FileInv, InCache
<1>. QED BY <1>4, <1>5, <1>6 DEF Written

\* A step of one reader is a step of the ring that changes nothing else.
LEMMA ReaderStep ==
    ASSUME TypeOK, TypeOK', RingInv, ReadInv, ReaderNext
    PROVE  ReadInv'
<1>0. PICK r \in Readers :
          \/ \E m \in 1..MaxMinute, i \in 0..(MaxSeries - 1) : ReadBefore(r, m, i)
          \/ ReadColumn(r) \/ ReadAfter(r) \/ ReadReturn(r)
      BY DEF ReaderNext
<1>1. /\ UNCHANGED <<file, status, rh, cur, writer, log>>
      /\ UNCHANGED <<stamp, col, pc>> /\ InFlight' = InFlight
      BY <1>0 DEF ReadBefore, ReadColumn, ReadAfter, ReadReturn, file, writer, InFlight
<1>2. rd' = [rd EXCEPT ![r] = rd'[r]] /\ \A p \in Readers \ {r} : rd'[p] = rd[p]
      BY <1>0 DEF ReadBefore, ReadColumn, ReadAfter, ReadReturn, TypeOK, ReaderType
<1>3. \A q : /\ InRing(q) <=> InRing(q)'
             /\ Overlapped(q) <=> Overlapped(q)'
             /\ Vouched(q) <=> Vouched(q)'
      BY <1>1 DEF InRing, Overlapped, Vouched, Consistent, Written
<1>4. ASSUME rd'[r].pc = "idle" \/
             (InRing(rd'[r]) /\ (rd'[r].before = rd'[r].m => Vouched(rd'[r])))
      PROVE  ReadInv'
      <2>. SUFFICES ASSUME NEW p \in Readers, rd'[p].pc # "idle"
                    PROVE  (InRing(rd[p]) /\ (rd[p].before = rd[p].m => Vouched(rd[p])))'
           BY DEF ReadInv
      <2>1. PICK q : q = rd'[p] OBVIOUS
      <2>2. InRing(q) /\ (q.before = q.m => Vouched(q))
            BY <1>2, <1>4, <2>1 DEF ReadInv
      <2>. QED BY <1>3, <2>1, <2>2
<1>5. ASSUME NEW m \in 1..MaxMinute, NEW i \in 0..(MaxSeries - 1), ReadBefore(r, m, i)
      PROVE  ReadInv'
      <2>. DEFINE q == [pc |-> "columns", m |-> m, i |-> i, before |-> stamp[slotOf(m)],
                        vals |-> <<>>, after |-> 0, seen |-> Len(log) - InFlight]
      <2>1. rd'[r] = q /\ status = "open" /\ i < Len(rh.keys)
            BY <1>5 DEF ReadBefore, TypeOK, ReaderType
      <2>2. q.seen \in Nat /\ InFlight \in Nat
            BY Typing DEF RingInv, MinuteInv, InFlight
      <2>3. InRing(q) BY <2>1, <2>2, Typing, NColsAssumption DEF InRing
      <2>4. ASSUME q.before = m PROVE Vouched(q)
            <3>1. m \in Nat /\ m # 0 BY BoundsAssumption
            <3>2. PICK v \in {NaN} \cup Written(m) :
                      \A c \in 0..(NCols - 1) : col[<<i, c, slotOf(m)>>] = v
                  BY <2>1, <2>4, <3>1, FirstSight
            <3>3. Consistent(q, v) BY <3>2 DEF Consistent
            <3>. QED BY <3>3 DEF Vouched
      <2>. QED BY <1>4, <2>1, <2>3, <2>4
<1>6. ASSUME rd[r].pc # "idle"
      PROVE  InRing(rd[r]) /\ (rd[r].before = rd[r].m => Vouched(rd[r]))
      BY <1>6 DEF ReadInv
<1>. DEFINE q == rd[r]
<1>. /\ q.i \in 0..(MaxSeries - 1) /\ Len(q.vals) \in Nat /\ q.vals \in Seq(Values)
     /\ slotOf(q.m) \in Slots
     BY ReaderTyping
<1>7. CASE ReadColumn(r)
      <2>. DEFINE x == <<q.i, Len(q.vals), slotOf(q.m)>>
      <2>1. /\ q.pc = "columns" /\ Len(q.vals) < NCols
            /\ rd'[r] = [q EXCEPT !.vals = Append(@, col[x])]
            BY <1>7 DEF ReadColumn, TypeOK, ReaderType
      <2>2. /\ rd'[r].pc = q.pc /\ rd'[r].m = q.m /\ rd'[r].i = q.i
            /\ rd'[r].before = q.before /\ rd'[r].seen = q.seen
            /\ rd'[r].vals = Append(q.vals, col[x])
            BY <2>1, <1>0 DEF TypeOK, ReaderType
      <2>3. InRing(rd'[r])
            <3>1. Len(rd'[r].vals) = Len(q.vals) + 1 BY <2>2
            <3>. QED BY <1>6, <2>1, <2>2, <3>1, NColsAssumption DEF InRing
      <2>4. ASSUME q.before = q.m PROVE Vouched(rd'[r])
            <3>1. CASE Overlapped(q) BY <2>2, <3>1 DEF Overlapped, Vouched
            <3>2. CASE ~Overlapped(q)
                  <4>1. PICK v \in {NaN} \cup Written(q.m) : Consistent(q, v)
                        BY <1>6, <2>1, <2>4, <3>2 DEF Vouched
                  <4>2. Consistent(rd'[r], v)
                        <5>1. Len(q.vals) \in 0..(NCols - 1) BY <2>1, NColsAssumption
                        <5>2. ASSUME stamp[slotOf(q.m)] = q.m,
                                     NEW c \in 1..Len(rd'[r].vals)
                              PROVE  rd'[r].vals[c] = v
                              <6>1. CASE c = Len(q.vals) + 1
                                    BY <2>1, <2>2, <4>1, <5>1, <5>2, <6>1 DEF Consistent
                              <6>2. CASE c # Len(q.vals) + 1
                                    BY <2>1, <2>2, <4>1, <5>2, <6>2 DEF Consistent
                              <6>. QED BY <6>1, <6>2
                        <5>. QED BY <2>1, <2>2, <4>1, <5>2 DEF Consistent
                  <4>. QED BY <2>2, <4>1, <4>2 DEF Vouched
            <3>. QED BY <3>1, <3>2
      <2>. QED BY <1>4, <2>2, <2>3, <2>4
<1>8. CASE ReadAfter(r)
      <2>1. /\ q.pc = "columns" /\ Len(q.vals) = NCols
            /\ rd'[r].pc = "done" /\ rd'[r].m = q.m /\ rd'[r].i = q.i
            /\ rd'[r].before = q.before /\ rd'[r].seen = q.seen
            /\ rd'[r].vals = q.vals /\ rd'[r].after = stamp[slotOf(q.m)]
            BY <1>8 DEF ReadAfter, TypeOK, ReaderType
      <2>2. InRing(rd'[r]) BY <1>6, <2>1, NColsAssumption DEF InRing
      <2>3. ASSUME q.before = q.m PROVE Vouched(rd'[r])
            BY <1>6, <2>1, <2>3 DEF Vouched, Overlapped, Consistent
      <2>. QED BY <1>4, <2>1, <2>2, <2>3
<1>9. CASE ReadReturn(r)
      <2>1. rd'[r].pc = "idle" BY <1>9 DEF ReadReturn, NoRead, TypeOK, ReaderType
      <2>. QED BY <1>4, <2>1
<1>. QED BY <1>0, <1>5, <1>7, <1>8, <1>9

-----------------------------------------------------------------------------
(* The theorem.                                                            *)

LEMMA ReadInit == Init => ReadInv
BY DEF Init, ReadInv, NoRead

LEMMA ReadStep == TypeOK /\ RingInv /\ ReadInv /\ [Next]_vars => ReadInv'
<1>. SUFFICES ASSUME TypeOK, RingInv, ReadInv, [Next]_vars PROVE ReadInv'
     OBVIOUS
<1>0. TypeOK' BY TypeStep
<1>1. CASE WriterNext \/ WriteFails
      BY <1>0, <1>1, WriterMild, MildStep
<1>2. CASE ReaderNext
      BY <1>0, <1>2, ReaderStep
<1>3. CASE \/ CreateWrite \/ CreateSync \/ CreateRename \/ CreateFails
           \/ Open \/ Close \/ Kill \/ PowerLoss
      <2>1. \A r \in Readers : rd'[r].pc = "idle"
            <3>1. CASE Kill \/ PowerLoss
                  BY <3>1 DEF Kill, PowerLoss, NoRead
            <3>2. CASE Close
                  BY <3>2 DEF Close
            <3>3. CASE CreateWrite \/ CreateSync \/ CreateRename \/ CreateFails \/ Open
                  <4>1. status # "open" /\ rd' = rd
                        BY <3>3
                        DEF CreateWrite, CreateSync, CreateRename, CreateFails, Open,
                            RingInv, FileInv, PhaseInv, Creating
                  <4>. QED BY <4>1 DEF ReadInv, InRing
            <3>. QED BY <1>3, <3>1, <3>2, <3>3
      <2>. QED BY <2>1 DEF ReadInv
<1>4. CASE UNCHANGED vars
      <2>1. UNCHANGED <<stamp, col, status, rh, rd, log>> /\ InFlight' = InFlight
            BY <1>4 DEF vars, file, writer, InFlight
      <2>2. \A q : (InRing(q) <=> InRing(q)') /\ (Vouched(q) <=> Vouched(q)')
            BY <2>1 DEF InRing, Overlapped, Vouched, Consistent, Written
      <2>3. ASSUME NEW r \in Readers, (rd[r].pc # "idle")'
            PROVE  (InRing(rd[r]) /\ (rd[r].before = rd[r].m => Vouched(rd[r])))'
            <3>1. PICK q : q = rd[r] OBVIOUS
            <3>2. rd'[r] = q BY <2>1, <3>1
            <3>. QED BY <2>2, <2>3, <3>1, <3>2 DEF ReadInv
      <2>. QED BY <2>3 DEF ReadInv
<1>. QED BY <1>1, <1>2, <1>3, <1>4 DEF Next, FaultNext

\* A cell readWindow accepts comes whole from one writeMinute of its minute,
\* for every ring, every number of readers, and every interleaving of their
\* reads with the writes, errors, crashes and reopenings of the writer.
THEOREM ReadCorrect == Spec => []ReadWhole
<1>1. Init => TypeOK /\ RingInv /\ ReadInv BY TypeInit, RingInit, ReadInit
<1>2. TypeOK /\ RingInv /\ ReadInv /\ [Next]_vars => (TypeOK /\ RingInv /\ ReadInv)'
      BY TypeStep, RingStep, ReadStep
<1>3. TypeOK /\ ReadInv => ReadWhole
      <2>. SUFFICES ASSUME TypeOK, ReadInv, NEW r \in Readers, Accepted(r),
                           ~Overlapped(rd[r])
                    PROVE  \E w \in 1..Len(log) :
                               /\ log[w] = rd[r].m
                               /\ \A c \in 1..NCols : rd[r].vals[c] = w
           BY DEF ReadWhole, Overlapped
      <2>1. /\ rd[r].pc = "done" /\ rd[r].before = rd[r].m /\ rd[r].after = rd[r].m
            /\ \A c \in 1..NCols : rd[r].vals[c] # NaN
            BY DEF Accepted
      <2>2. InRing(rd[r]) /\ Vouched(rd[r]) BY <2>1 DEF ReadInv
      <2>3. PICK v \in {NaN} \cup Written(rd[r].m) :
                 \A c \in 1..NCols : rd[r].vals[c] = v
            BY <2>1, <2>2 DEF Vouched, Consistent, InRing
      <2>4. v # NaN BY <2>1, <2>3, NColsAssumption
      <2>. QED BY <2>3, <2>4 DEF Written
<1>. QED BY <1>1, <1>2, <1>3, PTL DEF Spec

-----------------------------------------------------------------------------
(* Division, of numbers of either sign.                                    *)

\* The quotient rounds down.
LEMMA Floor ==
    ASSUME NEW x \in Int, NEW d \in Nat \ {0}
    PROVE  /\ x \div d \in Int /\ d * (x \div d) \in Int
           /\ d * (x \div d) <= x /\ x < d * (x \div d) + d
BY SMT

\* The remainder is what is left, and never negative.
LEMMA Remainder ==
    ASSUME NEW x \in Int, NEW d \in Nat \ {0}
    PROVE  x % d \in 0..(d - 1) /\ x % d = x - d * (x \div d)
BY SMT

\* There is one quotient.
LEMMA Quotient ==
    ASSUME NEW d \in Nat \ {0}, NEW q \in Int, NEW x \in Int,
           d * q <= x, x < d * q + d
    PROVE  x \div d = q /\ x % d = x - d * q
BY SMT

\* Division keeps the order.
LEMMA DivMono ==
    ASSUME NEW a \in Int, NEW b \in Int, NEW d \in Nat \ {0}, a <= b
    PROVE  a \div d <= b \div d
BY SMT

\* A natural number has a natural quotient.
LEMMA DivNat == ASSUME NEW a \in Nat, NEW d \in Nat \ {0} PROVE a \div d \in Nat
BY SMT

\* Numbers less than n apart do not share a remainder.
LEMMA ModApart ==
    ASSUME NEW a \in Int, NEW b \in Int, NEW n \in Nat \ {0},
           a % n = b % n, a <= b, b < a + n
    PROVE  a = b
<1>. DEFINE p == a \div n
            q == b \div n
<1>1. /\ p \in Int /\ q \in Int /\ n * p \in Int /\ n * q \in Int
      /\ a % n = a - n * p /\ b % n = b - n * q
      BY Floor, Remainder
<1>2. p <= q BY DivMono
<1>. HIDE DEF p, q
<1>3. b - a = n * q - n * p BY <1>1
<1>4. n * q - n * p = n * (q - p) BY <1>1
<1>5. n * (q - p) < n * 1 BY <1>3, <1>4
<1>6. q - p < 1 BY <1>1, <1>5
<1>7. p = q BY <1>1, <1>2, <1>6
<1>. QED BY <1>1, <1>3, <1>7

-----------------------------------------------------------------------------
(* The invariant of the live ring.                                         *)

Idx == 0..(LiveSlots - 1)

\* The samples since the last reset, and the slot of one.
Recent  == (since + 1)..Len(smps)
Slot(n) == smps[n].at \div liveStep

\* n is the last sample of its slot.
Newest(n) == \A x \in Recent : Slot(x) = Slot(n) => x <= n

\* What the invariant is about.
Samples == [at : Nat, keys : SUBSET LiveKeys]

LiveTyped ==
    /\ smps \in Seq(Samples) /\ since \in 0..Len(smps)
    /\ last \in Nat \cup {-1} /\ accMin \in Nat \cup {-1} /\ mins \subseteq Nat
    /\ liveStamp \in [Idx -> Nat]
    /\ DOMAIN series \subseteq LiveKeys /\ series \in [DOMAIN series -> [Idx -> Nat]]
    /\ Cardinality(DOMAIN series) <= LiveSeries

\* Since a reset the clock has not gone back, and last is the last of them.
Ordered ==
    /\ last = -1 => Recent = {}
    /\ last # -1 => Len(smps) \in Recent /\ last = smps[Len(smps)].at
    /\ \A m, n \in Recent : m <= n => smps[m].at <= smps[n].at

\* A stamp is a slot of its index and not of the future; that of a sample is
\* there, or a later one; each slot has a last sample.
Stamped ==
    /\ \A i \in Idx : liveStamp[i] = 0 \/ (/\ last # -1 /\ liveStamp[i] % LiveSlots = i
                                           /\ liveStamp[i] <= last \div liveStep)
    /\ \A n \in Recent : /\ liveStamp[Slot(n) % LiveSlots] >= Slot(n)
                         /\ \E x \in Recent : Slot(x) = Slot(n) /\ Newest(x)

\* A value in a column is the last sample of the slot stamped there, with the key.
Columns ==
    \A k \in DOMAIN series, i \in Idx : series[k][i] # 0 =>
        LET v == series[k][i]
        IN  /\ v \in Recent /\ Newest(v) /\ k \in smps[v].keys
            /\ Slot(v) = liveStamp[i] /\ Slot(v) % LiveSlots = i

\* While its slot is stamped, the last sample of it is in its columns; a key
\* without a column found the cap reached.
Kept ==
    \A n \in Recent : Newest(n) /\ liveStamp[Slot(n) % LiveSlots] = Slot(n) =>
        \A k \in smps[n].keys :
            IF k \in DOMAIN series THEN series[k][Slot(n) % LiveSlots] = n
                                   ELSE Cardinality(DOMAIN series) = LiveSeries

LiveInv == LiveTyped /\ Ordered /\ Stamped /\ Columns /\ Kept

\* Cardinality means the same to the instance.
LEMMA SameCardinality == \A S : Graph!Cardinality(S) = Cardinality(S)
BY DEF Graph!Cardinality, Cardinality

\* A ring just made shows nothing.
LEMMA LiveInit == Graph!Init => LiveInv
<1>. SUFFICES ASSUME Graph!Init PROVE LiveInv OBVIOUS
<1>. USE LiveAssumption DEF Graph!Init
<1>1. DOMAIN series = {} /\ Recent = {} BY DEF Recent
<1>2. LiveTyped
      <2>1. series \in [DOMAIN series -> [Idx -> Nat]] BY <1>1
      <2>. QED BY <1>1, <2>1, FS_EmptySet DEF LiveTyped, Idx, Graph!Indices
<1>. QED BY <1>1, <1>2 DEF LiveInv, Ordered, Stamped, Columns, Kept, Idx, Graph!Indices

\* entry.record and put.
LEMMA RecordKeeps ==
    ASSUME LiveInv, NEW at \in 0..LastTime, NEW ks \in SUBSET LiveKeys, Graph!Record(at, ks)
    PROVE  LiveInv'
<1>. DEFINE back == last # -1 /\ at < last
            old  == IF back THEN [k \in {} |-> 0] ELSE series
            s    == at \div liveStep
            x    == s % LiveSlots
<1>0. PICK N : N = Len(smps) + 1 OBVIOUS
<1>. USE LiveAssumption
<1>1. /\ smps' = Append(smps, [at |-> at, keys |-> ks]) /\ last' = at
      /\ since' = IF back THEN Len(smps) ELSE since
      /\ liveStamp' = [IF back THEN [i \in Idx |-> 0] ELSE liveStamp EXCEPT ![x] = s]
      BY DEF Graph!Record, Graph!Indices, Idx
<1>2. PICK new \in SUBSET (ks \ DOMAIN old) :
          /\ Cardinality(new) <= LiveSeries - Cardinality(DOMAIN old)
          /\ Cardinality(new) < LiveSeries - Cardinality(DOMAIN old) => new = ks \ DOMAIN old
          /\ series' = Graph!put(old, new, ks, x, N)
      BY <1>0, SameCardinality DEF Graph!Record
<1>3. accMin' \in Nat \cup {-1} /\ mins' \subseteq Nat
      <2>1. at \div MinuteLen \in Nat BY Floor
      <2>. QED BY <2>1 DEF Graph!Record, LiveInv, LiveTyped
<1>4. /\ at \in Nat /\ s \in Nat /\ x \in Idx /\ N \in Nat \ {0}
      <2>1. at \in Nat /\ N \in Nat \ {0} BY <1>0 DEF LiveInv, LiveTyped
      <2>2. s \in Nat BY <2>1, DivNat
      <2>. HIDE DEF s
      <2>. QED BY <2>1, <2>2 DEF Idx
<1>5. /\ DOMAIN old \subseteq LiveKeys /\ IsFiniteSet(DOMAIN old)
      /\ \A k \in DOMAIN old : old[k] \in [Idx -> Nat]
      /\ ~back => old = series
      BY FS_Subset DEF LiveInv, LiveTyped
<1>6. /\ DOMAIN series' = DOMAIN old \cup new /\ IsFiniteSet(new)
      /\ Cardinality(DOMAIN series') = Cardinality(DOMAIN old) + Cardinality(new)
      /\ Cardinality(DOMAIN old) \in Nat /\ Cardinality(new) \in Nat
      <2>1. DOMAIN series' = DOMAIN old \cup new BY <1>2 DEF Graph!put
      <2>2. IsFiniteSet(new) BY FS_Subset
      <2>3. DOMAIN old \cap new = {} OBVIOUS
      <2>. HIDE DEF old
      <2>4. Cardinality(DOMAIN old \cup new)
              = Cardinality(DOMAIN old) + Cardinality(new) - Cardinality(DOMAIN old \cap new)
            BY <1>5, <2>2, FS_Union
      <2>5. Cardinality(DOMAIN old \cap new) = 0 BY <2>3, FS_EmptySet
      <2>6. Cardinality(DOMAIN old) \in Nat /\ Cardinality(new) \in Nat
            BY <1>5, <2>2, FS_CardinalityType
      <2>. QED BY <2>1, <2>2, <2>4, <2>5, <2>6
<1>6a. series' = [k \in DOMAIN old \cup new |->
                  [i \in Idx |-> CASE i = x /\ k \in ks -> N
                                   [] i # x /\ k \in DOMAIN old -> old[k][i]
                                   [] OTHER -> 0]]
      BY <1>2 DEF Graph!put, Graph!Indices, Graph!NaN, Idx
<1>. HIDE DEF old, s, x
<1>7. \A k \in DOMAIN series', i \in Idx :
          /\ i = x => series'[k][i] = IF k \in ks THEN N ELSE 0
          /\ i # x => series'[k][i] = IF k \in DOMAIN old THEN old[k][i] ELSE 0
          /\ series'[k][i] \in Nat
      <2>. SUFFICES ASSUME NEW k \in DOMAIN series', NEW i \in Idx
                    PROVE  /\ i = x => series'[k][i] = IF k \in ks THEN N ELSE 0
                           /\ i # x => series'[k][i] = IF k \in DOMAIN old THEN old[k][i] ELSE 0
                           /\ series'[k][i] \in Nat
           OBVIOUS
      <2>1. series'[k][i] = CASE i = x /\ k \in ks -> N
                              [] i # x /\ k \in DOMAIN old -> old[k][i]
                              [] OTHER -> 0
            BY <1>6, <1>6a
      <2>2. k \in DOMAIN old => old[k][i] \in Nat
            <3>1. k \in DOMAIN old => old[k] \in [Idx -> Nat] BY <1>5
            <3>. QED BY <3>1
      <2>. QED BY <1>4, <2>1, <2>2
<1>8. LiveTyped'
      <2>1. smps' \in Seq(Samples) /\ since' \in 0..Len(smps')
            <3>1. [at |-> at, keys |-> ks] \in Samples BY <1>4 DEF Samples
            <3>. QED BY <1>1, <3>1 DEF LiveInv, LiveTyped
      <2>2. liveStamp' \in [Idx -> Nat] BY <1>1, <1>4 DEF LiveInv, LiveTyped
      <2>3. DOMAIN series' \subseteq LiveKeys BY <1>2, <1>5, <1>6
      <2>4. series' \in [DOMAIN series' -> [Idx -> Nat]]
            <3>1. \A k \in DOMAIN series' : series'[k] = [i \in Idx |-> series'[k][i]]
                  BY <1>6, <1>6a
            <3>2. series' = [k \in DOMAIN series' |-> series'[k]] BY <1>6, <1>6a
            <3>. QED BY <1>7, <3>1, <3>2
      <2>5. Cardinality(DOMAIN series') <= LiveSeries BY <1>2, <1>6
      <2>. QED BY <1>1, <1>3, <1>4, <2>1, <2>2, <2>3, <2>4, <2>5 DEF LiveTyped
<1>9. /\ Recent' = IF back THEN {N} ELSE Recent \cup {N}
      /\ N \in Recent' /\ N \notin Recent /\ \A n \in Recent : n < N
      /\ Len(smps') = N /\ smps'[N].at = at /\ smps'[N].keys = ks /\ Slot(N)' = s
      /\ \A n \in Recent : smps'[n] = smps[n] /\ Slot(n)' = Slot(n) /\ Slot(n) \in Nat
                           /\ smps[n].at \in Nat /\ Slot(n) % LiveSlots \in Idx
      <2>1. /\ Len(smps') = N /\ smps'[N] = [at |-> at, keys |-> ks]
            /\ \A n \in 1..Len(smps) : smps'[n] = smps[n]
            BY <1>1, <1>0 DEF LiveInv, LiveTyped
      <2>2. \A n \in Recent : n \in 1..Len(smps) /\ n < N
            BY <1>0 DEF Recent, LiveInv, LiveTyped
      <2>3. N \in Recent' /\ N \notin Recent /\ Recent' = IF back THEN {N} ELSE Recent \cup {N}
            <3>1. since \in 0..Len(smps) /\ Len(smps) \in Nat BY DEF LiveInv, LiveTyped
            <3>2. Recent' = (since' + 1)..N BY <2>1 DEF Recent
            <3>3. N \notin Recent BY <1>0, <3>1 DEF Recent
            <3>4. CASE back BY <1>1, <1>0, <3>1, <3>2, <3>3, <3>4
            <3>5. CASE ~back
                  <4>1. since' = since BY <1>1, <3>5
                  <4>2. (since + 1)..N = ((since + 1)..Len(smps)) \cup {N} BY <1>0, <3>1
                  <4>. QED BY <3>2, <3>3, <3>5, <4>1, <4>2 DEF Recent
            <3>. QED BY <3>4, <3>5
      <2>4. \A n \in Recent : smps[n] \in Samples
            BY <2>2 DEF LiveInv, LiveTyped
      <2>5. Slot(N)' = s BY <2>1 DEF Slot, s
      <2>6. \A n \in Recent : Slot(n)' = Slot(n) BY <2>1, <2>2 DEF Slot
      <2>7. \A n \in Recent : Slot(n) \in Nat BY <2>4, DivNat DEF Slot, Samples
      <2>8. \A n \in Recent : Slot(n) % LiveSlots \in Idx BY <2>7 DEF Idx
      <2>. QED BY <2>1, <2>2, <2>3, <2>4, <2>5, <2>6, <2>7, <2>8 DEF Samples
<1>10. ~back => \A n \in Recent : smps[n].at <= at /\ Slot(n) <= s
      <2>. SUFFICES ASSUME ~back, NEW n \in Recent PROVE smps[n].at <= at /\ Slot(n) <= s
           OBVIOUS
      <2>1. last # -1 /\ last <= at /\ last = smps[Len(smps)].at /\ Len(smps) \in Recent
            BY <1>4 DEF LiveInv, LiveTyped, Ordered
      <2>2. n <= Len(smps) BY <1>0, <1>9 DEF LiveInv, LiveTyped, Recent
      <2>3. smps[n].at <= last BY <2>1, <2>2 DEF LiveInv, Ordered
      <2>4. smps[n].at <= at
            <3>1. last \in Int BY DEF LiveInv, LiveTyped
            <3>2. smps[n].at \in Int /\ at \in Int BY <1>4, <1>9
            <3>. QED BY <2>1, <2>3, <3>1, <3>2
      <2>5. smps[n].at \in Int /\ at \in Int BY <1>4, <1>9
      <2>6. smps[n].at \div liveStep <= at \div liveStep BY <2>4, <2>5, DivMono
      <2>. QED BY <2>4, <2>6 DEF Slot, s
<1>11. Ordered'
      <2>1. \A m, n \in Recent' : m <= n => smps'[m].at <= smps'[n].at
            <3>. SUFFICES ASSUME NEW m \in Recent', NEW n \in Recent', m <= n
                          PROVE  smps'[m].at <= smps'[n].at
                 OBVIOUS
            <3>1. CASE n = N BY <1>4, <1>9, <1>10, <3>1
            <3>2. CASE n # N
                  <4>1. n \in Recent /\ ~back BY <1>9, <3>2
                  <4>2. m # N BY <1>9, <1>4, <4>1 DEF Recent
                  <4>3. m \in Recent BY <1>9, <4>2
                  <4>. QED BY <1>9, <4>1, <4>3 DEF LiveInv, Ordered
            <3>. QED BY <3>1, <3>2
      <2>2. last' # -1 /\ Len(smps') \in Recent' /\ last' = smps'[Len(smps')].at
            BY <1>1, <1>4, <1>9
      <2>. QED BY <2>1, <2>2 DEF Ordered
<1>12. liveStamp' = [i \in Idx |-> IF i = x THEN s ELSE IF back THEN 0 ELSE liveStamp[i]]
      BY <1>1, <1>4 DEF LiveInv, LiveTyped
<1>13. Stamped'
      <2>1. ASSUME NEW i \in Idx
            PROVE  liveStamp'[i] = 0 \/ (/\ last' # -1 /\ liveStamp'[i] % LiveSlots = i
                                         /\ liveStamp'[i] <= last' \div liveStep)
            <3>1. CASE i = x BY <1>1, <1>4, <1>12, <3>1 DEF s, x
            <3>2. CASE i # x /\ back BY <1>12, <3>2
            <3>3. CASE i # x /\ ~back
                  <4>1. liveStamp'[i] = liveStamp[i] BY <1>12, <3>3
                  <4>2. CASE liveStamp[i] = 0 BY <4>1, <4>2
                  <4>3. CASE liveStamp[i] # 0
                        <5>1. /\ last # -1 /\ liveStamp[i] % LiveSlots = i
                              /\ liveStamp[i] <= last \div liveStep
                              BY <4>3 DEF LiveInv, Stamped
                        <5>2. last \in Nat /\ last <= at BY <1>4, <3>3, <5>1 DEF LiveInv, LiveTyped
                        <5>3. last \div liveStep <= s BY <1>4, <5>2, DivMono DEF s
                        <5>4. last \div liveStep \in Int /\ liveStamp[i] \in Nat
                              BY <5>2, Floor DEF LiveInv, LiveTyped
                        <5>. QED BY <1>1, <1>4, <4>1, <5>1, <5>3, <5>4 DEF s
                  <4>. QED BY <4>2, <4>3
            <3>. QED BY <3>1, <3>2, <3>3
      <2>2. ASSUME NEW n \in Recent'
            PROVE  /\ liveStamp'[Slot(n)' % LiveSlots] >= Slot(n)'
                   /\ \E y \in Recent' : Slot(y)' = Slot(n)' /\ Newest(y)'
            <3>0. Newest(N)' BY <1>9, <1>4 DEF Newest, Recent
            <3>1. CASE Slot(n)' = s BY <1>4, <1>9, <1>12, <3>0, <3>1 DEF x
            <3>2. CASE Slot(n)' # s
                  <4>1. n \in Recent /\ ~back BY <1>9, <3>2
                  <4>2. PICK y \in Recent : Slot(y) = Slot(n) /\ Newest(y)
                        BY <4>1 DEF LiveInv, Stamped
                  <4>3. Newest(y)' BY <1>9, <3>2, <4>1, <4>2 DEF Newest
                  <4>4. liveStamp'[Slot(n) % LiveSlots] >= Slot(n)
                        BY <1>4, <1>9, <1>10, <1>12, <4>1 DEF LiveInv, Stamped
                  <4>. QED BY <1>9, <4>1, <4>2, <4>3, <4>4
            <3>. QED BY <3>1, <3>2
      <2>. QED BY <2>1, <2>2 DEF Stamped
<1>14. Columns'
      <2>. SUFFICES ASSUME NEW k \in DOMAIN series', NEW i \in Idx, NEW v,
                           v = series'[k][i], v # 0
                    PROVE  /\ v \in Recent' /\ Newest(v)' /\ k \in smps'[v].keys
                           /\ Slot(v)' = liveStamp'[i] /\ Slot(v)' % LiveSlots = i
           BY DEF Columns
      <2>1. CASE i = x
            <3>1. v = N /\ k \in ks BY <1>7, <2>1
            <3>2. Newest(N)' BY <1>9, <1>4 DEF Newest, Recent
            <3>. QED BY <1>9, <1>12, <2>1, <3>1, <3>2 DEF x
      <2>2. CASE i # x
            <3>1. k \in DOMAIN old /\ v = old[k][i] BY <1>7, <2>2
            <3>2. ~back BY <3>1 DEF old
            <3>3. /\ v \in Recent /\ Newest(v) /\ k \in smps[v].keys
                  /\ Slot(v) = liveStamp[i] /\ Slot(v) % LiveSlots = i
                  BY <1>5, <3>1, <3>2 DEF LiveInv, Columns
            <3>4. Slot(v) # s BY <2>2, <3>3 DEF x
            <3>5. Newest(v)' BY <1>9, <3>2, <3>3, <3>4 DEF Newest
            <3>. QED BY <1>9, <1>12, <2>2, <3>2, <3>3, <3>5
      <2>. QED BY <2>1, <2>2
<1>15. Kept'
      <2>. SUFFICES ASSUME NEW n \in Recent', Newest(n)',
                           liveStamp'[Slot(n)' % LiveSlots] = Slot(n)',
                           NEW k \in smps'[n].keys
                    PROVE  IF k \in DOMAIN series'
                           THEN series'[k][Slot(n)' % LiveSlots] = n
                           ELSE Cardinality(DOMAIN series') = LiveSeries
           BY DEF Kept
      <2>1. CASE n = N
            <3>1. k \in ks /\ Slot(n)' % LiveSlots = x BY <1>9, <2>1 DEF x
            <3>2. CASE k \in DOMAIN series' BY <1>4, <1>7, <2>1, <3>1, <3>2
            <3>3. CASE k \notin DOMAIN series'
                  <4>1. new # ks \ DOMAIN old BY <1>6, <3>1, <3>3
                  <4>2. ~(Cardinality(new) < LiveSeries - Cardinality(DOMAIN old)) BY <1>2, <4>1
                  <4>. QED BY <1>2, <1>6, <3>3, <4>2
            <3>. QED BY <3>2, <3>3
      <2>2. CASE n # N
            <3>1. n \in Recent /\ ~back BY <1>9, <2>2
            <3>2. Newest(n) /\ k \in smps[n].keys /\ Slot(n)' = Slot(n)
                  BY <1>9, <3>1 DEF Newest
            <3>3. Slot(n) # s BY <1>4, <1>9, <3>1, <3>2 DEF Newest, Recent, LiveInv, LiveTyped
            <3>4. Slot(n) % LiveSlots # x BY <1>9, <1>12, <1>4, <3>1, <3>2, <3>3
            <3>5. liveStamp[Slot(n) % LiveSlots] = Slot(n) BY <1>9, <1>12, <3>1, <3>2, <3>4
            <3>6. IF k \in DOMAIN series THEN series[k][Slot(n) % LiveSlots] = n
                                         ELSE Cardinality(DOMAIN series) = LiveSeries
                  BY <3>1, <3>2, <3>5 DEF LiveInv, Kept
            <3>7. CASE k \in DOMAIN series
                  BY <1>5, <1>6, <1>7, <1>9, <3>1, <3>2, <3>4, <3>6, <3>7
            <3>8. CASE k \notin DOMAIN series
                  <4>1. old = series BY <1>5, <3>1
                  <4>2. Cardinality(new) = 0 BY <1>2, <1>6, <3>6, <3>8, <4>1
                  <4>3. new = {} BY <1>6, <4>2, FS_EmptySet
                  <4>. QED BY <1>6, <3>6, <3>8, <4>1, <4>3
            <3>. QED BY <3>7, <3>8
      <2>. QED BY <2>1, <2>2
<1>. QED BY <1>8, <1>11, <1>13, <1>14, <1>15 DEF LiveInv

-----------------------------------------------------------------------------
(* What a query of the live graph shows.                                   *)

\* In the window that ends at the slot of now, no other slot has the index of s.
LEMMA InWindow ==
    ASSUME LiveInv, NEW now \in Int, NEW n \in Recent, now >= last,
           Slot(n) \in Graph!Window(now)
    PROVE  liveStamp[Slot(n) % LiveSlots] = Slot(n)
<1>. DEFINE s == Slot(n)
            i == s % LiveSlots
            top == now \div liveStep
<1>. USE LiveAssumption
<1>1. n \in 1..Len(smps) /\ smps[n].at \in Nat /\ last # -1 /\ last \in Nat
      <2>1. n \in 1..Len(smps) /\ smps[n] \in Samples BY DEF LiveInv, LiveTyped, Recent
      <2>. QED BY <2>1 DEF LiveInv, LiveTyped, Samples, Ordered
<1>2. s \in Nat BY <1>1, DivNat DEF Slot
<1>3. i \in Idx BY <1>2 DEF Idx
<1>4. now \in Nat /\ top \in Nat BY <1>1, DivNat
<1>5. s \in (top - (LiveSlots - 1))..top BY <1>4 DEF Graph!Window, Graph!Trunc
<1>6. liveStamp[i] \in Nat /\ liveStamp[i] >= s
      BY <1>3 DEF LiveInv, LiveTyped, Stamped
<1>7. CASE liveStamp[i] = 0 BY <1>2, <1>6, <1>7
<1>8. CASE liveStamp[i] # 0
      <2>1. liveStamp[i] % LiveSlots = i /\ liveStamp[i] <= last \div liveStep
            BY <1>3, <1>8 DEF LiveInv, Stamped
      <2>2. last \div liveStep <= top /\ last \div liveStep \in Int
            <3>1. last \in Int /\ now \in Int /\ last <= now BY <1>1
            <3>. QED BY <3>1, DivMono, Floor
      <2>. HIDE DEF s, top
      <2>3. liveStamp[i] < s + LiveSlots BY <1>2, <1>4, <1>5, <1>6, <2>1, <2>2
      <2>. HIDE DEF i
      <2>4. s % LiveSlots = i BY DEF i
      <2>. QED BY <1>2, <1>6, <2>1, <2>3, <2>4, ModApart DEF i, s
<1>. QED BY <1>7, <1>8

\* Whatever the clock says, a live point is the last sample of its slot or a gap.
LEMMA LiveShows == LiveInv => Graph!LiveExact
<1>. SUFFICES ASSUME LiveInv, NEW now \in Graph!Nows, NEW s \in Graph!Window(now)
     PROVE  LET mine   == {n \in Recent : Slot(n) = s}
                newest == CHOOSE n \in mine : \A x \in mine : x <= n
                Has(k) == mine # {} /\ k \in smps[newest].keys
            IN  /\ \A k \in DOMAIN series :
                     Graph!snapshot(k, s) # 0 => Has(k) /\ Graph!snapshot(k, s) = newest
                /\ \A k \in LiveKeys : now >= last /\ Has(k) =>
                     IF k \in DOMAIN series THEN Graph!snapshot(k, s) # 0
                                            ELSE Cardinality(DOMAIN series) = LiveSeries
     BY SameCardinality DEF Graph!LiveExact, Graph!NaN, Recent, Slot
<1>. DEFINE mine   == {n \in Recent : Slot(n) = s}
            newest == CHOOSE n \in mine : \A x \in mine : x <= n
            Has(k) == mine # {} /\ k \in smps[newest].keys
<1>. USE LiveAssumption
<1>1. now \in Int /\ s \in Int
      <2>1. now \in Int BY DEF Graph!Nows
      <2>2. Graph!Trunc(now, liveStep) \in Int
            <3>1. now >= 0 => now \div liveStep \in Int BY <2>1, Floor
            <3>2. now < 0 => (-now) \div liveStep \in Int BY <2>1, Floor
            <3>. QED BY <2>1, <3>1, <3>2 DEF Graph!Trunc
      <2>. QED BY <2>1, <2>2 DEF Graph!Window
<1>2. s % LiveSlots \in Idx BY <1>1 DEF Idx
<1>3. ASSUME NEW v \in mine, Newest(v) PROVE newest = v
      <2>1. \A x \in mine : x <= v BY <1>3 DEF Newest
      <2>2. \A x \in mine : x \in Int BY DEF Recent, LiveInv, LiveTyped
      <2>3. newest \in mine /\ \A x \in mine : x <= newest BY <2>1
      <2>. HIDE DEF newest, mine
      <2>. QED BY <1>3, <2>1, <2>2, <2>3
<1>4. ASSUME NEW k \in DOMAIN series, Graph!snapshot(k, s) # 0
      PROVE  Has(k) /\ Graph!snapshot(k, s) = newest
      <2>1. /\ liveStamp[s % LiveSlots] = s /\ series[k][s % LiveSlots] # 0
            /\ Graph!snapshot(k, s) = series[k][s % LiveSlots]
            BY <1>4 DEF Graph!snapshot, Graph!NaN
      <2>2. PICK v \in Recent : /\ v = series[k][s % LiveSlots] /\ Newest(v)
                                /\ k \in smps[v].keys /\ Slot(v) = s
            BY <1>2, <2>1 DEF LiveInv, Columns
      <2>3. v \in mine BY <2>2
      <2>4. newest = v BY <1>3, <2>2, <2>3
      <2>. QED BY <2>1, <2>2, <2>3, <2>4
<1>5. ASSUME NEW k \in LiveKeys, now >= last, Has(k)
      PROVE  IF k \in DOMAIN series THEN Graph!snapshot(k, s) # 0
                                    ELSE Cardinality(DOMAIN series) = LiveSeries
      <2>1. PICK n \in Recent : Slot(n) = s BY <1>5
      <2>2. PICK v \in Recent : Slot(v) = s /\ Newest(v)
            BY <2>1 DEF LiveInv, Stamped
      <2>3. newest = v BY <1>3, <2>2
      <2>4. liveStamp[s % LiveSlots] = s BY <1>1, <1>5, <2>2, InWindow
      <2>5. k \in smps[v].keys BY <1>5, <2>3
      <2>6. IF k \in DOMAIN series THEN series[k][s % LiveSlots] = v
                                   ELSE Cardinality(DOMAIN series) = LiveSeries
            BY <2>2, <2>4, <2>5 DEF LiveInv, Kept
      <2>7. v # 0 BY DEF Recent, LiveInv, LiveTyped
      <2>. QED BY <2>4, <2>6, <2>7 DEF Graph!snapshot
<1>. QED BY <1>4, <1>5

-----------------------------------------------------------------------------
(* What a query of a stored range answers.                                 *)

\* A product keeps the order.
LEMMA Times ==
    ASSUME NEW d \in Nat \ {0}, NEW a \in Int, NEW b \in Int
    PROVE  d * a \in Int /\ (a <= b <=> d * a <= d * b) /\ (a < b <=> d * a < d * b)
BY SMT

\* floorTo rounds down to a multiple, negatives included.
LEMMA FloorsTo ==
    ASSUME NEW x \in Int, NEW m \in Nat \ {0}
    PROVE  \E c \in Int : /\ Graph!floorTo(x, m) = m * c
                          /\ m * c <= x /\ x < m * c + m
<1>. DEFINE r == x % m
            c == x \div m
<1>1. /\ c \in Int /\ m * c \in Int /\ m * c <= x /\ x < m * c + m
      /\ r \in 0..(m - 1) /\ r = x - m * c
      BY Floor, Remainder
<1>. HIDE DEF r, c
<1>2. (r + m) % m = r
      <2>1. PICK q \in Int : q = 1 OBVIOUS
      <2>2. PICK y \in Int : y = r + m BY <1>1
      <2>3. m * q = m /\ m * q <= y /\ y < m * q + m BY <1>1, <2>1, <2>2
      <2>4. y % m = y - m * q BY <2>3, Quotient
      <2>. QED BY <1>1, <2>2, <2>3, <2>4
<1>3. Graph!floorTo(x, m) = x - r BY <1>2 DEF Graph!floorTo, r
<1>4. Graph!floorTo(x, m) = m * c BY <1>1, <1>3
<1>. QED BY <1>1, <1>4

\* Go's division of a multiple is exact, of either sign.
LEMMA TruncExact ==
    ASSUME NEW d \in Nat \ {0}, NEW c \in Int
    PROVE  Graph!Trunc(d * c, d) = c
<1>1. d * c \in Int /\ -(d * c) = d * (-c) /\ d * (-c) \in Int OBVIOUS
<1>2. (d * c) \div d = c BY <1>1, Quotient
<1>3. (-(d * c)) \div d = -c
      <2>1. (d * (-c)) \div d = -c BY <1>1, Quotient
      <2>. QED BY <1>1, <2>1
<1>. QED BY <1>1, <1>2, <1>3 DEF Graph!Trunc

\* A multiple leaves nothing.
LEMMA NoRemainder ==
    ASSUME NEW d \in Nat \ {0}, NEW c \in Int
    PROVE  (d * c) % d = 0
<1>1. d * c \in Int OBVIOUS
<1>. QED BY <1>1, Quotient

\* The points of a range, of q minutes each: their first minutes are q * c, of
\* consecutive c, up to the one the last finished minute, a - 1, is in.
LEMMA Grid ==
    ASSUME mins \subseteq Int, NEW now \in Int, NEW r \in [step : Steps, n : Points]
    PROVE  \E q \in Nat \ {0}, a \in Int, b \in Int :
              /\ r.step = MinuteLen * q /\ r.n \in Nat \ {0}
              /\ MinuteLen * a <= now /\ now < MinuteLen * a + MinuteLen
              /\ q * b <= a - 1 /\ a - 1 < q * b + q
              /\ Graph!Stored(now, r) =
                   [i \in 0..(r.n - 1) |->
                      [t    |-> r.step * (b - (r.n - 1) + i),
                       mins |-> {m \in mins : m \in (q * (b - (r.n - 1) + i))
                                                    ..(q * (b - (r.n - 1) + i) + q - 1)}]]
<1>. USE LiveAssumption
<1>. DEFINE M == MinuteLen
            st == r.step
            n  == r.n
            q  == st \div M
<1>1. M \in Nat \ {0} /\ st \in Nat \ {0} /\ n \in Nat \ {0} /\ st % M = 0 OBVIOUS
<1>. HIDE DEF M, st, n
<1>2. q \in Nat \ {0} /\ st = M * q
      <2>1. q \in Int /\ M * q \in Int /\ st % M = st - M * q BY <1>1, Floor, Remainder
      <2>2. st = M * q BY <1>1, <2>1
      <2>. HIDE DEF q
      <2>3. M * 0 < M * q BY <1>1, <2>2
      <2>4. 0 < q BY <1>1, <2>1, <2>3, Times
      <2>. QED BY <2>1, <2>2, <2>4
<1>3. PICK a \in Int : Graph!floorTo(now, M) = M * a /\ M * a <= now /\ now < M * a + M
      BY <1>1, FloorsTo
<1>. DEFINE lm == M * a - M
<1>4. lm = M * (a - 1) /\ lm \in Int BY <1>1
<1>5. PICK b \in Int : Graph!floorTo(lm, st) = st * b /\ st * b <= lm /\ lm < st * b + st
      BY <1>1, <1>4, FloorsTo
<1>. DEFINE c0 == b - (n - 1)
<1>6. c0 \in Int BY <1>1
<1>. HIDE DEF q, lm
<1>7. q * b <= a - 1 /\ a - 1 < q * b + q
      <2>1. /\ st * b = M * (q * b) /\ st * b + st = M * (q * b + q)
            /\ q * b \in Int /\ q * b + q \in Int
            BY <1>1, <1>2
      <2>2. M * (q * b) <= M * (a - 1) /\ M * (a - 1) < M * (q * b + q) BY <1>4, <1>5, <2>1
      <2>. QED BY <1>1, <2>1, <2>2, Times
<1>8. st * b - (n - 1) * st = st * c0 /\ st * c0 = M * (q * c0) /\ q * c0 \in Int
      BY <1>1, <1>2, <1>6
<1>. HIDE DEF c0
<1>9. Graph!Trunc(st * c0, M) = q * c0 BY <1>1, <1>8, TruncExact
<1>10. Graph!Stored(now, r) =
          [i \in 0..(n - 1) |->
             [t    |-> st * c0 + i * st,
              mins |-> {m \in mins : m \in (q * c0 + i * q)..(q * c0 + (i + 1) * q - 1)}]]
      BY <1>3, <1>5, <1>8, <1>9 DEF Graph!Stored, lm, M, st, n, q
<1>11. ASSUME NEW i \in 0..(n - 1)
       PROVE  /\ st * c0 + i * st = st * (c0 + i)
              /\ q * c0 + i * q = q * (c0 + i)
              /\ q * c0 + (i + 1) * q - 1 = q * (c0 + i) + q - 1
       BY <1>1, <1>2, <1>6, <1>11
<1>12. Graph!Stored(now, r) =
          [i \in 0..(n - 1) |->
             [t    |-> st * (c0 + i),
              mins |-> {m \in mins : m \in (q * (c0 + i))..(q * (c0 + i) + q - 1)}]]
      BY <1>10, <1>11
<1>13. q \in Nat \ {0} BY <1>2
<1>. USE <1>13
<1>. WITNESS q \in Nat \ {0}, a \in Int, b \in Int
<1>. QED BY <1>1, <1>2, <1>3, <1>7, <1>12 DEF c0, M, st, n

\* Every point holds the minutes of its time and the last finished one is in it.
LEMMA StoredShows == mins \subseteq Int => Graph!StoredExact
<1>. SUFFICES ASSUME mins \subseteq Int, NEW now \in Graph!Nows,
                     NEW r \in [step : Steps, n : Points]
     PROVE  LET pts == Graph!Stored(now, r)
                end == pts[r.n - 1].t + r.step
            IN  /\ \A i \in 0..(r.n - 1) : pts[i].t % r.step = 0
                /\ \A i \in 0..(r.n - 1) : \A m \in pts[i].mins :
                     m * MinuteLen \in pts[i].t..(pts[i].t + r.step - 1)
                /\ pts[r.n - 1].t + MinuteLen <= now /\ end > now - MinuteLen
                /\ \A m \in mins :
                     (m + 1) * MinuteLen <= now /\ m * MinuteLen >= pts[0].t =>
                         \E i \in 0..(r.n - 1) : m \in pts[i].mins
     BY DEF Graph!StoredExact
<1>. USE LiveAssumption
<1>1. now \in Int BY DEF Graph!Nows
<1>2. PICK q \in Nat \ {0}, a \in Int, b \in Int :
              /\ r.step = MinuteLen * q /\ r.n \in Nat \ {0}
              /\ MinuteLen * a <= now /\ now < MinuteLen * a + MinuteLen
              /\ q * b <= a - 1 /\ a - 1 < q * b + q
              /\ Graph!Stored(now, r) =
                   [i \in 0..(r.n - 1) |->
                      [t    |-> r.step * (b - (r.n - 1) + i),
                       mins |-> {m \in mins : m \in (q * (b - (r.n - 1) + i))
                                                    ..(q * (b - (r.n - 1) + i) + q - 1)}]]
      BY <1>1, Grid
<1>. DEFINE M   == MinuteLen
            st  == r.step
            n   == r.n
            pts == Graph!Stored(now, r)
            c0  == b - (n - 1)
            C(i) == c0 + i
<1>3. M \in Nat \ {0} /\ st \in Nat \ {0} /\ n \in Nat \ {0} /\ st = M * q /\ c0 \in Int
      BY <1>2
<1>. HIDE DEF M
<1>4. ASSUME NEW i \in 0..(n - 1)
      PROVE  /\ C(i) \in Int /\ pts[i].t = st * C(i)
             /\ pts[i].mins = {m \in mins : m \in (q * C(i))..(q * C(i) + q - 1)}
      <2>1. pts[i] = [t    |-> st * C(i),
                      mins |-> {m \in mins : m \in (q * C(i))..(q * C(i) + q - 1)}]
            BY <1>2, <1>4
      <2>. QED BY <1>3, <1>4, <2>1
<1>. HIDE DEF st, n, pts, c0
<1>5. ASSUME NEW c \in Int
      PROVE  st * c = M * (q * c) /\ q * c \in Int /\ st * c \in Int
      BY <1>3
<1>6. ASSUME NEW i \in 0..(n - 1) PROVE pts[i].t % st = 0
      BY <1>3, <1>4, <1>6, NoRemainder
<1>7. ASSUME NEW i \in 0..(n - 1), NEW m \in pts[i].mins
      PROVE  m * M \in pts[i].t..(pts[i].t + st - 1)
      <2>. DEFINE z == q * C(i)
      <2>0. C(i) \in Int /\ pts[i].t = st * C(i) /\ m \in mins /\ m \in z..(z + q - 1)
            BY <1>4, <1>7
      <2>1a. z \in Int /\ pts[i].t = M * z BY <1>5, <2>0
      <2>. HIDE DEF z
      <2>1. /\ z \in Int /\ m \in Int /\ z <= m /\ m <= z + (q - 1) /\ pts[i].t = M * z
            BY <2>0, <2>1a
      <2>2. M * z <= M * m /\ M * m <= M * (z + (q - 1)) BY <1>3, <2>1, Times
      <2>3. M * (z + (q - 1)) = M * z + M * q - M BY <1>3, <2>1
      <2>4. m * M = M * m /\ M * m \in Int /\ M * z \in Int BY <1>3, <2>1
      <2>. QED BY <1>3, <2>1, <2>2, <2>3, <2>4
<1>8. (n - 1) \in 0..(n - 1) /\ 0 \in 0..(n - 1) /\ C(n - 1) = b /\ C(0) = c0
      BY <1>2, <1>3 DEF c0
<1>9. pts[n - 1].t + M <= now /\ pts[n - 1].t + st > now - M
      <2>1. pts[n - 1].t = M * (q * b) /\ q * b \in Int BY <1>2, <1>4, <1>5, <1>8
      <2>1a. PICK z \in Int : z = q * b BY <2>1
      <2>1b. z <= a - 1 /\ a - 1 < z + q BY <1>2, <2>1a
      <2>2. a <= z + q BY <2>1b
      <2>3. M * z <= M * (a - 1) /\ M * a <= M * (z + q) BY <1>3, <2>1b, <2>2, Times
      <2>4. M * (a - 1) = M * a - M /\ M * (z + q) = M * z + st BY <1>3, <2>2
      <2>5. M * a <= now /\ now < M * a + M BY <1>2 DEF M
      <2>6. M * z \in Int /\ M * a \in Int BY <1>3, <2>2
      <2>. QED BY <1>1, <1>3, <2>1, <2>3, <2>4, <2>5, <2>6, <2>1a
<1>10. ASSUME NEW m \in mins, (m + 1) * M <= now, m * M >= pts[0].t
       PROVE  \E i \in 0..(n - 1) : m \in pts[i].mins
      <2>1. m \in Int /\ pts[0].t = M * (q * c0) /\ q * c0 \in Int
            BY <1>3, <1>4, <1>5, <1>8
      <2>2. q * c0 <= m
            <3>1. M * (q * c0) <= M * m BY <1>3, <1>10, <2>1
            <3>. QED BY <1>3, <2>1, <3>1, Times
      <2>3. m < q * b + q
            <3>0. (m + 1) * M = M * (m + 1) /\ M * (m + 1) \in Int BY <1>3, <2>1
            <3>1. M * (m + 1) <= now /\ now < M * a + M BY <1>2, <1>10, <3>0 DEF M
            <3>2. M * (a + 1) = M * a + M /\ M * a \in Int BY <1>3
            <3>2a. PICK u \in Int, w \in Int : u = M * (m + 1) /\ w = M * a BY <3>0, <3>2
            <3>2b. u < w + M BY <1>1, <1>3, <3>1, <3>2a
            <3>3. M * (m + 1) < M * (a + 1) BY <3>2, <3>2a, <3>2b
            <3>4. m + 1 < a + 1 BY <1>3, <2>1, <3>3, Times
            <3>5. PICK z \in Int : z = q * b BY <1>2
            <3>6. m <= a - 1 /\ a - 1 < z + q BY <1>2, <2>1, <3>4, <3>5
            <3>. QED BY <2>1, <3>5, <3>6
      <2>. DEFINE d == m \div q
      <2>4. d \in Int /\ q * d \in Int /\ q * d <= m /\ m < q * d + q BY <2>1, Floor
      <2>. HIDE DEF d
      <2>5. c0 <= d
            <3>1. q * c0 < q * (d + 1) BY <2>1, <2>2, <2>4
            <3>2. c0 < d + 1 BY <1>3, <2>4, <3>1, Times
            <3>. QED BY <1>3, <2>4, <3>2
      <2>6. d <= b
            <3>2a. PICK u \in Int, w \in Int : u = q * d /\ w = q * b BY <1>2, <2>4
            <3>2b. u < w + q BY <2>1, <2>3, <2>4, <3>2a
            <3>2c. q * (b + 1) = w + q BY <1>2, <3>2a
            <3>1. q * d < q * (b + 1) BY <3>2a, <3>2b, <3>2c
            <3>2. d < b + 1 BY <1>2, <2>4, <3>1, Times
            <3>. QED BY <1>2, <2>4, <3>2
      <2>7. d - c0 \in 0..(n - 1) /\ C(d - c0) = d BY <1>2, <1>3, <2>4, <2>5, <2>6 DEF c0
      <2>8. m \in pts[d - c0].mins BY <1>4, <2>1, <2>4, <2>7
      <2>. QED BY <2>7, <2>8
<1>. QED BY <1>6, <1>7, <1>9, <1>10 DEF M, st, n, pts

-----------------------------------------------------------------------------
\* LiveInv holds while the live ring runs.
LEMMA GraphInvariant == MCSpec => [](part = "live" => LiveInv)
<1>1. MCInit => (part = "live" => LiveInv) BY LiveInit DEF MCInit
<1>2. (part = "live" => LiveInv) /\ [MCNext]_allVars => (part = "live" => LiveInv)'
      <2>. SUFFICES ASSUME part = "live" => LiveInv, [MCNext]_allVars, part' = "live"
                    PROVE  LiveInv'
           OBVIOUS
      <2>1. CASE part = "live" /\ Graph!Next
            <3>1. PICK at \in 0..LastTime, ks \in SUBSET LiveKeys : Graph!Record(at, ks)
                  BY <2>1 DEF Graph!Next
            <3>. QED BY <2>1, <3>1, RecordKeeps
      <2>2. CASE UNCHANGED <<part, liveVars>>
            <3>1. /\ smps' = smps /\ since' = since /\ last' = last /\ accMin' = accMin
                  /\ mins' = mins /\ liveStamp' = liveStamp /\ series' = series /\ LiveInv
                  BY <2>2 DEF liveVars
            <3>2. LiveTyped' BY <3>1 DEF LiveInv, LiveTyped
            <3>3. Ordered' /\ Stamped' BY <3>1 DEF LiveInv, Ordered, Stamped, Recent, Slot, Newest
            <3>4. Columns' BY <3>1 DEF LiveInv, Columns, Recent, Slot, Newest
            <3>5. Kept' BY <3>1 DEF LiveInv, Kept, Recent, Slot, Newest
            <3>. QED BY <3>2, <3>3, <3>4, <3>5 DEF LiveInv
      <2>3. part = "live" BY DEF MCNext, allVars
      <2>. QED BY <2>1, <2>2, <2>3 DEF MCNext, allVars
<1>. QED BY <1>1, <1>2, PTL DEF MCSpec

\* A point of the live graph is the last sample of its five seconds, whole, or a
\* gap for a reason.
THEOREM LivePointsExact == MCSpec => []LiveExact
<1>1. (part = "live" => LiveInv) => LiveExact BY LiveShows DEF LiveExact
<1>. QED BY <1>1, GraphInvariant, PTL

\* A point of a stored range holds the minutes of its own time, before 1970 too.
THEOREM StoredPointsExact == MCSpec => []StoredExact
<1>1. LiveInv => mins \subseteq Int BY DEF LiveInv, LiveTyped
<1>2. (part = "live" => LiveInv) => StoredExact BY <1>1, StoredShows DEF StoredExact
<1>. QED BY <1>2, GraphInvariant, PTL

=============================================================================
