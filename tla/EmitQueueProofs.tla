--------------------------- MODULE EmitQueueProofs ---------------------------
(***************************************************************************)
(* Proofs about EmitQueue, for any goroutines, events and bounds: emit is  *)
(* given the events of the state changes in their order, by one goroutine  *)
(* at a time, and nothing stays queued without a drainer but after a panic.*)
(***************************************************************************)
EXTENDS EmitQueue, SequenceTheorems, TLAPS

\* A batch is what the drainer has yet to finish: others have none.
BatchInv == \A p \in Procs : pc[p] \in {"emit", "inEmit"} <=> batch[p] # <<>>

IInv == QueueTypeOK /\ OneDrainer /\ BatchInv /\ EmitOrder /\ NoneStranded

-----------------------------------------------------------------------------
(* Sequences.                                                              *)

\* Handing the head of a batch over moves it from the batch to the output.
LEMMA HandOver ==
  ASSUME NEW S, NEW s \in Seq(S), NEW b \in Seq(S), b # <<>>
  PROVE  /\ Head(b) \in S /\ Tail(b) \in Seq(S)
         /\ Append(s, Head(b)) \in Seq(S)
         /\ Append(s, Head(b)) \o Tail(b) = s \o b
<1>1. Head(b) \in S /\ Tail(b) \in Seq(S)
  BY HeadTailProperties
<1>2. Append(s, Head(b)) \in Seq(S) /\ Append(s, Head(b)) = s \o <<Head(b)>>
  BY <1>1, AppendProperties, AppendIsConcat
<1>3. <<Head(b)>> \in Seq(S) /\ b = <<Head(b)>> \o Tail(b)
  <2>1. <<Head(b)>> \in Seq(S) /\ Len(<<Head(b)>>) = 1
    BY <1>1
  <2>2. /\ <<Head(b)>> \o Tail(b) \in Seq(S)
        /\ Len(<<Head(b)>> \o Tail(b)) = 1 + Len(Tail(b))
        /\ \A i \in 1 .. 1 + Len(Tail(b)) :
              (<<Head(b)>> \o Tail(b))[i] =
                 IF i <= 1 THEN <<Head(b)>>[i] ELSE Tail(b)[i - 1]
    BY <1>1, <2>1, ConcatProperties
  <2>3. Len(b) \in Nat \ {0} /\ Len(Tail(b)) = Len(b) - 1
        /\ \A i \in 1 .. Len(Tail(b)) : Tail(b)[i] = b[i + 1]
    BY HeadTailProperties, EmptySeq
  <2>4. Head(b) = b[1]
    OBVIOUS
  <2>5. \A i \in 1 .. Len(b) : b[i] = (<<Head(b)>> \o Tail(b))[i]
    BY <2>2, <2>3, <2>4
  <2> QED
    BY <2>1, <2>2, <2>3, <2>5, SeqEqual
<1> QED
  BY <1>1, <1>2, <1>3, ConcatAssociative

LEMMA ConcatSeq ==
  ASSUME NEW S, NEW s \in Seq(S), NEW t \in Seq(S)
  PROVE  s \o t \in Seq(S)
BY ConcatProperties

-----------------------------------------------------------------------------
(* The invariant is inductive.                                             *)

LEMMA QueueInit == Init => IInv
<1> SUFFICES ASSUME Init PROVE IInv
  OBVIOUS
<1>1. <<>> \in Seq(Event)
  BY EmptySeq
<1>2. QueueTypeOK
  BY <1>1 DEF Init, QueueTypeOK
<1>3. OneDrainer /\ BatchInv /\ NoneStranded
  BY DEF Init, OneDrainer, BatchInv, NoneStranded, Drains
<1>4. <<>> \o <<>> = <<>>
  BY <1>1, ConcatEmptySeq
<1>5. EmitOrder
  BY <1>4 DEF Init, EmitOrder, Drains
<1> QED
  BY <1>2, <1>3, <1>5 DEF IInv

\* A state change by a call: its events join the queue behind the others.
LEMMA DoStep ==
  ASSUME IInv, NEW p \in Procs, NEW evs \in Seq(Event), Do(p, evs)
  PROVE  IInv'
<1>t. /\ pending \in Seq(Event) /\ out \in Seq(Event) /\ made \in Seq(Event)
      /\ batch \in [Procs -> Seq(Event)]
      /\ pc \in [Procs -> {"idle", "take", "emit", "inEmit"}]
      /\ draining \in BOOLEAN
  BY DEF IInv, QueueTypeOK
<1>e. <<>> \in Seq(Event)
  BY EmptySeq
<1>a. \A r, s, t \in Seq(Event) : (r \o s) \o t = r \o (s \o t)
  BY ConcatAssociative
<1>1. /\ made' = made \o evs /\ pending' = pending \o evs
      /\ made' \in Seq(Event) /\ pending' \in Seq(Event)
      /\ out' = out /\ batch' = batch /\ left' = FALSE
  BY <1>t, ConcatSeq DEF Do
<1>2. CASE draining \/ pending' = <<>>
  <2>1. pc' = pc /\ draining' = draining
    BY <1>2 DEF Do
  <2>2. QueueTypeOK' /\ OneDrainer' /\ BatchInv' /\ NoneStranded'
    BY <1>t, <1>1, <1>2, <2>1
       DEF IInv, QueueTypeOK, OneDrainer, BatchInv, NoneStranded, Drains
  <2>3. \A q \in Procs : Rest(q)' = Rest(q) /\ (Drains(q)' <=> Drains(q))
    BY <1>1, <2>1 DEF Rest, Drains
  <2>4. ASSUME NEW q \in Procs, Drains(q)'
        PROVE  made' = (out' \o Rest(q)') \o pending'
    <3>1. made = (out \o Rest(q)) \o pending
      BY <2>3, <2>4 DEF IInv, EmitOrder
    <3>2. Rest(q) \in Seq(Event)
      <4>1. CASE pc[q] = "inEmit"
        <5>1. batch[q] \in Seq(Event) /\ batch[q] # <<>>
          BY <1>t, <4>1 DEF IInv, BatchInv
        <5> QED
          BY <4>1, <5>1, HandOver, <1>t DEF Rest
      <4>2. CASE pc[q] # "inEmit"
        BY <1>t, <4>2 DEF Rest
      <4> QED
        BY <4>1, <4>2
    <3>3. out \o Rest(q) \in Seq(Event)
      BY <1>t, <3>2, ConcatSeq
    <3>4. ((out \o Rest(q)) \o pending) \o evs = (out \o Rest(q)) \o (pending \o evs)
      BY <1>t, <1>a, <3>3
    <3> QED
      BY <1>1, <2>3, <3>1, <3>4
  <2>5. ASSUME \A q \in Procs : ~Drains(q)'
        PROVE  made' = out' \o pending'
    <3>1. made = out \o pending
      BY <2>3, <2>5 DEF IInv, EmitOrder
    <3>2. (out \o pending) \o evs = out \o (pending \o evs)
      BY <1>t, ConcatAssociative
    <3> QED
      BY <1>1, <3>1, <3>2
  <2>6. EmitOrder'
    BY <2>4, <2>5 DEF EmitOrder
  <2> QED
    BY <2>2, <2>6 DEF IInv
<1>3. CASE ~(draining \/ pending' = <<>>)
  <2>1. pc' = [pc EXCEPT ![p] = "take"] /\ draining' = TRUE
    BY <1>3 DEF Do
  <2>2. \A q \in Procs : pc[q] = "idle" /\ batch[q] = <<>>
    BY <1>3, <1>t DEF IInv, OneDrainer, Drains, BatchInv
  <2>3. \A q \in Procs : Drains(q)' <=> q = p
    BY <1>t, <2>1, <2>2 DEF Drains
  <2>4. QueueTypeOK' /\ NoneStranded'
    BY <1>t, <1>1, <2>1 DEF IInv, QueueTypeOK, NoneStranded
  <2>5. OneDrainer' /\ BatchInv'
    BY <1>1, <1>t, <2>1, <2>2, <2>3 DEF OneDrainer, BatchInv
  <2>6. Rest(p)' = <<>>
    BY <1>1, <1>t, <2>1, <2>2 DEF Rest
  <2>7. made = out \o pending
    BY <2>2 DEF IInv, EmitOrder, Drains
  <2>8. (out \o pending) \o evs = out \o (pending \o evs) /\ out \o <<>> = out
    BY <1>t, ConcatAssociative, ConcatEmptySeq
  <2>9. made' = (out' \o Rest(p)') \o pending'
    BY <1>1, <2>6, <2>7, <2>8
  <2>10. EmitOrder'
    BY <2>3, <2>9 DEF EmitOrder
  <2> QED
    BY <2>4, <2>5, <2>10 DEF IInv
<1> QED
  BY <1>2, <1>3

\* drain under the lock: nothing left, or the whole queue becomes the batch.
LEMMA TakeStep ==
  ASSUME IInv, NEW p \in Procs, Take(p)
  PROVE  IInv'
<1>t. /\ pending \in Seq(Event) /\ out \in Seq(Event)
      /\ batch \in [Procs -> Seq(Event)]
      /\ pc \in [Procs -> {"idle", "take", "emit", "inEmit"}]
  BY DEF IInv, QueueTypeOK
<1>e. <<>> \in Seq(Event)
  BY EmptySeq
<1>1. /\ pc[p] = "take" /\ batch[p] = <<>> /\ draining = TRUE
      /\ \A q \in Procs : Drains(q) <=> q = p
  BY <1>t DEF Take, IInv, OneDrainer, BatchInv, Drains, QueueTypeOK
<1>2. made' = made /\ out' = out /\ left' = left
  BY DEF Take
<1>3. made = out \o pending
  <2>1. made = (out \o Rest(p)) \o pending /\ Rest(p) = <<>>
    BY <1>1 DEF IInv, EmitOrder, Rest
  <2> QED
    BY <1>t, <2>1, ConcatEmptySeq
<1>4. CASE pending = <<>>
  <2>1. /\ draining' = FALSE /\ pc' = [pc EXCEPT ![p] = "idle"]
        /\ pending' = pending /\ batch' = batch
    BY <1>4 DEF Take
  <2>2. \A q \in Procs : ~Drains(q)'
    BY <1>t, <1>1, <2>1 DEF Drains
  <2>3. QueueTypeOK' /\ NoneStranded'
    BY <1>t, <1>2, <1>4, <2>1 DEF IInv, QueueTypeOK, NoneStranded
  <2>4. OneDrainer' /\ BatchInv'
    BY <1>t, <1>1, <2>1, <2>2 DEF IInv, OneDrainer, BatchInv
  <2>5. EmitOrder'
    BY <1>2, <1>3, <2>1, <2>2 DEF EmitOrder
  <2> QED
    BY <2>3, <2>4, <2>5 DEF IInv
<1>5. CASE pending # <<>>
  <2>1. /\ draining' = draining /\ pc' = [pc EXCEPT ![p] = "emit"]
        /\ pending' = <<>> /\ batch' = [batch EXCEPT ![p] = pending]
    BY <1>5 DEF Take
  <2>2. \A q \in Procs : Drains(q)' <=> q = p
    BY <1>t, <1>1, <2>1 DEF Drains
  <2>3. QueueTypeOK' /\ NoneStranded'
    BY <1>t, <1>e, <1>2, <2>1 DEF IInv, QueueTypeOK, NoneStranded
  <2>4. OneDrainer' /\ BatchInv'
    BY <1>t, <1>1, <1>5, <2>1, <2>2 DEF IInv, OneDrainer, BatchInv
  <2>5. Rest(p)' = pending
    BY <1>t, <2>1 DEF Rest
  <2>6. out \o pending \in Seq(Event)
    BY <1>t, ConcatSeq
  <2>7. made' = (out' \o Rest(p)') \o pending'
    BY <1>2, <1>3, <2>1, <2>5, <2>6, ConcatEmptySeq
  <2>8. EmitOrder'
    BY <2>2, <2>7 DEF EmitOrder
  <2> QED
    BY <2>3, <2>4, <2>8 DEF IInv
<1> QED
  BY <1>4, <1>5

\* The head of the batch goes to emit.
LEMMA EmitCallStep ==
  ASSUME IInv, NEW p \in Procs, EmitCall(p)
  PROVE  IInv'
<1>t. /\ pending \in Seq(Event) /\ out \in Seq(Event)
      /\ batch \in [Procs -> Seq(Event)]
      /\ pc \in [Procs -> {"idle", "take", "emit", "inEmit"}]
  BY DEF IInv, QueueTypeOK
<1>1. /\ pc[p] = "emit" /\ batch[p] # <<>> /\ batch[p] \in Seq(Event)
      /\ \A q \in Procs : Drains(q) <=> q = p
  BY <1>t DEF EmitCall, IInv, OneDrainer, BatchInv, Drains
<1>2. /\ out' = Append(out, Head(batch[p])) /\ pc' = [pc EXCEPT ![p] = "inEmit"]
      /\ pending' = pending /\ draining' = draining /\ batch' = batch
      /\ made' = made /\ left' = left
  BY DEF EmitCall
<1>3. /\ out' \in Seq(Event)
      /\ out' \o Tail(batch[p]) = out \o batch[p]
  BY <1>t, <1>1, <1>2, HandOver
<1>4. \A q \in Procs : Drains(q)' <=> q = p
  BY <1>t, <1>1, <1>2 DEF Drains
<1>5. QueueTypeOK' /\ NoneStranded'
  BY <1>t, <1>2, <1>3 DEF IInv, QueueTypeOK, NoneStranded
<1>6. OneDrainer' /\ BatchInv'
  BY <1>t, <1>1, <1>2, <1>4 DEF IInv, OneDrainer, BatchInv
<1>7. made = (out \o batch[p]) \o pending
  BY <1>1 DEF IInv, EmitOrder, Rest
<1>8. Rest(p)' = Tail(batch[p])
  BY <1>t, <1>2 DEF Rest
<1>9. EmitOrder'
  BY <1>2, <1>3, <1>4, <1>7, <1>8 DEF EmitOrder
<1> QED
  BY <1>5, <1>6, <1>9 DEF IInv

\* emit returned: the head leaves the batch.
LEMMA EmitReturnStep ==
  ASSUME IInv, NEW p \in Procs, EmitReturn(p)
  PROVE  IInv'
<1>t. /\ pending \in Seq(Event) /\ out \in Seq(Event)
      /\ batch \in [Procs -> Seq(Event)]
      /\ pc \in [Procs -> {"idle", "take", "emit", "inEmit"}]
  BY DEF IInv, QueueTypeOK
<1>1. /\ pc[p] = "inEmit" /\ batch[p] # <<>> /\ batch[p] \in Seq(Event)
      /\ \A q \in Procs : Drains(q) <=> q = p
  BY <1>t DEF EmitReturn, IInv, OneDrainer, BatchInv, Drains
<1>2. /\ batch' = [batch EXCEPT ![p] = Tail(batch[p])]
      /\ pc' = [pc EXCEPT ![p] = IF Len(batch[p]) = 1 THEN "take" ELSE "emit"]
      /\ pending' = pending /\ draining' = draining
      /\ made' = made /\ out' = out /\ left' = left
  BY DEF EmitReturn
<1>3. /\ Tail(batch[p]) \in Seq(Event)
      /\ Len(batch[p]) \in Nat /\ Len(Tail(batch[p])) = Len(batch[p]) - 1
  BY <1>1, HeadTailProperties, LenProperties
<1>4. Tail(batch[p]) = <<>> <=> Len(batch[p]) = 1
  <2>1. \A s \in Seq(Event) : s = <<>> <=> Len(s) = 0
    BY EmptySeq
  <2>2. Tail(batch[p]) = <<>> <=> Len(Tail(batch[p])) = 0
    BY <1>3, <2>1
  <2> QED
    BY <1>3, <2>2
<1>5. \A q \in Procs : Drains(q)' <=> q = p
  BY <1>t, <1>1, <1>2 DEF Drains
<1>6. QueueTypeOK' /\ NoneStranded'
  BY <1>t, <1>2, <1>3 DEF IInv, QueueTypeOK, NoneStranded
<1>7. OneDrainer'
  <2>1. draining' = TRUE
    BY <1>1, <1>2, <1>t DEF IInv, OneDrainer, QueueTypeOK
  <2> QED
    BY <1>5, <2>1 DEF OneDrainer
<1>8. BatchInv'
  BY <1>t, <1>1, <1>2, <1>4 DEF IInv, BatchInv
<1>9. EmitOrder'
  <2>1. made = (out \o Tail(batch[p])) \o pending
    BY <1>1 DEF IInv, EmitOrder, Rest
  <2>2. Rest(p)' = Tail(batch[p])
    BY <1>t, <1>2 DEF Rest
  <2> QED
    BY <1>2, <1>5, <2>1, <2>2 DEF EmitOrder
<1> QED
  BY <1>6, <1>7, <1>8, <1>9 DEF IInv

\* emit panicked: what the batch still held goes back before the queue.
LEMMA EmitPanicStep ==
  ASSUME IInv, NEW p \in Procs, EmitPanic(p)
  PROVE  IInv'
<1>t. /\ pending \in Seq(Event) /\ out \in Seq(Event)
      /\ batch \in [Procs -> Seq(Event)]
      /\ pc \in [Procs -> {"idle", "take", "emit", "inEmit"}]
  BY DEF IInv, QueueTypeOK
<1>e. <<>> \in Seq(Event)
  BY EmptySeq
<1>1. /\ pc[p] = "inEmit" /\ batch[p] # <<>> /\ batch[p] \in Seq(Event)
      /\ \A q \in Procs : Drains(q) <=> q = p
  BY <1>t DEF EmitPanic, IInv, OneDrainer, BatchInv, Drains
<1>2. /\ batch' = [batch EXCEPT ![p] = <<>>]
      /\ pc' = [pc EXCEPT ![p] = "idle"]
      /\ pending' = Tail(batch[p]) \o pending
      /\ draining' = FALSE /\ left' = TRUE /\ made' = made /\ out' = out
  BY DEF EmitPanic
<1>3. Tail(batch[p]) \in Seq(Event) /\ pending' \in Seq(Event)
  BY <1>t, <1>1, <1>2, HandOver, ConcatSeq
<1>4. \A q \in Procs : ~Drains(q)'
  BY <1>t, <1>1, <1>2 DEF Drains
<1>5. QueueTypeOK' /\ NoneStranded'
  BY <1>t, <1>e, <1>2, <1>3 DEF IInv, QueueTypeOK, NoneStranded
<1>6. OneDrainer' /\ BatchInv'
  BY <1>t, <1>1, <1>2, <1>4 DEF IInv, OneDrainer, BatchInv
<1>7. EmitOrder'
  <2>1. made = (out \o Tail(batch[p])) \o pending
    BY <1>1 DEF IInv, EmitOrder, Rest
  <2>0. \A r, s, t \in Seq(Event) : (r \o s) \o t = r \o (s \o t)
    BY ConcatAssociative
  <2>2. (out \o Tail(batch[p])) \o pending = out \o (Tail(batch[p]) \o pending)
    BY <1>t, <1>3, <2>0
  <2> QED
    BY <1>2, <1>4, <2>1, <2>2 DEF EmitOrder
<1> QED
  BY <1>5, <1>6, <1>7 DEF IInv

LEMMA QueueStep == IInv /\ [Next]_queueVars => IInv'
<1> SUFFICES ASSUME IInv, [Next]_queueVars PROVE IInv'
  OBVIOUS
<1>1. CASE Calls
  <2>1. PICK p \in Procs, n \in 0..MaxBatch :
            \E evs \in [1..n -> Event] : Do(p, evs)
    BY <1>1 DEF Calls
  <2>0. PICK evs \in [1..n -> Event] : Do(p, evs)
    BY <2>1
  <2>2. evs \in Seq(Event)
    BY QueueBounds, SeqDef
  <2> QED
    BY <2>0, <2>2, DoStep
<1>2. ASSUME NEW p \in Procs, Drainer(p) PROVE IInv'
  BY <1>2, TakeStep, EmitCallStep, EmitReturnStep DEF Drainer
<1>3. ASSUME NEW p \in Procs, EmitPanic(p) PROVE IInv'
  BY <1>3, EmitPanicStep
<1>4. CASE Restart
  <2>1. Init'
    BY <1>4 DEF Restart, Init
  <2> QED
    BY <2>1, QueueInit, PTL
<1>5. CASE UNCHANGED queueVars
  BY <1>5 DEF queueVars, IInv, QueueTypeOK, OneDrainer, BatchInv, EmitOrder,
              NoneStranded, Drains, Rest
<1> QED
  BY <1>1, <1>2, <1>3, <1>4, <1>5 DEF Next

-----------------------------------------------------------------------------
(* Theorems.                                                               *)

\* The inductive invariant.
THEOREM QueueInvariant == Spec => []IInv
<1>1. Init => IInv
  BY QueueInit
<1>2. IInv /\ [Next]_queueVars => IInv'
  BY QueueStep
<1> QED
  BY <1>1, <1>2, PTL DEF Spec

\* drain and do: emit is given the events of the state changes in their order,
\* none lost, doubled or overtaken, whoever drains and whenever emit panics.
THEOREM EventsInOrder == Spec => []EmitOrder
<1>1. IInv => EmitOrder
  BY DEF IInv
<1> QED
  BY <1>1, QueueInvariant, PTL

\* do: at most one goroutine is inside drain, exactly one while draining is set.
THEOREM AtMostOneDrainer == Spec => []OneDrainer
<1>1. IInv => OneDrainer
  BY DEF IInv
<1> QED
  BY <1>1, QueueInvariant, PTL

\* do and drain: a queue without a drainer was left by a panic of emit.
THEOREM QueueHasDrainer == Spec => []NoneStranded
<1>1. IInv => NoneStranded
  BY DEF IInv
<1> QED
  BY <1>1, QueueInvariant, PTL

-----------------------------------------------------------------------------
(* The queue implements EventLog.                                          *)

\* Where the mapping finds its log and its event: with the drainer.
Mapped ==
    /\ (\A p \in Procs : ~Drains(p)) => Undelivered = pending /\ Telling = <<>>
    /\ \A p \in Procs : Drains(p) =>
          /\ Undelivered = Rest(p) \o pending
          /\ Telling = IF pc[p] = "inEmit" THEN <<Head(batch[p])>> ELSE <<>>

LEMMA MappedHolds == IInv => Mapped
<1> SUFFICES ASSUME IInv PROVE Mapped
  OBVIOUS
<1>t. pending \in Seq(Event) /\ pc \in [Procs -> {"idle", "take", "emit", "inEmit"}]
  BY DEF IInv, QueueTypeOK
<1>1. ASSUME \A p \in Procs : ~Drains(p) PROVE Undelivered = pending /\ Telling = <<>>
  <2>1. \A p \in Procs : pc[p] # "inEmit"
    BY <1>1 DEF Drains
  <2> QED
    BY <1>t, <1>1, <2>1, ConcatEmptySeq DEF Undelivered, Telling
<1>2. ASSUME NEW p \in Procs, Drains(p)
      PROVE  /\ Undelivered = Rest(p) \o pending
             /\ Telling = IF pc[p] = "inEmit" THEN <<Head(batch[p])>> ELSE <<>>
  <2>1. \A q \in Procs : Drains(q) => q = p
    BY <1>2 DEF IInv, OneDrainer
  <2>2. (CHOOSE q \in Procs : Drains(q)) = p
    BY <1>2, <2>1
  <2>3. Undelivered = Rest(p) \o pending
    BY <1>2, <2>2 DEF Undelivered
  <2>4. \A q \in Procs : pc[q] = "inEmit" => q = p
    BY <2>1 DEF Drains
  <2>5. pc[p] = "inEmit" => (CHOOSE q \in Procs : pc[q] = "inEmit") = p
    BY <2>4
  <2> QED
    BY <2>3, <2>4, <2>5 DEF Telling
<1> QED
  BY <1>1, <1>2 DEF Mapped

LEMMA RestTyped == ASSUME IInv, NEW p \in Procs PROVE Rest(p) \in Seq(Event)
<1>1. batch[p] \in Seq(Event)
  BY DEF IInv, QueueTypeOK
<1>2. CASE pc[p] = "inEmit"
  <2>1. batch[p] # <<>>
    BY <1>2 DEF IInv, BatchInv
  <2> QED
    BY <1>1, <1>2, <2>1, HeadTailProperties DEF Rest
<1>3. CASE pc[p] # "inEmit"
  BY <1>1, <1>3 DEF Rest
<1> QED
  BY <1>2, <1>3

LEMMA PrefixOfConcat ==
  ASSUME NEW S, NEW s \in Seq(S), NEW t \in Seq(S)
  PROVE  IsPrefix(s, s \o t)
BY DEF IsPrefix

LEMMA HeadOfConcat ==
  ASSUME NEW S, NEW s \in Seq(S), NEW t \in Seq(S), s # <<>>
  PROVE  /\ s \o t # <<>>
         /\ Head(s \o t) = Head(s)
         /\ Tail(s \o t) = Tail(s) \o t
OBVIOUS

\* A call puts its events at the end of the log, whoever drains.
LEMMA DoLogs ==
  ASSUME IInv, Mapped, Mapped', NEW p \in Procs, NEW evs \in Seq(Event), Do(p, evs)
  PROVE  Log!Change
<1>t. /\ pending \in Seq(Event) /\ batch \in [Procs -> Seq(Event)]
      /\ pc \in [Procs -> {"idle", "take", "emit", "inEmit"}]
      /\ draining \in BOOLEAN
  BY DEF IInv, QueueTypeOK
<1>1. pending' = pending \o evs /\ batch' = batch
  BY DEF Do
<1>2. ASSUME NEW d \in Procs, Drains(d)
      PROVE  Undelivered' = Undelivered \o evs /\ Telling' = Telling
  <2>1. draining
    BY <1>2 DEF IInv, OneDrainer
  <2>2. pc' = pc
    BY <2>1 DEF Do
  <2>3. Rest(d)' = Rest(d) /\ Drains(d)'
    BY <1>1, <1>2, <2>2 DEF Rest, Drains
  <2>4. Rest(d) \in Seq(Event)
    BY RestTyped
  <2>5. (Rest(d) \o pending) \o evs = Rest(d) \o (pending \o evs)
    BY <1>t, <2>4, ConcatAssociative
  <2> QED
    BY <1>1, <1>2, <2>2, <2>3, <2>5 DEF Mapped
<1>3. ASSUME \A d \in Procs : ~Drains(d)
      PROVE  Undelivered' = Undelivered \o evs /\ Telling' = Telling
  <2>1. Undelivered = pending /\ Telling = <<>>
    BY <1>3 DEF Mapped
  <2>2. pending \o evs \in Seq(Event)
    BY <1>t, ConcatSeq
  <2>3. CASE pc' = pc
    <3>1. \A d \in Procs : ~Drains(d)'
      BY <1>3, <2>3 DEF Drains
    <3> QED
      BY <1>1, <2>1, <3>1 DEF Mapped
  <2>4. CASE pc' = [pc EXCEPT ![p] = "take"]
    <3>1. Drains(p)' /\ pc'[p] = "take"
      BY <1>t, <2>4 DEF Drains
    <3>2. batch[p] = <<>>
      BY <1>3, <1>t DEF IInv, BatchInv, Drains
    <3>3. Rest(p)' = <<>>
      BY <1>1, <3>1, <3>2 DEF Rest
    <3>4. Undelivered' = <<>> \o pending' /\ Telling' = <<>>
      BY <3>1, <3>3 DEF Mapped
    <3> QED
      BY <1>1, <2>1, <2>2, <3>4, ConcatEmptySeq
  <2> QED
    BY <2>3, <2>4 DEF Do
<1>4. Undelivered' = Undelivered \o evs /\ Telling' = Telling
  BY <1>2, <1>3
<1>5. Undelivered \in Seq(Event)
  <2>1. CASE \A d \in Procs : ~Drains(d)
    BY <1>t, <2>1 DEF Mapped
  <2>2. ASSUME NEW d \in Procs, Drains(d) PROVE Undelivered \in Seq(Event)
    BY <1>t, <2>2, RestTyped, ConcatSeq DEF Mapped
  <2> QED
    BY <2>1, <2>2
<1> QED
  BY <1>4, <1>5, PrefixOfConcat DEF Log!Change, Log!IsPrefix, IsPrefix

\* Taking the queue as the batch changes nothing for a user.
LEMMA TakeLogs ==
  ASSUME IInv, Mapped, Mapped', NEW p \in Procs, Take(p)
  PROVE  Undelivered' = Undelivered /\ Telling' = Telling
<1>t. /\ pending \in Seq(Event) /\ batch \in [Procs -> Seq(Event)]
      /\ pc \in [Procs -> {"idle", "take", "emit", "inEmit"}]
  BY DEF IInv, QueueTypeOK
<1>1. /\ pc[p] = "take" /\ batch[p] = <<>>
      /\ \A q \in Procs : Drains(q) <=> q = p
  BY <1>t DEF Take, IInv, OneDrainer, BatchInv, Drains
<1>2. Undelivered = pending /\ Telling = <<>>
  <2>1. Rest(p) = <<>>
    BY <1>1 DEF Rest
  <2> QED
    BY <1>t, <1>1, <2>1, ConcatEmptySeq DEF Mapped
<1>3. CASE pending = <<>>
  <2>1. pc' = [pc EXCEPT ![p] = "idle"] /\ pending' = pending
    BY <1>3 DEF Take
  <2>2. \A q \in Procs : ~Drains(q)'
    BY <1>t, <1>1, <2>1 DEF Drains
  <2> QED
    BY <1>2, <2>1, <2>2 DEF Mapped
<1>4. CASE pending # <<>>
  <2>1. /\ pc' = [pc EXCEPT ![p] = "emit"] /\ pending' = <<>>
        /\ batch' = [batch EXCEPT ![p] = pending]
    BY <1>4 DEF Take
  <2>2. Drains(p)' /\ pc'[p] = "emit" /\ Rest(p)' = pending
    BY <1>t, <2>1 DEF Drains, Rest
  <2>3. Undelivered' = pending \o <<>> /\ Telling' = <<>>
    BY <2>1, <2>2 DEF Mapped
  <2> QED
    BY <1>t, <1>2, <2>3, ConcatEmptySeq
<1> QED
  BY <1>3, <1>4

\* The call of emit tells the first event of the log.
LEMMA EmitCallLogs ==
  ASSUME IInv, Mapped, Mapped', NEW p \in Procs, EmitCall(p)
  PROVE  Log!Tell
<1>t. /\ pending \in Seq(Event) /\ batch \in [Procs -> Seq(Event)]
      /\ pc \in [Procs -> {"idle", "take", "emit", "inEmit"}]
  BY DEF IInv, QueueTypeOK
<1>1. /\ pc[p] = "emit" /\ Drains(p)
      /\ batch[p] # <<>> /\ batch[p] \in Seq(Event)
  BY <1>t DEF EmitCall, IInv, BatchInv, Drains
<1>2. Undelivered = batch[p] \o pending /\ Telling = <<>>
  BY <1>1 DEF Mapped, Rest
<1>3. pc' = [pc EXCEPT ![p] = "inEmit"] /\ pending' = pending /\ batch' = batch
  BY DEF EmitCall
<1>4. Drains(p)' /\ pc'[p] = "inEmit" /\ Rest(p)' = Tail(batch[p])
  BY <1>t, <1>3 DEF Drains, Rest
<1>5. Undelivered' = Tail(batch[p]) \o pending /\ Telling' = <<Head(batch[p])>>
  BY <1>3, <1>4 DEF Mapped
<1> QED
  BY <1>t, <1>1, <1>2, <1>5, HeadOfConcat DEF Log!Tell

\* emit returned, or panicked: its event is told, the rest stays in the log.
LEMMA EmitEndLogs ==
  ASSUME IInv, Mapped, Mapped', NEW p \in Procs, EmitReturn(p) \/ EmitPanic(p)
  PROVE  Log!Told
<1>t. /\ pending \in Seq(Event) /\ batch \in [Procs -> Seq(Event)]
      /\ pc \in [Procs -> {"idle", "take", "emit", "inEmit"}]
  BY DEF IInv, QueueTypeOK
<1>1. pc[p] = "inEmit" /\ \A q \in Procs : Drains(q) <=> q = p
  BY <1>t DEF EmitReturn, EmitPanic, IInv, OneDrainer, Drains
<1>2. Undelivered = Tail(batch[p]) \o pending /\ Telling # <<>>
  BY <1>1 DEF Mapped, Rest
<1>3. CASE EmitReturn(p)
  <2>1. /\ pc'[p] \in {"take", "emit"} /\ pending' = pending
        /\ batch' = [batch EXCEPT ![p] = Tail(batch[p])]
    BY <1>t, <1>3 DEF EmitReturn
  <2>2. Drains(p)' /\ Rest(p)' = Tail(batch[p])
    BY <1>t, <2>1 DEF Drains, Rest
  <2>3. Undelivered' = Tail(batch[p]) \o pending /\ Telling' = <<>>
    BY <2>1, <2>2 DEF Mapped
  <2> QED
    BY <1>2, <2>3 DEF Log!Told
<1>4. CASE EmitPanic(p)
  <2>1. pc' = [pc EXCEPT ![p] = "idle"] /\ pending' = Tail(batch[p]) \o pending
    BY <1>4 DEF EmitPanic
  <2>2. \A q \in Procs : ~Drains(q)'
    BY <1>t, <1>1, <2>1 DEF Drains
  <2> QED
    BY <1>2, <2>1, <2>2 DEF Mapped, Log!Told
<1> QED
  BY <1>3, <1>4

LEMMA LogStep ==
  IInv /\ Mapped /\ Mapped' /\ [Next]_queueVars => [Log!Next]_(Log!logVars)
<1> SUFFICES ASSUME IInv, Mapped, Mapped', [Next]_queueVars
             PROVE  [Log!Next]_(Log!logVars)
  OBVIOUS
<1>1. CASE Calls
  <2>1. PICK p \in Procs, n \in 0..MaxBatch :
            \E evs \in [1..n -> Event] : Do(p, evs)
    BY <1>1 DEF Calls
  <2>2. PICK evs \in [1..n -> Event] : Do(p, evs)
    BY <2>1
  <2>3. evs \in Seq(Event)
    BY QueueBounds, SeqDef
  <2> QED
    BY <2>2, <2>3, DoLogs DEF Log!Next
<1>2. ASSUME NEW p \in Procs, Drainer(p) PROVE [Log!Next]_(Log!logVars)
  BY <1>2, TakeLogs, EmitCallLogs, EmitEndLogs DEF Drainer, Log!Next, Log!logVars
<1>3. ASSUME NEW p \in Procs, EmitPanic(p) PROVE [Log!Next]_(Log!logVars)
  BY <1>3, EmitEndLogs DEF Log!Next
<1>4. CASE Restart
  <2>1. (\A p \in Procs : ~Drains(p)') /\ pending' = <<>>
    BY <1>4 DEF Restart, Drains
  <2> QED
    BY <2>1 DEF Mapped, Log!Next, Log!Die
<1>5. CASE UNCHANGED queueVars
  BY <1>5 DEF queueVars, Undelivered, Telling, Drains, Rest, Log!logVars
<1> QED
  BY <1>1, <1>2, <1>3, <1>4, <1>5 DEF Next

\* do and drain implement the log of types.go: events leave it from the front,
\* one at a time, with batches, re-entrant calls, panics and restarts.
THEOREM QueueImplementsLog == Spec => ImplementsEventLog
<1>1. Init => Log!Init
  <2> SUFFICES ASSUME Init PROVE Log!Init
    OBVIOUS
  <2>1. IInv
    BY QueueInit
  <2>2. Mapped
    BY <2>1, MappedHolds
  <2>3. \A p \in Procs : ~Drains(p)
    BY DEF Init, Drains
  <2> QED
    BY <2>2, <2>3 DEF Init, Mapped, Log!Init
<1> QED
  BY <1>1, QueueInvariant, MappedHolds, LogStep, PTL DEF Spec, ImplementsEventLog, Log!Spec

=============================================================================
