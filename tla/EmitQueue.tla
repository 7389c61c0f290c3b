------------------------------ MODULE EmitQueue ------------------------------
(***************************************************************************)
(* The event queue of the Evaluator of pkg/stats (evaluator.go, do and     *)
(* drain).  A call changes the state and queues its events in one section  *)
(* of Evaluator.mu; the call that finds no one emitting becomes the        *)
(* drainer and hands the queue to emit, batch by batch, outside the lock,  *)
(* while other calls, and emit itself, queue more.  emit can panic.        *)
(***************************************************************************)
EXTENDS Naturals, Sequences, SequencesExt

CONSTANTS
    Procs,      \* goroutines that call do
    Event,      \* events
    Faults,     \* which of "panic", "restart" can happen
    MaxBatch,   \* bound: events of one call
    MaxEvents   \* bound: events made in the life of a process

ASSUME QueueBounds == MaxBatch \in Nat /\ MaxEvents \in Nat
ASSUME QueueFaults == Faults \subseteq {"panic", "restart"}

VARIABLES
    pending,    \* Evaluator.pending
    draining,   \* Evaluator.draining
    pc,         \* idle, or in drain: before the lock, before emit, in emit
    batch,      \* the local of drain
    made,       \* history: events of the state changes, in their order
    out,        \* history: events given to emit, in their order
    left        \* history: a panic left events and no call came since

queueVars == <<pending, draining, pc, batch, made, out, left>>

Init ==
    /\ pending = <<>> /\ draining = FALSE
    /\ pc = [p \in Procs |-> "idle"]
    /\ batch = [p \in Procs |-> <<>>]
    /\ made = <<>> /\ out = <<>> /\ left = FALSE

-----------------------------------------------------------------------------
\* Mutant: a call that emits nothing new does not look at the queue.
DoOwnOnly(p, evs) ==
    /\ pc[p] \in {"idle", "inEmit"}
    /\ made' = made \o evs
    /\ pending' = pending \o evs
    /\ left' = FALSE
    /\ IF draining \/ evs = <<>>
         THEN UNCHANGED <<draining, pc>>
         ELSE draining' = TRUE /\ pc' = [pc EXCEPT ![p] = "take"]
    /\ UNCHANGED <<batch, out>>

\* Mutant: a call does not look whether another one drains.
DoAlways(p, evs) ==
    /\ pc[p] \in {"idle", "inEmit"}
    /\ made' = made \o evs
    /\ pending' = pending \o evs
    /\ left' = FALSE
    /\ IF pending' = <<>> \/ pc[p] # "idle"
         THEN UNCHANGED <<draining, pc>>
         ELSE draining' = TRUE /\ pc' = [pc EXCEPT ![p] = "take"]
    /\ UNCHANGED <<batch, out>>

\* do: a state change that made evs, by a goroutine at rest or inside emit.
Do(p, evs) ==
    /\ pc[p] \in {"idle", "inEmit"}
    /\ made' = made \o evs
    /\ pending' = pending \o evs
    /\ left' = FALSE
    /\ IF draining \/ pending' = <<>>
         THEN UNCHANGED <<draining, pc>>
         ELSE draining' = TRUE /\ pc' = [pc EXCEPT ![p] = "take"]
    /\ UNCHANGED <<batch, out>>

\* Mutant: drain returns without giving up its role.
TakeKeepsRole(p) ==
    /\ pc[p] = "take"
    /\ IF pending = <<>>
         THEN /\ draining' = TRUE
              /\ pc' = [pc EXCEPT ![p] = "idle"]
              /\ UNCHANGED <<pending, batch>>
         ELSE /\ batch' = [batch EXCEPT ![p] = pending]
              /\ pending' = <<>>
              /\ pc' = [pc EXCEPT ![p] = "emit"]
              /\ UNCHANGED draining
    /\ UNCHANGED <<made, out, left>>

\* The section of drain under the lock: done, or the queue becomes the batch.
Take(p) ==
    /\ pc[p] = "take"
    /\ IF pending = <<>>
         THEN /\ draining' = FALSE
              /\ pc' = [pc EXCEPT ![p] = "idle"]
              /\ UNCHANGED <<pending, batch>>
         ELSE /\ batch' = [batch EXCEPT ![p] = pending]
              /\ pending' = <<>>
              /\ pc' = [pc EXCEPT ![p] = "emit"]
              /\ UNCHANGED draining
    /\ UNCHANGED <<made, out, left>>

EmitCall(p) ==
    /\ pc[p] = "emit"
    /\ out' = Append(out, Head(batch[p]))
    /\ pc' = [pc EXCEPT ![p] = "inEmit"]
    /\ UNCHANGED <<pending, draining, batch, made, left>>

EmitReturn(p) ==
    /\ pc[p] = "inEmit"
    /\ batch' = [batch EXCEPT ![p] = Tail(@)]
    /\ pc' = [pc EXCEPT ![p] = IF Len(batch[p]) = 1 THEN "take" ELSE "emit"]
    /\ UNCHANGED <<pending, draining, made, out, left>>

\* Mutant: the rest of the batch goes behind what was queued meanwhile.
EmitPanicBehind(p) ==
    /\ "panic" \in Faults
    /\ pc[p] = "inEmit"
    /\ pending' = pending \o Tail(batch[p])
    /\ draining' = FALSE
    /\ left' = TRUE
    /\ batch' = [batch EXCEPT ![p] = <<>>]
    /\ pc' = [pc EXCEPT ![p] = "idle"]
    /\ UNCHANGED <<made, out>>

\* Mutant: the rest of the batch is forgotten.
EmitPanicDrops(p) ==
    /\ "panic" \in Faults
    /\ pc[p] = "inEmit"
    /\ draining' = FALSE
    /\ left' = TRUE
    /\ batch' = [batch EXCEPT ![p] = <<>>]
    /\ pc' = [pc EXCEPT ![p] = "idle"]
    /\ UNCHANGED <<pending, made, out>>

\* The deferred function of drain: the event of the panic counts as emitted.
EmitPanic(p) ==
    /\ "panic" \in Faults
    /\ pc[p] = "inEmit"
    /\ pending' = Tail(batch[p]) \o pending
    /\ draining' = FALSE
    /\ left' = TRUE
    /\ batch' = [batch EXCEPT ![p] = <<>>]
    /\ pc' = [pc EXCEPT ![p] = "idle"]
    /\ UNCHANGED <<made, out>>

\* The process dies with its queue; the next one starts with an empty one.
Restart ==
    /\ "restart" \in Faults
    /\ pending' = <<>> /\ draining' = FALSE
    /\ pc' = [p \in Procs |-> "idle"]
    /\ batch' = [p \in Procs |-> <<>>]
    /\ made' = <<>> /\ out' = <<>> /\ left' = FALSE

-----------------------------------------------------------------------------
Drainer(p) == Take(p) \/ EmitCall(p) \/ EmitReturn(p)

Calls == \E p \in Procs, n \in 0..MaxBatch : \E evs \in [1..n -> Event] :
             Len(made) + n <= MaxEvents /\ Do(p, evs)

Next == \/ Calls
        \/ \E p \in Procs : Drainer(p) \/ EmitPanic(p)
        \/ Restart

Spec == Init /\ [][Next]_queueVars

\* emit returns or panics: a drainer that can go on goes on.
FairSpec == Spec /\ \A p \in Procs : WF_queueVars(Drainer(p))

-----------------------------------------------------------------------------
(* Properties.                                                             *)

\* The events of the batch of p that emit was not yet given.
Rest(p) == IF pc[p] = "inEmit" THEN Tail(batch[p]) ELSE batch[p]

Drains(p) == pc[p] # "idle"

QueueTypeOK ==
    /\ pending \in Seq(Event) /\ draining \in BOOLEAN
    /\ pc \in [Procs -> {"idle", "take", "emit", "inEmit"}]
    /\ batch \in [Procs -> Seq(Event)]
    /\ made \in Seq(Event) /\ out \in Seq(Event) /\ left \in BOOLEAN

\* "in the order of the state changes": no event is lost, doubled or overtaken.
\* What emit was given, then the rest of the drainer's batch, then the queue,
\* is what the state changes made, whoever drains and whenever emit panics.
EmitOrder ==
    /\ \A p \in Procs : Drains(p) => made = (out \o Rest(p)) \o pending
    /\ (\A p \in Procs : ~Drains(p)) => made = out \o pending

\* emit is never called by two goroutines at once: the role is held by exactly
\* one goroutine while draining is set, and by none otherwise.
OneDrainer ==
    /\ \A p, q \in Procs : Drains(p) /\ Drains(q) => p = q
    /\ draining <=> \E p \in Procs : Drains(p)

\* A queued event waits for no one to call, unless emit panicked and "the next
\* call" did not come yet.
NoneStranded == pending # <<>> => draining \/ left

\* Every event reaches emit, unless the process dies or a panic left it behind.
Delivered ==
    \A n \in 1..MaxEvents :
        Len(made) >= n ~> (Len(out) >= n \/ Len(made) < n \/ left)

\* What a run of emit and the two queues amount to: the rest of the drainer's
\* batch before the queue.
Undelivered ==
    (IF \E p \in Procs : Drains(p) THEN Rest(CHOOSE p \in Procs : Drains(p)) ELSE <<>>)
        \o pending

Telling ==
    IF \E p \in Procs : pc[p] = "inEmit"
      THEN <<Head(batch[CHOOSE p \in Procs : pc[p] = "inEmit"])>> ELSE <<>>

Log == INSTANCE EventLog WITH log <- Undelivered, telling <- Telling

\* The queue, its drainers and the panics of emit implement the log a user of
\* the package may think of: one queue, one event told at a time, in order.
ImplementsEventLog == Log!Spec

=============================================================================
