------------------------------ MODULE EventLog ------------------------------
(***************************************************************************)
(* What the Evaluator of pkg/stats promises of its events (types.go:       *)
(* "emits events in the order of its state changes"): state changes put    *)
(* events at the end of a log, emit is given them from the front, one call *)
(* at a time, and an event leaves the log no other way but the death of    *)
(* the process.  Nothing here says who emits, nor that emit may panic.     *)
(***************************************************************************)
EXTENDS Sequences, SequencesExt

VARIABLES
    log,      \* events of the state changes that emit was not given yet
    telling   \* the event emit is running with: a sequence of at most one

logVars == <<log, telling>>

Init == log = <<>> /\ telling = <<>>

Change == IsPrefix(log, log') /\ UNCHANGED telling

Tell == /\ telling = <<>> /\ log # <<>>
        /\ telling' = <<Head(log)>> /\ log' = Tail(log)

Told == telling # <<>> /\ telling' = <<>> /\ UNCHANGED log

Die == log' = <<>> /\ telling' = <<>>

Next == Change \/ Tell \/ Told \/ Die

Spec == Init /\ [][Next]_logVars

=============================================================================
