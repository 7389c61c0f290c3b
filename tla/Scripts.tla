------------------------------ MODULE Scripts ------------------------------
(***************************************************************************)
(* ExecuteScripts (utils/command/command.go): every regular file of a      *)
(* directory is run, one after the other, each for at most ScriptTimeout;  *)
(* what failed comes back, and a failure stops nothing.  A script may hang,*)
(* leave something behind that keeps its output open, in its process group *)
(* or in one of its own, and end just as its time is over.                 *)
(*                                                                         *)
(* Data.  A script is its place in the directory.  What os/exec does       *)
(* between Start and the end of Run (the wait for the process, the context *)
(* that ends, the wait for the output) is modelled as its documentation    *)
(* has it; what a script prints and its interpreter are left out.          *)
(***************************************************************************)
EXTENDS Naturals, Sequences

CONSTANT Entries    \* bound: entries of the directory

VARIABLES
    dir,        \* the directory: its entries in order, or an error
    told,       \* per entry gone through: skipped, or the scriptResult
    proc,       \* the script: idle, running, exited, killed; then waited (for)
    code,       \* how it ended: none, zero, error
    child,      \* what it left with its output open: none, group, own
    expired,    \* the context's time is over
    delayed,    \* scriptWaitDelay is over since the script's end
    fate        \* per entry: what became of it (history)

scrVars == <<dir, told, proc, code, child, expired, delayed, fate>>
timers == <<expired, delayed>>

Kinds == {"file", "directory", "gone", "unreadable"}

Init ==
    /\ dir \in {<<"missing">>, <<"error">>} \cup [1..Entries -> Kinds]
    /\ told = <<>> /\ fate = <<>>
    /\ proc = "idle" /\ code = "none" /\ child = "none"
    /\ expired = FALSE /\ delayed = FALSE

Returned == dir \in {<<"missing">>, <<"error">>} \/ Len(told) = Len(dir)
here == dir[Len(told) + 1]
tell(result, was) == told' = Append(told, result) /\ fate' = Append(fate, was)

-----------------------------------------------------------------------------
\* ExecuteScripts goes to the next entry: no regular file, or one whose first
\* line cannot be read, or that cannot be started, or one that starts.
ExecuteScripts ==
    /\ ~Returned /\ proc = "idle"
    /\ \/ /\ here \in {"directory", "gone"} /\ tell("skipped", "skipped")
          /\ UNCHANGED proc
       \/ /\ here \in {"file", "unreadable"} /\ tell("failed", "unstarted")
          /\ UNCHANGED proc
       \/ here = "file" /\ proc' = "running" /\ UNCHANGED <<told, fate>>
    /\ UNCHANGED <<dir, code, child, timers>>

\* The script leaves something behind that holds its output.
Forks == /\ proc = "running" /\ child = "none"
         /\ child' \in {"group", "own"}
         /\ UNCHANGED <<dir, told, proc, code, timers, fate>>

ChildEnds == /\ child # "none" /\ child' = "none"
             /\ UNCHANGED <<dir, told, proc, code, timers, fate>>

Exits == /\ proc = "running" /\ proc' = "exited" /\ code' \in {"zero", "error"}
         /\ UNCHANGED <<dir, told, child, timers, fate>>

\* ScriptTimeout is over.
Expires == /\ proc # "idle" /\ ~expired /\ expired' = TRUE
           /\ UNCHANGED <<dir, told, proc, code, child, delayed, fate>>

\* killGroupOnCancel: what is in the script's group dies with it.
killGroupOnCancel == IF child = "group" THEN "none" ELSE child

\* The end of the context kills the script.
Cancels == /\ expired /\ proc = "running"
           /\ proc' = "killed" /\ code' = "error" /\ child' = killGroupOnCancel
           /\ UNCHANGED <<dir, told, timers, fate>>

\* Wait has the end of the process.  A script that exited well while its time
\* was over may come with the error of the context.
Waited == /\ proc \in {"exited", "killed"} /\ proc' = "waited"
          /\ code' \in {code} \cup (IF expired /\ code = "zero" THEN {"context"} ELSE {})
          /\ fate' = Append(fate, IF proc = "killed" THEN "killed"
                                  ELSE IF code = "zero" /\ expired THEN "late" ELSE code)
          /\ UNCHANGED <<dir, told, child, timers>>

\* Mutant: nothing bounds the wait for the output.
NoWaitDelay == FALSE /\ UNCHANGED scrVars

\* scriptWaitDelay is over: the pipes are closed.
WaitDelay == /\ proc = "waited" /\ child # "none" /\ ~delayed /\ delayed' = TRUE
             /\ UNCHANGED <<dir, told, proc, code, child, expired, fate>>

\* Mutant: the end of the context is looked at before the kept output.
classifyExpiredFirst == IF code = "zero" /\ ~delayed THEN "ok"
                        ELSE IF expired THEN "timed out"
                        ELSE IF code = "zero" THEN "warned" ELSE "failed"

\* The switch of runScript: no error; ErrWaitDelay; the context's end; an error.
classify == CASE code = "zero" /\ ~delayed  -> "ok"
              [] code = "zero" /\ delayed   -> "warned"
              [] code # "zero" /\ expired   -> "timed out"
              [] code # "zero" /\ ~expired  -> "failed"

\* runScript returns, when nothing holds the output or the delay is over.
runScript == /\ proc = "waited" /\ (child = "none" \/ delayed)
             /\ told' = Append(told, classify)
             /\ proc' = "idle" /\ code' = "none" /\ child' = "none"
             /\ expired' = FALSE /\ delayed' = FALSE
             /\ UNCHANGED <<dir, fate>>

Finished == Returned /\ UNCHANGED scrVars

\* What ExecuteScripts, os/exec and the timers do by themselves.
Proceeds == ExecuteScripts \/ Expires \/ Cancels \/ Waited \/ WaitDelay \/ runScript

Next == Proceeds \/ Forks \/ ChildEnds \/ Exits \/ Finished

-----------------------------------------------------------------------------
\* What ExecuteScripts tells of a script is what became of it, whatever the
\* order of its exit, the end of its time and the end of its output: one that
\* exits well in time is never a failure, even if what it started holds its
\* output past the end of its time; one that fails, is killed or never starts
\* always is; what is told to have timed out had its time over; and of a script
\* that was killed nothing is left in its group.
ScriptsTold ==
    /\ \A n \in DOMAIN told :
          /\ fate[n] = "zero" => told[n] \in {"ok", "warned"}
          /\ fate[n] \in {"error", "unstarted"} => told[n] \in {"failed", "timed out"}
          /\ fate[n] = "killed" => told[n] = "timed out"
          /\ fate[n] = "skipped" <=> told[n] = "skipped"
    /\ proc = "killed" => child # "group"

\* ExecuteScripts returns, whatever a script and what it starts do.
ScriptsReturn == <>Returned

=============================================================================
