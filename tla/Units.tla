------------------------------- MODULE Units -------------------------------
(***************************************************************************)
(* The calls of systemd for a unit (utils/systemctl/systemctl.go), made by *)
(* several goroutines while the unit starts, dies and is changed by the    *)
(* others: each reads and orders in steps, every one a request of its own  *)
(* over D-Bus, which may fail.                                             *)
(*                                                                         *)
(* Data.  One unit: enabled or not, active or not.  A job's result is one  *)
(* of done, failed, and once, which ErrorMap does not know.                *)
(***************************************************************************)
EXTENDS Naturals

CONSTANTS
    Users,      \* goroutines
    MaxUses     \* bound: calls

VARIABLES
    enabled, active,   \* the unit, as systemd has it
    use,               \* per goroutine: the call, where it is, its answer
    job,               \* per goroutine: the result of its job, or none yet
    uses               \* calls made

untVars == <<enabled, active, use, job, uses>>

Calls == {"Enable", "Disable", "Start", "Stop", "Restart", "IsEnabled", "IsRunning", "List"}

\* seen: what the unit was at some time during the call (history)
Idle == [pc |-> "idle", op |-> "", ret |-> "", seen |-> {}]

Init == /\ enabled \in BOOLEAN /\ active \in BOOLEAN
        /\ use = [u \in Users |-> Idle] /\ job = [u \in Users |-> "none"] /\ uses = 0

Now(e, a) == {IF e THEN "enabled" ELSE "disabled", IF a THEN "active" ELSE "inactive"}

\* A step of u: where it goes, its answer, and what the unit is then for all.
Step(u, pc, ret) ==
    use' = [v \in Users |-> [use[v] EXCEPT
               !.seen = @ \cup Now(enabled', active'),
               !.pc = IF v = u THEN pc ELSE @, !.ret = IF v = u THEN ret ELSE @]]
At(u, pc) == use[u].pc = pc
Go(u, pc) == Step(u, pc, "")
Return(u, ret) == Step(u, "returned", ret)

-----------------------------------------------------------------------------
(* The unit by itself, and systemd.                                        *)

UnitChanges == /\ active' = ~active /\ UNCHANGED <<enabled, job, uses>>
               /\ use' = [v \in Users |-> [use[v] EXCEPT !.seen = @ \cup Now(enabled, active')]]

\* The job of u ends.
JobEnds(u) ==
    /\ At(u, "ordered") /\ job[u] = "none"
    /\ \E r \in {"done", "failed", "once"} :
          /\ job' = [job EXCEPT ![u] = r]
          /\ active' = IF r # "done" THEN active ELSE use[u].op \in {"Enable", "Start", "Restart"}
    /\ UNCHANGED <<enabled, uses>>
    /\ Go(u, "ordered")

-----------------------------------------------------------------------------
(* The calls.                                                              *)

\* Each begins with a connection, and so do the StartService and StopService
\* that EnableService and DisableService call.
Begin(u, op) ==
    /\ At(u, "idle") /\ uses < MaxUses /\ uses' = uses + 1
    /\ use' = [use EXCEPT ![u] = [pc |-> CASE op \in {"Start", "Stop", "Restart"} -> "order"
                                           [] op = "List" -> "IsRunning" [] OTHER -> op,
                                  op |-> op, ret |-> "", seen |-> Now(enabled, active)]]
    /\ UNCHANGED <<enabled, active, job>>

\* No connection, a request that fails, or a timeout.  In ListServices the unit
\* counts as not running; DisableService does not care about StopService.
Fails(u) ==
    /\ UNCHANGED <<enabled, active, job, uses>>
    /\ use[u].pc \in {"Enable", "look", "Disable", "unfile", "order", "IsEnabled", "IsRunning"}
    /\ CASE use[u].op = "List"                        -> Return(u, "no")
         [] At(u, "order") /\ use[u].op = "Disable" -> Go(u, "unfile")
         [] OTHER                                     -> Return(u, "error")

EnableService(u) == /\ UNCHANGED <<active, job, uses>>
                    /\ At(u, "Enable") /\ enabled' = TRUE /\ Go(u, "look")

\* Mutant: the unit file is looked at, not the unit.
LookEnabled(u) == /\ UNCHANGED <<enabled, active, job, uses>>
                  /\ At(u, "look")
                  /\ IF enabled THEN Return(u, "ok") ELSE Go(u, "order")

\* "ensure service is enabled": it is started unless it is active.
Look(u) == /\ UNCHANGED <<enabled, active, job, uses>>
           /\ At(u, "look")
           /\ IF active THEN Return(u, "ok") ELSE Go(u, "order")

DisableService(u) == /\ UNCHANGED <<enabled, active, job, uses>>
                     /\ At(u, "Disable")
                     /\ IF active THEN Go(u, "order") ELSE Go(u, "unfile")

Unfile(u) == /\ UNCHANGED <<active, job, uses>>
             /\ At(u, "unfile") /\ enabled' = FALSE /\ Return(u, "ok")

\* Each orders a job, whose result it waits for without a timeout.
Order(u, ops) == /\ UNCHANGED <<enabled, active, uses>>
                 /\ use[u].op \in ops /\ At(u, "order")
                 /\ job' = [job EXCEPT ![u] = "none"] /\ Go(u, "ordered")
StartService(u)   == Order(u, {"Start", "Enable"})
StopService(u)    == Order(u, {"Stop", "Disable"})
RestartService(u) == Order(u, {"Restart"})

\* ErrorMap, and ErrorUnknown for what is not in it.
ErrorMap(result) == CASE result = "done" -> "ok" [] result = "failed" -> "error"
                      [] OTHER -> "unknown"

Result(u) ==
    /\ UNCHANGED <<enabled, active, job, uses>>
    /\ At(u, "ordered") /\ job[u] # "none"
    /\ IF use[u].op = "Disable" THEN Go(u, "unfile") ELSE Return(u, ErrorMap(job[u]))

IsServiceEnabled(u) == /\ UNCHANGED <<enabled, active, job, uses>>
                       /\ At(u, "IsEnabled") /\ Return(u, IF enabled THEN "yes" ELSE "no")

IsServiceRunning(u) == /\ UNCHANGED <<enabled, active, job, uses>>
                       /\ At(u, "IsRunning") /\ Return(u, IF active THEN "yes" ELSE "no")

\* Each unit listed comes with the answer of IsServiceRunning.
ListServices(u) == use[u].op = "List" /\ IsServiceRunning(u)

Done(u) == /\ At(u, "returned") /\ use' = [use EXCEPT ![u] = Idle]
           /\ job' = [job EXCEPT ![u] = "none"] /\ UNCHANGED <<enabled, active, uses>>

Next == \/ UnitChanges
        \/ \E u \in Users :
              \/ JobEnds(u) \/ Fails(u) \/ EnableService(u) \/ Look(u) \/ DisableService(u)
              \/ Unfile(u) \/ StartService(u) \/ StopService(u) \/ RestartService(u)
              \/ Result(u) \/ IsServiceEnabled(u) \/ ListServices(u)
              \/ (use[u].op = "IsRunning" /\ IsServiceRunning(u)) \/ Done(u) \/ \E op \in Calls : Begin(u, op)

-----------------------------------------------------------------------------
\* A call that tells of success tells the truth about some time during the call,
\* whatever the unit and the other callers do: started means it was active,
\* enabled means it was enabled and active, and what a query says it was.
UnitsTrue ==
    \A u \in Users : At(u, "returned") =>
        LET was(s) == s \in use[u].seen
        IN  /\ use[u].ret = "ok" =>
                 /\ use[u].op \in {"Enable", "Start", "Restart"} => was("active")
                 /\ use[u].op = "Enable" => was("enabled")
                 /\ use[u].op = "Stop" => was("inactive")
                 /\ use[u].op = "Disable" => was("disabled")
            /\ use[u].op \in {"IsRunning", "List"} /\ use[u].ret = "yes" => was("active")
            /\ use[u].op = "IsRunning" /\ use[u].ret = "no" => was("inactive")

=============================================================================
