------------------------------ MODULE Debounce ------------------------------
(***************************************************************************)
(* Throttle and DelayedExecutor (utils/utils.go), called by several        *)
(* goroutines while their timers fire: whose functions run.                *)
(*                                                                         *)
(* Data.  A call, its function, and the state and the timer it makes are   *)
(* one number; calls begin in that order and overlap as they like.  Time   *)
(* is left open: whether a call is within the limit or MaxInterval is over *)
(* for it (and what a racing read of lastCall gives), when a timer fires.  *)
(***************************************************************************)
EXTENDS Naturals

CONSTANT Calls      \* bound: the number of calls of Do

VARIABLES
    kind,           \* which of the two is in use: throttle, executor
    begun, call,      \* calls begun; where a call is
    over,           \* per call: the calls that were over when it began (history)
    held,           \* Throttle.timer, or the state in States; 0 none
    mine,           \* per call of DelayedExecutor.Do: the state it works on
    func, timer,    \* per state: ExecFunc; Timer, 0 none; a state with
    started,        \*   StartTime set is in started
    armed, fired,   \* timers that have not fired; that fired and have not run
    ran,            \* the calls whose function ran (history)
    met             \* the calls a trigger or Cancel came across (history)

dbcVars == <<kind, begun, call, over, held, mine, func, timer, started, armed, fired, ran, met>>
states  == <<mine, func, timer, started>>

calls == 1..Calls

Init ==
    /\ kind \in {"throttle", "executor"}
    /\ begun = 0 /\ held = 0
    /\ started = {} /\ armed = {} /\ fired = {} /\ ran = {} /\ met = {}
    /\ call = [c \in calls |-> "new"] /\ over = [c \in calls |-> {}]
    /\ mine = [c \in calls |-> 0] /\ func = mine /\ timer = mine

inFlight == {c \in calls : call[c] \notin {"new", "done"}}
Goes(c, from, to) == call[c] = from /\ call' = [call EXCEPT ![c] = to] /\ UNCHANGED <<begun, over>>
Begins(c, k, to) == /\ kind = k /\ c = begun + 1 /\ begun' = c
                    /\ call' = [call EXCEPT ![c] = to]
                    /\ over' = [over EXCEPT ![c] = {d \in calls : call[d] = "done"}]

-----------------------------------------------------------------------------
(* Throttle.Do: at once, f() and then Swap(nil); or a timer, then swapped  *)
(* in.  The first call ever is at once.                                    *)

DoNow(c) == /\ Begins(c, "throttle", "running")
            /\ UNCHANGED <<held, states, armed, fired, ran, met>>
DoRan(c) == /\ Goes(c, "running", "swapping") /\ ran' = ran \cup {c}
            /\ UNCHANGED <<held, states, armed, fired, met>>
DoLater(c) == /\ Begins(c, "throttle", "arming") /\ c > 1
              /\ armed' = armed \cup {c}
              /\ UNCHANGED <<held, states, fired, ran, met>>
DoSwapped(c) == /\ \/ Goes(c, "swapping", "done") /\ held' = 0
                   \/ Goes(c, "arming", "done") /\ held' = c
                /\ armed' = armed \ {held}
                /\ UNCHANGED <<states, fired, ran, met>>

-----------------------------------------------------------------------------
(* DelayedExecutor, one key.                                               *)

\* LoadOrStore gives the state held, or the call's own.
Load(c) == /\ Begins(c, "executor", "loaded")
           /\ held' = IF held = 0 THEN c ELSE held
           /\ mine' = [mine EXCEPT ![c] = held']
           /\ UNCHANGED <<func, timer, started, armed, fired, ran, met>>

\* Mutant: the function is set when the state is new only.
SetFuncOnce(c) ==
    /\ Goes(c, "loaded", "set") /\ func' = [func EXCEPT ![mine[c]] = mine[c]]
    /\ UNCHANGED <<held, mine, timer, started, armed, fired, ran, met>>

SetFunc(c) ==
    /\ Goes(c, "loaded", "set") /\ func' = [func EXCEPT ![mine[c]] = c]
    /\ UNCHANGED <<held, mine, timer, started, armed, fired, ran, met>>

\* A state without a StartTime gets one and then a timer; another has its timer,
\* if it has one yet, reset, or is triggered: MaxInterval is over.
Start(c) == /\ Goes(c, "set", "started")
            /\ mine[c] = c \/ mine[c] \notin started
            /\ started' = started \cup {mine[c]}
            /\ UNCHANGED <<held, mine, func, timer, armed, fired, ran, met>>
SetTimer(c) == /\ Goes(c, "started", "done")
               /\ timer' = [timer EXCEPT ![mine[c]] = c] /\ armed' = armed \cup {c}
               /\ UNCHANGED <<held, mine, func, started, fired, ran, met>>
Reset(c) == /\ mine[c] # c /\ mine[c] \in started
            /\ \/ /\ Goes(c, "set", "done")
                  /\ armed' = armed \cup ({timer[mine[c]]} \ {0})
               \/ Goes(c, "set", "triggers") /\ UNCHANGED armed
            /\ UNCHANGED <<held, states, fired, ran, met>>

\* trigger takes the state out, if there is one, and runs its function.
trigger(others) ==
    /\ ran' = ran \cup (IF held = 0 THEN {} ELSE {func[held]})
    /\ held' = 0 /\ met' = met \cup others
Triggers(c) == /\ Goes(c, "triggers", "done") /\ trigger(inFlight \ {c})
               /\ UNCHANGED <<states, armed, fired>>

\* Cancel takes it out and stops its timer.
Cancel == /\ kind = "executor" /\ held # 0
          /\ held' = 0 /\ armed' = armed \ {timer[held]}
          /\ met' = met \cup inFlight \cup {func[held]}
          /\ UNCHANGED <<begun, call, over, states, fired, ran>>

-----------------------------------------------------------------------------
\* A timer fires; its function then runs: the throttle's call, or trigger, for
\* the state that is held by then.
Fire(c) == /\ c \in armed /\ armed' = armed \ {c} /\ fired' = fired \cup {c}
           /\ UNCHANGED <<begun, call, over, held, states, ran, met>>
Runs(c) == /\ c \in fired /\ fired' = fired \ {c}
           /\ \/ kind = "throttle" /\ ran' = ran \cup {c} /\ UNCHANGED <<held, met>>
              \/ kind = "executor" /\ trigger(inFlight)
           /\ UNCHANGED <<begun, call, over, states, armed>>

Rest == begun = Calls /\ inFlight = {} /\ armed = {} /\ fired = {} /\ UNCHANGED dbcVars

Step(c) == \/ DoNow(c) \/ DoRan(c) \/ DoLater(c) \/ DoSwapped(c)
           \/ Load(c) \/ SetFunc(c) \/ Start(c) \/ SetTimer(c) \/ Reset(c) \/ Triggers(c)
           \/ Fire(c) \/ Runs(c)

Next == \/ /\ Cancel \/ \E c \in calls : Step(c)
           /\ UNCHANGED kind
        \/ Rest

-----------------------------------------------------------------------------
\* A call of Do is dropped only for another one that was not over when it
\* began, or for a Cancel or a trigger that came across it: otherwise its
\* function ran, or a timer that is armed or fires will run it.  However calls,
\* swaps, timers and triggers interleave.
NoneDropped ==
    LET waits == IF kind = "throttle" THEN armed \cup fired
                 ELSE IF held # 0 /\ armed \cup fired # {} THEN {func[held]} ELSE {}
        live  == ran \cup waits \cup met \cup inFlight
    IN  \A c \in calls : call[c] = "done" => ({c} \cup (1..begun \ over[c])) \cap live # {}

=============================================================================
