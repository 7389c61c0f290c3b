------------------------------ MODULE MCTasks ------------------------------
(***************************************************************************)
(* What runs in goroutines of its own and must come to an end, in one run: *)
(* the events of the Evaluator and the log they implement, an archive      *)
(* written for a client, a terminal session, the scripts of a service's    *)
(* start, and functions put off.  A behaviour is about one of them, named  *)
(* by part; the others stay as they began.                                 *)
(***************************************************************************)
EXTENDS EmitQueue

CONSTANTS
    Selections, MaxChanges,         \* of Archive
    Keys, Cap, MaxKeys, MaxOutput,  \* of SshSession
    Entries,                        \* of Scripts
    MaxDoCalls                      \* bound: calls of Debounce

VARIABLES
    part,
    node, inode, sel, nth, start, todo, job, wpc, apc, err, latch, archErr,
    gaveUp, entries, ended, still,
    phase, keys, typed, name, screen, wsUp, shell, written, buffer, shown,
    exitCh, reader, sender, waiter, caller,
    dir, told, proc, code, child, expired, delayed, fate,
    kind, begun, call, over, held, mine, func, timer, started, armed, fired,
    ran, met

Arc == INSTANCE Archive
Ssh == INSTANCE SshSession
Scr == INSTANCE Scripts
Dbc == INSTANCE Debounce WITH Calls <- MaxDoCalls

\* Nobody selects a path and what is inside it; the bounds are numbers.
ASSUME SelectionsAssumption ==
    \A s \in Selections :
        s \subseteq Arc!Paths /\ \A p, q \in s : p # q => ~Arc!Within(p, q)
ASSUME TaskBounds == Entries \in Nat /\ MaxDoCalls \in Nat

arcVars == <<node, inode, sel, nth, start, todo, job, wpc, apc, err, latch, archErr,
             gaveUp, entries, ended, still>>
sshVars == <<phase, keys, typed, name, screen, wsUp, shell, written, buffer, shown,
             exitCh, reader, sender, waiter, caller>>
scrVars == <<dir, told, proc, code, child, expired, delayed, fate>>
dbcVars == <<kind, begun, call, over, held, mine, func, timer, started, armed, fired,
             ran, met>>
allVars == <<part, queueVars, arcVars, sshVars, scrVars, dbcVars>>

\* A part that does not run begins in one state.
MCInit ==
    /\ part \in {"queue", "archive", "session", "scripts", "debounce"}
    /\ Init /\ Arc!Init /\ Ssh!Init /\ Scr!Init /\ Dbc!Init
    /\ part # "archive" => sel = <<"x">> /\ \A n \in {3, 4} : inode[n].kind = "file"
    /\ part # "scripts" => dir = <<"missing">>
    /\ part # "debounce" => kind = "throttle"

Queue(A)   == part = "queue" /\ A /\ UNCHANGED <<part, arcVars, sshVars, scrVars, dbcVars>>
Writing(A) == part = "archive" /\ A /\ UNCHANGED <<part, queueVars, sshVars, scrVars, dbcVars>>
Session(A) == part = "session" /\ A /\ UNCHANGED <<part, queueVars, arcVars, scrVars, dbcVars>>
Running(A) == part = "scripts" /\ A /\ UNCHANGED <<part, queueVars, arcVars, sshVars, dbcVars>>
PutOff(A)  == part = "debounce" /\ A /\ UNCHANGED <<part, queueVars, arcVars, sshVars, scrVars>>

MCNext == \/ Queue(Next) \/ Writing(Arc!Next) \/ Session(Ssh!Next)
          \/ Running(Scr!Next) \/ PutOff(Dbc!Next)

\* emit returns or panics; the walk and the archiver go on until they wait; so
\* do the reader and the flushes of a session, whose caller takes a token;
\* timers fire, and what a killed process held is let go.
MCSpec ==
    /\ MCInit /\ [][MCNext]_allVars
    /\ \A p \in Procs : WF_allVars(Queue(Drainer(p)))
    /\ WF_allVars(Writing(Arc!Walker)) /\ WF_allVars(Writing(Arc!Archiver))
    /\ WF_allVars(Session(Ssh!Reader)) /\ WF_allVars(Session(Ssh!Sender))
    /\ WF_allVars(Session(Ssh!CallerEnds))
    /\ WF_allVars(Running(Scr!Proceeds))

-----------------------------------------------------------------------------
(* The properties of the parts.                                            *)

\* An archive that has its end is complete, and no error means it has it: see
\* Archive.
ArchiveHonest == Arc!ArchiveHonest

\* The browser shows the name, nothing of the password, and the shell's output
\* in its order: see SshSession.
ScreenTrue == Ssh!ScreenTrue

\* What is told of a script is what became of it: see Scripts.
ScriptsTold == Scr!ScriptsTold

\* A function put off is dropped only for a later one: see Debounce.
NoneDropped == Dbc!NoneDropped

\* WriteArchive returns although the archiver may stop before the walk does;
\* the reader of a session ends once the browser left, whoever takes which
\* token; ExecuteScripts returns whatever a script and its children do.
TasksEnd ==
    /\ part = "archive" => Arc!ArchiveReturns
    /\ part = "session" => Ssh!ReaderLeaves
    /\ part = "scripts" => Scr!ScriptsReturn

=============================================================================
