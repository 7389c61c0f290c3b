------------------------- MODULE GatewayPortWatcher -------------------------
(***************************************************************************)
(* The watcher of gateway.ini (external/gateway_port_watcher.go): a        *)
(* baseline read, then fsnotify events, or polling by mtime and size when  *)
(* fsnotify is not available or fails.  Each refresh is a stat and then a  *)
(* read of the file, and other processes write the file between any two    *)
(* steps: in place (truncated first), by a rename, or removing it.         *)
(*                                                                         *)
(* A stamp stands for mtime and size: a write can leave any stamp, the old *)
(* one included (same tick of the clock and same size, a restored mtime).  *)
(***************************************************************************)
EXTENDS Naturals

CONSTANTS
    Configs,     \* valid GatewayPortConfigs
    Bad, Absent, \* a file that does not parse or validate, no file
    Stamps,      \* modification time and size of a file
    MaxWrites,   \* bound: writes of the file
    MaxEvents    \* bound: events queued by fsnotify

ASSUME ContentsAssumption == Bad \notin Configs /\ Absent \notin Configs /\ Bad # Absent
ASSUME WatchBounds == MaxWrites \in Nat /\ MaxEvents \in Nat \ {0}

VARIABLES
    content, stamp,  \* the file
    writes,          \* writes made
    pc,              \* stat, read, record (of refresh), add, wait, done
    mode,            \* start, notify, poll
    force,           \* refresh: forceRead
    seen, got,       \* refresh: the metadata and the content just read
    meta, config,    \* gatewayPortWatchState: <<>> when hasMetadata, hasConfig
                     \* are FALSE, <<value>> otherwise
    heard,           \* the baseline, then the last config given to the callback
    events,          \* events fsnotify holds for the watcher
    cancelled,       \* ctx is done
    missed           \* history: a write since the last read of which neither an
                     \* event nor a stamp will tell

file  == <<content, stamp, writes>>
state == <<meta, config, heard>>
vars  == <<file, pc, mode, force, seen, got, state, events, cancelled, missed>>

Contents == Configs \cup {Bad, Absent}

Init ==
    /\ content \in Contents /\ stamp \in Stamps /\ writes = 0
    /\ pc = "stat" /\ mode = "start" /\ force = TRUE /\ seen = stamp /\ got = Absent
    /\ meta = <<>> /\ config = <<>> /\ heard = <<>>
    /\ events = 0 /\ cancelled = FALSE /\ missed = FALSE

-----------------------------------------------------------------------------
(* Other processes.                                                        *)

\* The stamps the watcher holds: what it recorded and what it just read.
Held == {s \in Stamps : meta = <<s>> \/ (pc \in {"read", "record"} /\ s = seen)}

\* One change of the file: with fsnotify watching its directory, one event.
Write(c, s) ==
    /\ writes < MaxWrites
    /\ writes' = writes + 1
    /\ content' = c /\ stamp' = s
    /\ events' = IF mode = "notify" /\ events < MaxEvents THEN events + 1 ELSE events
    /\ missed' = (missed \/ (mode # "notify" /\ s \in Held))
    /\ UNCHANGED <<pc, mode, force, seen, got, state, cancelled>>

Cancel ==
    /\ ~cancelled
    /\ cancelled' = TRUE
    /\ UNCHANGED <<file, pc, mode, force, seen, got, state, events, missed>>

-----------------------------------------------------------------------------
(* refresh.                                                                *)

Refresh(f) == pc' = "stat" /\ force' = f

Refreshed == pc' = IF mode = "start" THEN "add" ELSE "wait"

StatAbsent ==
    /\ pc = "stat" /\ content = Absent
    /\ meta' = <<>>
    /\ Refreshed
    /\ UNCHANGED <<file, mode, force, seen, got, config, heard, events, cancelled, missed>>

StatUnchanged ==
    /\ pc = "stat" /\ content # Absent
    /\ ~force /\ meta = <<stamp>>
    /\ Refreshed
    /\ UNCHANGED <<file, mode, force, seen, got, state, events, cancelled, missed>>

StatChanged ==
    /\ pc = "stat" /\ content # Absent
    /\ force \/ meta # <<stamp>>
    /\ seen' = stamp
    /\ pc' = "read"
    /\ UNCHANGED <<file, mode, force, got, state, events, cancelled, missed>>

ReadFile ==
    /\ pc = "read"
    /\ got' = content
    /\ missed' = FALSE
    /\ pc' = "record"
    /\ UNCHANGED <<file, mode, force, seen, state, events, cancelled>>

\* Mutant: the metadata is taken after the file was read.
RecordedLater == IF content = Absent THEN seen ELSE stamp

\* The metadata a read leaves in the state: what stat returned before it.
Recorded == seen

\* ReadGatewayPortConfig failed: the metadata is kept, the config stays.
ReadFailed ==
    /\ pc = "record" /\ got \notin Configs
    /\ meta' = <<Recorded>>
    /\ Refreshed
    /\ UNCHANGED <<file, mode, force, seen, got, config, heard, events, cancelled, missed>>

\* The baseline is adopted silently, a config that differs goes to the callback.
Called(c) == IF config = <<>> \/ config # <<c>> THEN <<c>> ELSE heard

Record ==
    /\ pc = "record" /\ got \in Configs
    /\ meta' = <<Recorded>>
    /\ config' = <<got>>
    /\ heard' = Called(got)
    /\ Refreshed
    /\ UNCHANGED <<file, mode, force, seen, got, events, cancelled, missed>>

-----------------------------------------------------------------------------
(* Watch.                                                                  *)

\* The file holds a valid config the watcher does not know of.
Unknown == content \in Configs /\ config # <<content>>

\* NewWatcher and Add work: events of later writes reach the watcher.
Add ==
    /\ pc = "add"
    /\ mode' = "notify" /\ pc' = "wait"
    /\ missed' = Unknown
    /\ UNCHANGED <<file, force, seen, got, state, events, cancelled>>

AddFails ==
    /\ pc = "add"
    /\ mode' = "poll" /\ pc' = "wait"
    /\ UNCHANGED <<file, force, seen, got, state, events, cancelled, missed>>

\* Mutant: an event does not force the file to be read.
OnEventUnforced ==
    /\ pc = "wait" /\ mode = "notify" /\ events > 0
    /\ events' = events - 1
    /\ Refresh(FALSE)
    /\ UNCHANGED <<file, mode, seen, got, state, cancelled, missed>>

OnEvent ==
    /\ pc = "wait" /\ mode = "notify" /\ events > 0
    /\ events' = events - 1
    /\ Refresh(TRUE)
    /\ UNCHANGED <<file, mode, seen, got, state, cancelled, missed>>

\* An error (the queue of the kernel overflowed, say) or a closed channel:
\* fsnotify is closed with the events it held, polling takes over.
NotifyError ==
    /\ pc = "wait" /\ mode = "notify"
    /\ mode' = "poll" /\ events' = 0
    /\ missed' = (missed \/ (Unknown /\ meta = <<stamp>>))
    /\ UNCHANGED <<file, pc, force, seen, got, state, cancelled>>

Poll ==
    /\ pc = "wait" /\ mode = "poll"
    /\ Refresh(FALSE)
    /\ UNCHANGED <<file, mode, seen, got, state, events, cancelled, missed>>

Stop ==
    /\ pc = "wait" /\ cancelled
    /\ pc' = "done"
    /\ UNCHANGED <<file, mode, force, seen, got, state, events, cancelled, missed>>

-----------------------------------------------------------------------------
Watcher == \/ StatAbsent \/ StatUnchanged \/ StatChanged \/ ReadFile \/ ReadFailed \/ Record
           \/ Add \/ AddFails \/ OnEvent \/ Poll \/ Stop

Returned == pc = "done" /\ UNCHANGED vars

Next == \/ \E c \in Contents, s \in Stamps : Write(c, s)
        \/ Cancel \/ Watcher \/ NotifyError \/ Returned

Spec == Init /\ [][Next]_vars

\* The goroutine runs, events are delivered, the ticker ticks; select takes a
\* ready ctx.Done in the end, since it picks at random among what is ready.
FairSpec == Spec /\ WF_vars(Watcher) /\ SF_vars(Stop)

-----------------------------------------------------------------------------
(* Properties.                                                             *)

\* Every variable holds a value of its type, and the caller knows the config
\* that the watcher compares new ones with.
TypeOK ==
    /\ content \in Contents /\ stamp \in Stamps /\ writes \in 0..MaxWrites
    /\ pc \in {"stat", "read", "record", "add", "wait", "done"}
    /\ mode \in {"start", "notify", "poll"} /\ force \in BOOLEAN
    /\ seen \in Stamps /\ got \in Contents
    /\ meta \in {<<>>} \cup {<<s>> : s \in Stamps}
    /\ config \in {<<>>} \cup {<<c>> : c \in Configs}
    /\ heard = config
    /\ events \in 0..MaxEvents /\ cancelled \in BOOLEAN /\ missed \in BOOLEAN

\* A write is never forgotten: while the watcher waits, an event or the recorded
\* metadata will tell of a valid config it does not know of, although other
\* processes write between the stat, the read and the end of a refresh and
\* events give way to polling at any point - unless the write came between the
\* baseline and Add, or hid behind an unchanged stamp when no event tells of it.
NoSilentWrite ==
    (pc = "wait" /\ Unknown /\ ~missed)
        => events > 0 \/ (mode = "poll" /\ meta # <<stamp>>)

\* When the file comes to rest with a valid config, the caller comes to know
\* it, whatever mix of events, errors and polling there was - unless neither an
\* event nor the metadata tells of it (missed).
Converges ==
    \A c \in Configs :
        <>[](content = c /\ ~cancelled) => <>[](heard = <<c>> \/ missed)

\* Watch returns once its context is cancelled, in either loop.
Stops == cancelled ~> pc = "done"

\* "When the parsed GatewayPortConfig differs from the last valid one after the
\* file changed, the callback is called": while fsnotify works, a change from a
\* valid baseline to another valid config reaches the caller.
AlwaysConverges ==
    \A b \in Configs : \A c \in Configs \ {b} :
        (content = b /\ [](mode # "poll") /\ <>[](content = c /\ ~cancelled))
            => <>(heard = <<c>>)

=============================================================================
