----------------------------- MODULE MCExternal -----------------------------
(***************************************************************************)
(* What talks to the outside, in one run: the watcher of gateway.ini, the  *)
(* client of user-service, the clients of the other services, the calls of *)
(* systemd.  They share nothing, so a behaviour is about one of them,      *)
(* named by part, and the others stay where they start.                    *)
(***************************************************************************)
EXTENDS GatewayPortWatcher, UserService

CONSTANTS
    Clients, Operations, MaxTries, MaxStarts,   \* of ServiceClient
    MaxClientCalls,                             \* bound: its calls
    Users, MaxUses                              \* of Units

\* retry, the count of NewManagementService, and the bounds are numbers.
ASSUME ClientBounds == MaxTries \in Nat /\ MaxStarts \in Nat /\ MaxClientCalls \in Nat

VARIABLES
    part,
    up, place, address, secret, port, module, starts, rewrites, req, made,
    enabled, active, use, job, uses

Other == INSTANCE ServiceClient WITH MaxCalls <- MaxClientCalls
Unit  == INSTANCE Units

cltVars == <<up, place, address, secret, port, module, starts, rewrites, req, made>>
untVars == <<enabled, active, use, job, uses>>
all     == <<part, vars, userVars, cltVars, untVars>>

\* A part that does not run begins in one state.
MCInit ==
    /\ part \in {"watcher", "user", "client", "unit"}
    /\ Init /\ UserInit /\ Other!Init /\ Unit!Init
    /\ part # "watcher" => content = Absent /\ stamp = (CHOOSE s \in Stamps : TRUE)
    /\ part # "user" => svc = "down"
    /\ part # "unit" => enabled /\ active

Watching(A) == part = "watcher" /\ A /\ UNCHANGED <<part, userVars, cltVars, untVars>>
Serving(A)  == part = "user" /\ A /\ UNCHANGED <<part, vars, cltVars, untVars>>
Asking(A)   == part = "client" /\ A /\ UNCHANGED <<part, vars, userVars, untVars>>
Ordering(A) == part = "unit" /\ A /\ UNCHANGED <<part, vars, userVars, cltVars>>

MCNext == Watching(Next) \/ Serving(UserNext) \/ Asking(Other!Next) \/ Ordering(Unit!Next)

\* The fairness of each module; the requests of Do have a timeout.
MCSpec ==
    /\ MCInit /\ [][MCNext]_all
    /\ WF_all(Watching(Watcher)) /\ SF_all(Watching(Stop))
    /\ \A c \in Callers : SF_all(Serving(Progress(c)))
    /\ \A c \in Clients : WF_all(Asking(Other!Proceeds(c)))

-----------------------------------------------------------------------------
(* The properties of the parts, under names of their own.                  *)

\* A call of another service that succeeds was executed, and a secret written
\* anew is picked up: see ServiceClient.
ClientTrue == Other!ClientTrue

\* What a call of systemd tells of the unit was so during the call: see Units.
UnitsTrue == Unit!UnitsTrue

\* Watch returns once its context is cancelled, in either loop; GetPublicKey and
\* ParseToken return, unless user-service is held for good; the calls of other
\* services return, whoever stops, starts or does not answer.
CallsReturn ==
    /\ part = "watcher" => Stops
    /\ part = "user" => UserReturns
    /\ part = "client" => Other!ClientsReturn
=============================================================================
