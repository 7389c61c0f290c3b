--------------------------- MODULE ServiceClient ---------------------------
(***************************************************************************)
(* The calls that one service makes of another (package external, utils/   *)
(* http, pkg/mod_management/sdk.go) while the other one, the gateway say,  *)
(* stops and starts again: at another address, with a new secret.  An      *)
(* address is read from a file, once and held or at every call; a request  *)
(* carries the secret of the runtime path; a request or its answer may be  *)
(* lost or too late.                                                       *)
(*                                                                         *)
(* Data.  An address, a secret and a port of the dashboard are numbers; of *)
(* an answer there is its status and, of the list of modules, whether the  *)
(* module is in it.  Every host here is loopback, and no request has an    *)
(* Authorization of its own.                                               *)
(***************************************************************************)
EXTENDS Naturals

CONSTANTS
    Clients,     \* goroutines, each with the service objects it made
    Operations,  \* the names of what they call
    MaxTries,    \* retries of the address file (10)
    MaxStarts,   \* bound: starts of the service
    MaxCalls     \* bound: calls

VARIABLES
    up, place,   \* the service runs; the address it last had
    address,     \* the address file, 0 none
    secret,      \* internal.secret, 0 for none and for an empty file
    port,        \* the dashboard's port
    module,      \* the module is installed
    starts,      \* starts begun: each writes a secret, then an address
    rewrites,    \* changes of internal.secret (history)
    req,         \* per client: the call and the request in hand
    made         \* calls made

cltVars == <<up, place, address, secret, port, module, starts, rewrites, req, made>>
service == <<up, place, address, secret, port, module, starts, rewrites>>

\* held: the address of the service object; body: of the answer; did: its request
\* was executed; since: rewrites when it was built; with: the module was installed
\* at some time during the call (did, since, with: history)
Idle == [pc |-> "idle", op |-> "", ask |-> "", to |-> 0, auth |-> 0, tries |-> 0,
         held |-> 0, status |-> "", body |-> 0, ret |-> "", did |-> FALSE, since |-> 0, with |-> FALSE]

Init ==
    /\ up = FALSE /\ place = 0 /\ address = 0 /\ secret = 0 /\ port = 80 /\ module = FALSE
    /\ starts = 0 /\ rewrites = 0 /\ req = [c \in Clients |-> Idle] /\ made = 0

-----------------------------------------------------------------------------
(* The calls: the address is held by a service object, or read from the   *)
(* file every time, or a socket's path; whether the status is looked at.   *)

CreateRoute          == [name |-> "CreateRoute",   at |-> "object", checks |-> TRUE]
ChangePort           == [name |-> "ChangePort",    at |-> "object", checks |-> TRUE]
GetPort              == [name |-> "GetPort",       at |-> "object", checks |-> TRUE]
GetAppInfo           == [name |-> "GetAppInfo",    at |-> "object", checks |-> TRUE]
PutAppStatus         == [name |-> "PutAppStatus",  at |-> "object", checks |-> TRUE]
SendNotify           == [name |-> "SendNotify",    at |-> "file",   checks |-> TRUE]
DeleteShare          == [name |-> "DeleteShare",   at |-> "file",   checks |-> TRUE]
PublishEventInSocket == [name |-> "Publish",       at |-> "socket", checks |-> FALSE]
RequireModule        == [name |-> "RequireModule", at |-> "object", checks |-> TRUE]

Interface == {CreateRoute, ChangePort, GetPort, GetAppInfo, PutAppStatus, SendNotify, DeleteShare,
              PublishEventInSocket, RequireModule}
Op(c) == CHOOSE o \in Interface : o.name = req[c].op

-----------------------------------------------------------------------------
(* The service.                                                            *)

Stops == /\ up /\ up' = FALSE
         /\ UNCHANGED <<place, address, secret, port, module, starts, rewrites, req, made>>

\* WriteInternalSecret: WriteFile empties the file and then fills it.
EmptySecret ==
    /\ ~up /\ starts < MaxStarts /\ secret = starts
    /\ starts' = starts + 1 /\ secret' = 0 /\ rewrites' = rewrites + 1
    /\ UNCHANGED <<up, place, address, port, module, req, made>>
WriteInternalSecret ==
    /\ secret = 0 /\ starts > 0 /\ secret' = starts /\ rewrites' = rewrites + 1
    /\ UNCHANGED <<up, place, address, port, module, starts, req, made>>

\* It listens somewhere and writes the file.
Listens == /\ ~up /\ secret = starts /\ place < starts
           /\ up' = TRUE /\ place' = starts
           /\ UNCHANGED <<address, secret, port, module, starts, rewrites, req, made>>
WriteAddress == /\ up /\ address # place /\ address' = place
                /\ UNCHANGED <<up, place, secret, port, module, starts, rewrites, req, made>>

\* Someone else installs or removes the module.
ModuleChanges ==
    /\ module' = ~module
    /\ req' = [c \in Clients |-> [req[c] EXCEPT !.with = @ \/ module']]
    /\ UNCHANGED <<up, place, address, secret, port, starts, rewrites, made>>

-----------------------------------------------------------------------------
(* The client.                                                             *)

Put(c, r) == req' = [req EXCEPT ![c] = r]
Fails(c) == Put(c, [req[c] EXCEPT !.pc = "returned", !.ret = "error"])
Asks(c, what, to) == Put(c, [req[c] EXCEPT !.pc = "build", !.ask = what, !.to = to])

\* A service object is made when there is none; one that is there is used.
Call(c, op) ==
    /\ op.name \in Operations
    /\ req[c].pc = "idle" /\ made < MaxCalls /\ made' = made + 1
    /\ Put(c, [req[c] EXCEPT !.op = op.name, !.tries = MaxTries, !.with = module, !.did = FALSE,
                  !.ask = "op", !.status = "", !.body = 0, !.to = req[c].held,
                  !.pc = IF op.at = "file" THEN "address"
                         ELSE IF op.at = "object" /\ (req[c].held = 0 \/ op = RequireModule)
                         THEN "wait" ELSE "build"])
    /\ UNCHANGED service

\* The loop of NewManagementService and NewAppManageService.
NewManagementService(c) ==
    /\ req[c].pc = "wait"
    /\ \/ (address # 0 \/ req[c].tries = 0) /\ Put(c, [req[c] EXCEPT !.pc = "address"])
       \/ /\ address = 0 /\ req[c].tries > 0
          /\ Put(c, [req[c] EXCEPT !.tries = @ - 1])
    /\ UNCHANGED <<service, made>>

\* getAddress, and ping when a service object is made.
getAddress(c) ==
    /\ req[c].pc = "address"
    /\ IF address = 0 THEN Fails(c) ELSE Asks(c, IF Op(c).at = "object" THEN "ping" ELSE "op", address)
    /\ UNCHANGED <<service, made>>

\* Mutant: the secret is read once.
readOnce(c) == IF req[c].auth # 0 THEN req[c].auth ELSE secret

\* useInternalSecret: the file is read at every request; without a secret the
\* request has no header.
readInternalSecret(c) == secret

\* The calls of RequireModule to the dashboard's port, of a generated client.
Generated(c) == req[c].ask \in {"list", "install"}

\* Do: addInternalAuthorization, and the request is on its way.  Neither the
\* generated client nor the one of the socket has the secret.
Do(c) ==
    LET auth == IF Generated(c) \/ Op(c).at = "socket" THEN 0 ELSE readInternalSecret(c)
    IN  /\ req[c].pc = "build"
        /\ Put(c, [req[c] EXCEPT !.pc = "sent", !.auth = auth,
                                 !.since = IF auth = 0 THEN 0 ELSE rewrites])
        /\ UNCHANGED <<service, made>>

\* No answer, or not the whole of it: RequireModule then takes port 80.
NoAnswer(c) ==
    /\ req[c].pc \in {"sent", "status"}
    /\ IF req[c].ask = "port" THEN Asks(c, "list", 80) ELSE Fails(c)
    /\ UNCHANGED <<service, made>>

\* IsInternalRequest, with the secret of the file by now.
IsInternalRequest(c) == secret # 0 /\ req[c].auth = secret

Reaches(c) == /\ req[c].pc = "sent" /\ up
              /\ CASE Generated(c)            -> req[c].to = port
                   [] Op(c).at = "socket"     -> TRUE
                   [] OTHER                   -> req[c].to = place

\* The request reaches the service, which refuses it, fails it or executes it.
Arrives(c) ==
    /\ Reaches(c)
    /\ \E s \in {"refused", "failed", "ok"} :
          /\ s = "refused" <=> /\ req[c].ask \in {"op", "port"} /\ Op(c).at # "socket"
                               /\ ~IsInternalRequest(c)
          /\ module' = (module \/ (s = "ok" /\ req[c].ask = "install"))
          /\ port' \in {port} \cup (IF s = "ok" /\ req[c].op = "ChangePort" /\ req[c].ask = "op"
                                     THEN {81} ELSE {})
          /\ req' = [d \in Clients |-> [req[d] EXCEPT
                        !.with = @ \/ module',
                        !.pc = IF d = c THEN "status" ELSE @,
                        !.status = IF d = c THEN s ELSE @,
                        !.body = IF d # c THEN @ ELSE IF req[c].ask = "port" THEN port
                                 ELSE IF module THEN 1 ELSE 0,
                        !.did = IF d = c THEN s = "ok" ELSE @]]
    /\ UNCHANGED <<up, place, address, secret, starts, rewrites, made>>

\* The status of the answer is the one expected.
Expected(c) == req[c].status = "ok" \/ (req[c].ask = "op" /\ ~Op(c).checks)

\* What comes after an answer: of ping the call it was made for, or in
\* RequireModule the port, the modules installed, and the installation.
Answered(c) ==
    /\ req[c].pc = "status"
    /\ IF ~Expected(c) THEN IF req[c].ask = "port" THEN Asks(c, "list", 80) ELSE Fails(c)
       ELSE CASE req[c].ask = "ping" ->
                   IF Op(c) = RequireModule THEN Asks(c, "port", req[c].to)
                   ELSE Put(c, [req[c] EXCEPT !.pc = "build", !.ask = "op", !.held = req[c].to])
              [] req[c].ask = "port" -> Asks(c, "list", req[c].body)
              [] req[c].ask = "list" /\ req[c].body = 0 -> Asks(c, "install", req[c].to)
              [] OTHER -> Put(c, [req[c] EXCEPT !.pc = "returned", !.ret = "ok"])
    /\ UNCHANGED <<service, made>>

Done(c) == /\ req[c].pc = "returned" /\ Put(c, [req[c] EXCEPT !.pc = "idle"])
           /\ UNCHANGED <<service, made>>

\* What comes by itself: nobody has to answer, for Do has a timeout, and the
\* socket the caller's context; the generated client waits for ever.
Proceeds(c) == \/ NewManagementService(c) \/ getAddress(c) \/ Do(c) \/ Answered(c)
               \/ ~Generated(c) /\ NoAnswer(c)

Next == \/ Stops \/ EmptySecret \/ WriteInternalSecret \/ Listens \/ WriteAddress \/ ModuleChanges
        \/ \E c \in Clients :
              \/ Proceeds(c) \/ NoAnswer(c) \/ Arrives(c) \/ Done(c)
              \/ \E op \in Interface : Call(c, op)

-----------------------------------------------------------------------------
(* Properties.                                                             *)

\* Whatever restarts and losses meet a call: one that succeeds was executed, and
\* RequireModule succeeds only if the module was installed at some time during
\* the call.  "A secret rewritten by a restarted gateway is picked up without
\* anybody restarting" (internal_auth.go:93): a request is refused only when the
\* secret was written anew, or not there yet, since it was built.
ClientTrue ==
    \A c \in Clients :
        /\ req[c].pc = "returned" /\ req[c].ret = "ok" =>
              /\ req[c].op \notin {"Publish", "RequireModule"} => req[c].did
              /\ req[c].op = "RequireModule" => req[c].with
        /\ req[c].pc = "status" /\ req[c].status = "refused" /\ req[c].since # 0
              => rewrites > req[c].since

\* Every call returns, whoever stops, starts or hangs, but for RequireModule
\* when it waits for the list of modules or an installation.
ClientsReturn == \A c \in Clients :
    (req[c].pc # "idle") ~> (req[c].pc = "returned" \/ Generated(c))

=============================================================================
