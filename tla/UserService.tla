----------------------------- MODULE UserService -----------------------------
(***************************************************************************)
(* The client of user-service (external/user_service.go): GetPublicKey,    *)
(* which keeps the key last seen, and ParseToken, which keeps refusals.    *)
(* Both run in any number of goroutines; the key and the time it was       *)
(* fetched are package variables nobody locks.  Which key it is, and which *)
(* token, is left out: what matters is whether there is one, and what user-*)
(* service holds the token for.                                            *)
(***************************************************************************)
EXTENDS Naturals

CONSTANTS
    Callers,   \* goroutines
    MaxCalls,  \* bound: calls of GetPublicKey and ParseToken
    Holds      \* user-service can be held still (stopped, its socket open)

VARIABLES
    svc,       \* user-service: up, down, held
    token,     \* what a token is to user-service: valid, expired, revoked
    key,       \* cachedPublicKey is not nil
    recent,    \* lastUpdate is less than ten seconds ago
    refusal,   \* invalidParseTokenCache, for the token: none, or the sentinel
    call,      \* the call each goroutine is in, and its answer
    calls      \* calls made

service  == <<svc, token>>
cache    == <<key, recent, refusal>>
userVars == <<service, cache, call, calls>>

\* pc: where the call is; ret: the answer; knew, was: history, the key and the
\* token when the call began.
NoCall == [pc |-> "idle", ret |-> "none", knew |-> FALSE, was |-> "valid"]

UserInit ==
    /\ svc \in {"up", "down"} /\ token = "valid"
    /\ key = FALSE /\ recent = FALSE /\ refusal = "none"
    /\ call = [c \in Callers |-> NoCall] /\ calls = 0

At(c, l) == call[c].pc = l

Goto(c, l) == call' = [call EXCEPT ![c].pc = l]

Return(c, r) == call' = [call EXCEPT ![c].pc = "returned", ![c].ret = r]

-----------------------------------------------------------------------------
(* user-service and time.                                                  *)

Start == /\ svc = "down"
         /\ svc' = "up"
         /\ UNCHANGED <<token, cache, call, calls>>

\* Its connections die with it.
Die == /\ svc # "down"
       /\ svc' = "down"
       /\ call' = [c \in Callers |-> IF At(c, "sent") THEN [call[c] EXCEPT !.pc = "failed"]
                                                    ELSE call[c]]
       /\ UNCHANGED <<token, cache, calls>>

Hold == /\ Holds /\ svc = "up"
        /\ svc' = "held"
        /\ UNCHANGED <<token, cache, call, calls>>

Resume == /\ svc = "held"
          /\ svc' = "up"
          /\ UNCHANGED <<token, cache, call, calls>>

TokenEnds == /\ token = "valid"
             /\ token' \in {"expired", "revoked"}
             /\ UNCHANGED <<svc, cache, call, calls>>

\* Ten seconds pass since the last fetch.
Age == /\ recent
       /\ recent' = FALSE
       /\ UNCHANGED <<service, key, refusal, call, calls>>

\* A minute passes since the refusal, or 16 others push it out.
Forgotten == /\ refusal # "none"
             /\ refusal' = "none"
             /\ UNCHANGED <<service, key, recent, call, calls>>

-----------------------------------------------------------------------------
(* GetPublicKey.                                                           *)

\* A key was seen: only then is the time of the last fetch read.
GetPublicKey(c) ==
    /\ At(c, "idle") /\ calls < MaxCalls
    /\ calls' = calls + 1
    /\ call' = [call EXCEPT ![c] = [NoCall EXCEPT !.pc = IF key THEN "age" ELSE "fetch",
                                                  !.knew = key]]
    /\ UNCHANGED <<service, cache>>

\* lastUpdate has three words: read while another goroutine writes it, it may
\* tell anything.
ReadAge(c) ==
    /\ At(c, "age")
    /\ \E r \in BOOLEAN :
           /\ r = recent \/ \E d \in Callers : At(d, "date")
           /\ Goto(c, IF r THEN "take" ELSE "fetch")
    /\ UNCHANGED <<service, cache, calls>>

\* fetchPublicKey: the address, the connection.  A service held still accepts.
Fetch(c) ==
    /\ At(c, "fetch")
    /\ Goto(c, IF svc = "down" THEN "failed" ELSE "sent")
    /\ UNCHANGED <<service, cache, calls>>

Answered(c) ==
    /\ At(c, "sent") /\ svc = "up"
    /\ Goto(c, "keep")
    /\ UNCHANGED <<service, cache, calls>>

\* The answer has no key: a status that is not 200, bad JSON, no keys, a
\* coordinate that does not decode.
FetchFails(c) ==
    /\ At(c, "sent") /\ svc = "up"
    /\ Goto(c, "failed")
    /\ UNCHANGED <<service, cache, calls>>

Keep(c) ==
    /\ At(c, "keep")
    /\ key' = TRUE
    /\ Goto(c, "date")
    /\ UNCHANGED <<service, recent, refusal, calls>>

Date(c) ==
    /\ At(c, "date")
    /\ recent' = TRUE
    /\ Goto(c, "take")
    /\ UNCHANGED <<service, key, refusal, calls>>

\* Mutant: the error of the fetch is the answer.
FetchedFails(c) ==
    /\ At(c, "failed")
    /\ Return(c, "error")
    /\ UNCHANGED <<service, cache, calls>>

\* Mutant: a caller with no key to fall back on asks again.
FailedRetries(c) ==
    /\ At(c, "failed")
    /\ Goto(c, IF key THEN "take" ELSE "fetch")
    /\ UNCHANGED <<service, cache, calls>>

\* The key last seen goes on validating.
Failed(c) ==
    /\ At(c, "failed")
    /\ IF key THEN Goto(c, "take") ELSE Return(c, "error")
    /\ UNCHANGED <<service, cache, calls>>

\* The package variable is read again to be returned.
Take(c) ==
    /\ At(c, "take")
    /\ Return(c, IF key THEN "key" ELSE "nil")
    /\ UNCHANGED <<service, cache, calls>>

-----------------------------------------------------------------------------
(* ParseToken.                                                             *)

ParseToken(c) ==
    /\ At(c, "idle") /\ calls < MaxCalls
    /\ calls' = calls + 1
    /\ call' = [call EXCEPT ![c] =
                  [NoCall EXCEPT !.pc = IF refusal # "none" THEN "returned" ELSE "post",
                                 !.ret = refusal, !.was = token]]
    /\ UNCHANGED <<service, cache>>

\* A status of 401 and "valid": false are one refusal.  Of a token whose time is
\* over user-service may say either.
Parsed(c) ==
    /\ At(c, "post") /\ svc = "up"
    /\ \E a \in {"valid", "invalid"} :
           /\ token = "valid" => a = "valid"
           /\ token = "revoked" => a = "invalid"
           /\ call' = [call EXCEPT ![c].pc = "judge", ![c].ret = a]
    /\ UNCHANGED <<service, cache, calls>>

\* Nobody listens, thirty seconds pass, another status, bad JSON.
ParseFails(c) ==
    /\ At(c, "post")
    /\ Return(c, "error")
    /\ UNCHANGED <<service, cache, calls>>

\* isExpired: an answer of valid is held against the clock.
Judged(c) == IF call[c].ret = "valid" /\ token = "expired" THEN "expired" ELSE call[c].ret

\* Mutant: an acceptance is kept like a refusal.
JudgeKeeps(c) ==
    /\ At(c, "judge")
    /\ Return(c, Judged(c))
    /\ refusal' = Judged(c)
    /\ UNCHANGED <<service, key, recent, calls>>

\* A refusal is kept for a minute, an acceptance is not.
Judge(c) ==
    /\ At(c, "judge")
    /\ Return(c, Judged(c))
    /\ refusal' = IF Judged(c) = "valid" THEN refusal ELSE Judged(c)
    /\ UNCHANGED <<service, key, recent, calls>>

\* The caller goes on.
Done(c) ==
    /\ At(c, "returned")
    /\ call' = [call EXCEPT ![c] = NoCall]
    /\ UNCHANGED <<service, cache, calls>>

-----------------------------------------------------------------------------
ServiceNext == Start \/ Die \/ Hold \/ Resume \/ TokenEnds \/ Age \/ Forgotten

\* A call moves on; what it waits for is the service's answer.
Progress(c) ==
    \/ ReadAge(c) \/ Fetch(c) \/ Answered(c) \/ FetchFails(c) \/ Keep(c) \/ Date(c)
    \/ Failed(c) \/ Take(c) \/ Parsed(c) \/ ParseFails(c) \/ Judge(c)

UserNext == \/ ServiceNext
            \/ \E c \in Callers : GetPublicKey(c) \/ ParseToken(c) \/ Progress(c) \/ Done(c)

\* Goroutines run, and a service that is up again and again answers in the end.
\* Nothing makes a service start or be released.
UserFairness == \A c \in Callers : SF_userVars(Progress(c))

UserSpec == UserInit /\ [][UserNext]_userVars /\ UserFairness

-----------------------------------------------------------------------------
(* Properties.                                                             *)

\* "the key last seen goes on validating": a call of GetPublicKey that begins
\* when a key has been seen never ends in an error, and no call returns a nil
\* key, whatever user-service does meanwhile and whoever else fetches.
KeepsValidating ==
    \A c \in Callers :
        At(c, "returned") => /\ call[c].ret # "nil"
                             /\ call[c].knew => call[c].ret = "key"

\* A token that user-service did not hold for valid when ParseToken was called
\* is never accepted, and one it still holds for valid is never refused, whether
\* the answer is its own or one kept from another call.
Faithful ==
    \A c \in Callers :
        At(c, "returned") => /\ call[c].ret = "valid" => call[c].was = "valid"
                             /\ call[c].ret \in {"invalid", "expired"} => token # "valid"

\* Every call returns, through deaths, restarts and answers that are not keys,
\* unless user-service is held still for good.
UserReturns ==
    []<>(svc # "held") => \A c \in Callers : ~At(c, "idle") ~> At(c, "returned")

\* "When user-service does not answer -- restarting, or held still for a backup
\* of the box -- the key last seen goes on validating" (user_service.go:62).
SeenKeyServes ==
    \A c \in Callers : (call[c].knew /\ ~At(c, "returned")) ~> At(c, "returned")
=============================================================================
