---------------------------- MODULE ExternalProofs ----------------------------
(***************************************************************************)
(* What the code promises of what is outside of it, for any number of      *)
(* clients, callers, files and restarts: the watcher of gateway.ini        *)
(* forgets no write; the key of user-service goes on validating, and       *)
(* ParseToken is faithful; what a call of systemd or of another service    *)
(* tells is so.  Each part has an inductive invariant of its own.          *)
(***************************************************************************)
EXTENDS MCExternal, TLAPS

-----------------------------------------------------------------------------
(* The watcher of gateway.ini.                                             *)

\* Where the watcher is in each mode: the baseline is read by force, and so is
\* the file after an event; events come in notify mode only.
Places ==
    /\ mode = "start" => pc \in {"stat", "read", "record", "add"}
    /\ pc = "add" => mode = "start"
    /\ pc = "stat" /\ mode # "poll" => force
    /\ mode # "notify" => events = 0

\* A write since the file was last read will be told of, wherever the refresh is:
\* by an event, or else by a stamp that is neither the one just taken nor, when
\* the refresh is over, the one recorded.
Told ==
    /\ pc = "record" /\ content # got /\ ~missed =>
           IF mode = "notify" THEN events > 0 ELSE seen # stamp
    /\ Unknown /\ ~missed =>
           /\ pc = "add" => meta # <<stamp>>
           /\ pc = "stat" /\ mode = "poll" /\ ~force => meta # <<stamp>>

\* What a wait at the select promises, NoSilentWrite, with what it rests on.
WatchInv == TypeOK /\ Places /\ Told /\ NoSilentWrite

\* Init establishes it: nothing is read, and a baseline is about to be.
LEMMA WatchInitInv == Init => WatchInv
<1> SUFFICES ASSUME Init PROVE WatchInv
    OBVIOUS
<1>1. TypeOK
  <2>1. 0 \in 0..MaxWrites /\ 0 \in 0..MaxEvents
      BY WatchBounds
  <2>2. QED
      BY <2>1, Zenon DEF Init, TypeOK, Contents
<1>2. Places /\ Told /\ NoSilentWrite
    BY DEF Init, Places, Told, NoSilentWrite
<1>3. QED
    BY <1>1, <1>2 DEF WatchInv

\* A write of another process adds an event, or leaves a stamp the watcher does
\* not hold, or is counted as missed.
LEMMA WriteInv ==
    ASSUME WatchInv, NEW c \in Contents, NEW s \in Stamps, Write(c, s)
    PROVE  WatchInv'
<1> USE WatchBounds DEF WatchInv
<1>1. TypeOK'
    BY DEF Write, TypeOK, state
<1>2. Places'
    BY DEF Write, Places, TypeOK, state
<1>3. CASE mode = "notify"
  <2>1. events' > 0
      BY <1>3 DEF Write, TypeOK
  <2>2. Told' /\ NoSilentWrite'
      BY <1>3, <2>1 DEF Write, Told, NoSilentWrite, Places
  <2>3. QED
      BY <1>1, <1>2, <2>2
<1>4. CASE mode # "notify"
  <2>1. ~missed' => meta # <<stamp'>> /\ (pc = "record" => seen # stamp')
      BY <1>4 DEF Write, Held
  <2>2. mode' = mode /\ pc' = pc /\ meta' = meta /\ seen' = seen
      BY DEF Write, state
  <2>3. Told'
      BY <1>4, <2>1, <2>2 DEF Told
  <2>4. NoSilentWrite'
    <3>1. pc = "wait" => mode = "poll"
        BY <1>4 DEF Places, TypeOK
    <3>2. QED
        BY <2>1, <2>2, <3>1 DEF NoSilentWrite
  <2>5. QED
      BY <1>1, <1>2, <2>3, <2>4
<1>5. QED
    BY <1>3, <1>4

\* Every step of the watcher keeps it.
LEMMA WatcherInv ==
    ASSUME WatchInv, Watcher \/ Cancel \/ NotifyError
    PROVE  WatchInv'
<1> USE WatchBounds, ContentsAssumption
     DEF WatchInv, TypeOK, Places, Told, NoSilentWrite, Unknown, Contents, file, state
<1>1. CASE StatAbsent
    BY <1>1 DEF StatAbsent, Refreshed
<1>2. CASE StatUnchanged
    BY <1>2 DEF StatUnchanged, Refreshed
<1>3. CASE StatChanged
    BY <1>3 DEF StatChanged
<1>4. CASE ReadFile
    BY <1>4 DEF ReadFile
<1>5. CASE ReadFailed
    BY <1>5 DEF ReadFailed, Refreshed, Recorded
<1>6. CASE Record
    BY <1>6 DEF Record, Refreshed, Recorded, Called
<1>7. CASE Add
    BY <1>7 DEF Add
<1>8. CASE AddFails
    BY <1>8 DEF AddFails
<1>9. CASE OnEvent
    BY <1>9 DEF OnEvent, Refresh
<1>10. CASE Poll
  <2>1. Unknown /\ ~missed => meta # <<stamp>>
      BY <1>10 DEF Poll
  <2>2. QED
      BY <1>10, <2>1 DEF Poll, Refresh
<1>11. CASE Stop
    BY <1>11 DEF Stop
<1>12. CASE Cancel
    BY <1>12 DEF Cancel
<1>13. CASE NotifyError
  <2>1. TypeOK' /\ Places' /\ Told'
      BY <1>13 DEF NotifyError
  <2>2. NoSilentWrite'
      BY <1>13 DEF NotifyError
  <2>3. QED
      BY <2>1, <2>2
<1>14. QED
    BY <1>1, <1>2, <1>3, <1>4, <1>5, <1>6, <1>7, <1>8, <1>9, <1>10, <1>11, <1>12, <1>13 DEF Watcher

\* The inductive invariant of the watcher.
THEOREM WatcherInvariant == Spec => []WatchInv
<1>1. WatchInv /\ [Next]_vars => WatchInv'
  <2> SUFFICES ASSUME WatchInv, [Next]_vars PROVE WatchInv'
      OBVIOUS
  <2>1. CASE \E c \in Contents, s \in Stamps : Write(c, s)
      BY <2>1, WriteInv
  <2>2. CASE Watcher \/ Cancel \/ NotifyError
      BY <2>2, WatcherInv
  <2>3. CASE Returned \/ UNCHANGED vars
      BY <2>3 DEF Returned, vars, file, state, WatchInv, TypeOK, Places, Told, NoSilentWrite,
                  Unknown, Contents
  <2>4. QED
      BY <2>1, <2>2, <2>3 DEF Next
<1>2. QED
    BY <1>1, WatchInitInv, PTL DEF Spec

\* No write of gateway.ini is forgotten: while Watch waits, an event or the
\* recorded metadata tells of a valid config it does not know of, whenever the
\* file was written, unless neither could tell of that write (missed).
THEOREM NoWriteForgotten == Spec => []NoSilentWrite
<1>1. WatchInv => NoSilentWrite
    BY DEF WatchInv
<1>2. QED
    BY <1>1, WatcherInvariant, PTL

-----------------------------------------------------------------------------
(* The client of user-service: goroutines that race on its caches.         *)

\* The variables of a goroutine and of the caches, the bound of calls aside.
CallType ==
    [pc   : {"idle", "age", "take", "fetch", "sent", "keep", "date", "failed",
             "post", "judge", "returned"},
     ret  : {"none", "error", "key", "nil", "valid", "invalid", "expired"},
     knew : BOOLEAN,
     was  : {"valid", "expired", "revoked"}]

UserTyped ==
    /\ svc \in {"up", "down", "held"} /\ token \in {"valid", "expired", "revoked"}
    /\ key \in BOOLEAN /\ recent \in BOOLEAN
    /\ refusal \in {"none", "invalid", "expired"}
    /\ call \in [Callers -> CallType]

\* What holds of a call r while the key is k: a key is never taken away, so that
\* where the code counts on one there is one.
KeyKept(r, k) ==
    /\ r.pc \in {"age", "date", "take"} \/ r.knew => k
    /\ r.pc \in {"post", "judge"} => ~r.knew
    /\ r.pc = "returned" => r.ret # "nil" /\ (r.knew => r.ret = "key")

\* What holds of a call r while the token is t: a token that ended stays ended,
\* and so an answer may be kept.
AnswerTrue(r, t) ==
    /\ t = "valid" => r.was = "valid"
    /\ r.pc = "judge" =>
         /\ r.ret \in {"valid", "invalid"}
         /\ r.ret = "invalid" => t # "valid"
         /\ r.ret = "valid" /\ t # "expired" => r.was = "valid"
    /\ r.pc = "returned" =>
         /\ r.ret = "valid" => r.was = "valid"
         /\ r.ret \in {"invalid", "expired"} => t # "valid"

UserInv ==
    /\ UserTyped
    /\ refusal # "none" => token # "valid"
    /\ \A c \in Callers : KeyKept(call[c], key) /\ AnswerTrue(call[c], token)

\* Init establishes the invariant: no call, no key, no refusal.
LEMMA UserInitInv == UserInit => UserInv
<1> SUFFICES ASSUME UserInit PROVE UserInv
    OBVIOUS
<1>1. NoCall \in CallType
    BY DEF NoCall, CallType
<1>2. UserTyped
    BY <1>1 DEF UserInit, UserTyped
<1>3. KeyKept(NoCall, FALSE) /\ AnswerTrue(NoCall, "valid")
    BY DEF KeyKept, AnswerTrue, NoCall
<1>4. \A c \in Callers : call[c] = NoCall
    BY DEF UserInit
<1>5. QED
    BY <1>2, <1>3, <1>4 DEF UserInit, UserInv

\* A step that gives one call its next record, and takes no key away, keeps the
\* invariant if that record does.
LEMMA CallMoves ==
    ASSUME UserInv, NEW c \in Callers, NEW r \in CallType,
           call' = [call EXCEPT ![c] = r],
           svc' = svc, token' = token,
           key' \in BOOLEAN, key => key',
           recent' \in BOOLEAN,
           refusal' \in {"none", "invalid", "expired"},
           refusal' # "none" => token # "valid",
           KeyKept(r, key'), AnswerTrue(r, token)
    PROVE  UserInv'
<1>1. UserTyped'
    BY DEF UserInv, UserTyped
<1>2. ASSUME NEW d \in Callers
      PROVE  KeyKept(call'[d], key') /\ AnswerTrue(call'[d], token')
  <2>1. CASE d = c
      BY <2>1 DEF UserInv, UserTyped
  <2>2. CASE d # c
    <3>1. call'[d] = call[d]
        BY <2>2 DEF UserInv, UserTyped
    <3>2. KeyKept(call[d], key) /\ AnswerTrue(call[d], token)
        BY DEF UserInv
    <3>3. KeyKept(call[d], key')
        BY <3>2 DEF KeyKept
    <3>4. QED
        BY <3>1, <3>2, <3>3
  <2>3. QED
      BY <2>1, <2>2
<1>3. QED
    BY <1>1, <1>2 DEF UserInv

\* What happens around the calls keeps it: a death fails what was sent, a token
\* that ends only makes refusals true.
LEMMA ServiceInv == UserInv /\ ServiceNext => UserInv'
<1> SUFFICES ASSUME UserInv, ServiceNext PROVE UserInv'
    OBVIOUS
<1> USE DEF UserInv, UserTyped, CallType, KeyKept, AnswerTrue, At
<1>1. CASE Start
    BY <1>1 DEF Start, cache
<1>2. CASE Die
    BY <1>2 DEF Die, cache
<1>3. CASE Hold
    BY <1>3 DEF Hold, cache
<1>4. CASE Resume
    BY <1>4 DEF Resume, cache
<1>5. CASE TokenEnds
    BY <1>5 DEF TokenEnds, cache
<1>6. CASE Age
    BY <1>6 DEF Age, service
<1>7. CASE Forgotten
    BY <1>7 DEF Forgotten, service
<1>8. QED
    BY <1>1, <1>2, <1>3, <1>4, <1>5, <1>6, <1>7 DEF ServiceNext

\* A step of GetPublicKey keeps it.
LEMMA KeyInv ==
    ASSUME UserInv, NEW c \in Callers,
           \/ GetPublicKey(c) \/ ReadAge(c) \/ Fetch(c) \/ Answered(c) \/ FetchFails(c)
           \/ Keep(c) \/ Date(c) \/ Failed(c) \/ Take(c)
    PROVE  UserInv'
<1> DEFINE To(l) == [call[c] EXCEPT !.pc = l]
           With(a) == [call[c] EXCEPT !.pc = "returned", !.ret = a]
<1>0. /\ UserTyped /\ call[c] \in CallType
      /\ KeyKept(call[c], key) /\ AnswerTrue(call[c], token)
      /\ refusal # "none" => token # "valid"
    BY DEF UserInv, UserTyped
<1> USE <1>0 DEF UserTyped, CallType, KeyKept, AnswerTrue, At, Goto, Return, service, cache
<1>1. CASE GetPublicKey(c)
  <2> DEFINE r == [NoCall EXCEPT !.pc = IF key THEN "age" ELSE "fetch", !.knew = key]
  <2>1. r \in CallType /\ KeyKept(r, key) /\ AnswerTrue(r, token)
      BY DEF NoCall
  <2>2. call' = [call EXCEPT ![c] = r] /\ UNCHANGED <<svc, token, key, recent, refusal>>
      BY <1>1 DEF GetPublicKey
  <2> HIDE DEF r
  <2>3. QED
      BY <2>1, <2>2, CallMoves
<1>2. CASE ReadAge(c)
  <2>1. PICK l \in {"take", "fetch"} : call' = [call EXCEPT ![c] = To(l)]
      BY <1>2 DEF ReadAge
  <2>2. To(l) \in CallType /\ KeyKept(To(l), key) /\ AnswerTrue(To(l), token)
      BY <1>2 DEF ReadAge
  <2>3. QED
      BY <1>2, <2>1, <2>2, CallMoves DEF ReadAge
<1>3. CASE Fetch(c)
  <2>1. PICK l \in {"failed", "sent"} : call' = [call EXCEPT ![c] = To(l)]
      BY <1>3 DEF Fetch
  <2>2. To(l) \in CallType /\ KeyKept(To(l), key) /\ AnswerTrue(To(l), token)
      BY <1>3 DEF Fetch
  <2>3. UNCHANGED <<svc, token, key, recent, refusal>>
      BY <1>3 DEF Fetch
  <2> HIDE DEF To
  <2>4. QED
      BY <2>1, <2>2, <2>3, CallMoves
<1>4. CASE Answered(c)
  <2>1. To("keep") \in CallType /\ KeyKept(To("keep"), key) /\ AnswerTrue(To("keep"), token)
      BY <1>4 DEF Answered
  <2>2. QED
      BY <1>4, <2>1, CallMoves DEF Answered
<1>5. CASE FetchFails(c)
  <2>1. To("failed") \in CallType /\ KeyKept(To("failed"), key) /\ AnswerTrue(To("failed"), token)
      BY <1>5 DEF FetchFails
  <2>2. QED
      BY <1>5, <2>1, CallMoves DEF FetchFails
<1>6. CASE Keep(c)
  <2>1. To("date") \in CallType /\ KeyKept(To("date"), TRUE) /\ AnswerTrue(To("date"), token)
      BY <1>6 DEF Keep
  <2>2. QED
      BY <1>6, <2>1, CallMoves DEF Keep
<1>7. CASE Date(c)
  <2>1. To("take") \in CallType /\ KeyKept(To("take"), key) /\ AnswerTrue(To("take"), token)
      BY <1>7 DEF Date
  <2>2. QED
      BY <1>7, <2>1, CallMoves DEF Date
<1>8. CASE Failed(c)
  <2>1. CASE key
    <3>1. To("take") \in CallType /\ KeyKept(To("take"), key) /\ AnswerTrue(To("take"), token)
        BY <1>8, <2>1 DEF Failed
    <3>2. QED
        BY <1>8, <2>1, <3>1, CallMoves DEF Failed
  <2>2. CASE ~key
    <3>1. With("error") \in CallType /\ KeyKept(With("error"), key) /\ AnswerTrue(With("error"), token)
        BY <1>8, <2>2 DEF Failed
    <3>2. QED
        BY <1>8, <2>2, <3>1, CallMoves DEF Failed
  <2>3. QED
      BY <2>1, <2>2
<1>9. CASE Take(c)
  <2>1. key
      BY <1>9 DEF Take
  <2>2. With("key") \in CallType /\ KeyKept(With("key"), key) /\ AnswerTrue(With("key"), token)
      BY <1>9, <2>1 DEF Take
  <2>3. call' = [call EXCEPT ![c] = With("key")] /\ UNCHANGED <<svc, token, key, recent, refusal>>
      BY <1>9, <2>1 DEF Take
  <2> HIDE DEF With
  <2>4. QED
      BY <2>2, <2>3, CallMoves
<1>10. QED
    BY <1>1, <1>2, <1>3, <1>4, <1>5, <1>6, <1>7, <1>8, <1>9

\* A step of ParseToken, and of the caller after an answer, keeps it.
LEMMA TokenInv ==
    ASSUME UserInv, NEW c \in Callers,
           ParseToken(c) \/ Parsed(c) \/ ParseFails(c) \/ Judge(c) \/ Done(c)
    PROVE  UserInv'
<1> DEFINE With(l, a) == [call[c] EXCEPT !.pc = l, !.ret = a]
<1>0. /\ UserTyped /\ call[c] \in CallType
      /\ KeyKept(call[c], key) /\ AnswerTrue(call[c], token)
      /\ refusal # "none" => token # "valid"
    BY DEF UserInv, UserTyped
<1> USE <1>0 DEF UserTyped, CallType, KeyKept, AnswerTrue, At, Return, service, cache
<1>1. CASE ParseToken(c)
  <2> DEFINE r == [NoCall EXCEPT !.pc = IF refusal # "none" THEN "returned" ELSE "post",
                                 !.ret = refusal, !.was = token]
  <2>1. r \in CallType /\ KeyKept(r, key) /\ AnswerTrue(r, token)
    <3>1. CASE refusal = "none"
        BY <3>1 DEF NoCall
    <3>2. CASE refusal = "invalid"
        BY <3>2, ZenonT(60) DEF NoCall
    <3>3. CASE refusal = "expired"
        BY <3>3, ZenonT(60) DEF NoCall
    <3>4. QED
        BY <3>1, <3>2, <3>3
  <2>2. call' = [call EXCEPT ![c] = r] /\ UNCHANGED <<svc, token, key, recent, refusal>>
      BY <1>1 DEF ParseToken
  <2> HIDE DEF r
  <2>3. QED
      BY <2>1, <2>2, CallMoves
<1>2. CASE Parsed(c)
  <2>1. PICK a \in {"valid", "invalid"} :
            /\ token = "valid" => a = "valid"
            /\ token = "revoked" => a = "invalid"
            /\ call' = [call EXCEPT ![c] = With("judge", a)]
      BY <1>2 DEF Parsed
  <2>2. /\ With("judge", a) \in CallType
        /\ KeyKept(With("judge", a), key) /\ AnswerTrue(With("judge", a), token)
      BY <1>2, <2>1 DEF Parsed
  <2>3. QED
      BY <1>2, <2>1, <2>2, CallMoves DEF Parsed
<1>3. CASE ParseFails(c)
  <2> DEFINE r == With("returned", "error")
  <2>1. r \in CallType /\ KeyKept(r, key) /\ AnswerTrue(r, token)
      BY <1>3 DEF ParseFails
  <2>2. call' = [call EXCEPT ![c] = r] /\ UNCHANGED <<svc, token, key, recent, refusal>>
      BY <1>3 DEF ParseFails
  <2> HIDE DEF r
  <2>3. QED
      BY <2>1, <2>2, CallMoves
<1>4. CASE Judge(c)
  <2> DEFINE a == Judged(c)
  <2>1. a \in {"valid", "invalid", "expired"} /\ (a # "valid" => token # "valid")
      BY <1>4 DEF Judge, Judged
  <2>2. /\ With("returned", a) \in CallType
        /\ KeyKept(With("returned", a), key) /\ AnswerTrue(With("returned", a), token)
      BY <1>4, <2>1 DEF Judge, Judged
  <2>3. /\ call' = [call EXCEPT ![c] = With("returned", a)]
        /\ UNCHANGED <<svc, token, key, recent>>
        /\ refusal' = IF a = "valid" THEN refusal ELSE a
      BY <1>4 DEF Judge
  <2> HIDE DEF a
  <2>4. QED
      BY <2>1, <2>2, <2>3, CallMoves
<1>5. CASE Done(c)
  <2>1. NoCall \in CallType /\ KeyKept(NoCall, key) /\ AnswerTrue(NoCall, token)
      BY DEF NoCall
  <2>2. QED
      BY <1>5, <2>1, CallMoves DEF Done
<1>6. QED
    BY <1>1, <1>2, <1>3, <1>4, <1>5

\* The inductive invariant of the caches and the calls that race on them.
THEOREM UserInvariant == UserInit /\ [][UserNext]_userVars => []UserInv
<1>1. UserInv /\ [UserNext]_userVars => UserInv'
  <2> SUFFICES ASSUME UserInv, [UserNext]_userVars PROVE UserInv'
      OBVIOUS
  <2>1. CASE ServiceNext
      BY <2>1, ServiceInv
  <2>2. ASSUME NEW c \in Callers, GetPublicKey(c) \/ ParseToken(c) \/ Progress(c) \/ Done(c)
        PROVE  UserInv'
      BY <2>2, KeyInv, TokenInv DEF Progress
  <2>3. CASE UNCHANGED userVars
      BY <2>3 DEF userVars, service, cache, UserInv, UserTyped
  <2>4. QED
      BY <2>1, <2>2, <2>3 DEF UserNext
<1>2. QED
    BY <1>1, UserInitInv, PTL

\* "The key last seen goes on validating" (user_service.go:62): whatever becomes
\* of user-service and however callers race on the package variables, GetPublicKey
\* never returns nil, nor an error to a caller that began when a key was known.
THEOREM KeyServes == UserSpec => []KeepsValidating
<1>1. UserInv => KeepsValidating
    BY DEF UserInv, KeyKept, KeepsValidating, At
<1>2. QED
    BY <1>1, UserInvariant, PTL DEF UserSpec

\* ParseToken accepts no token that had ended when it was called and refuses none
\* that is valid, with refusals kept and shared by all callers.
THEOREM TokensFaithful == UserSpec => []Faithful
<1>1. UserInv => Faithful
    BY DEF UserInv, AnswerTrue, Faithful, At
<1>2. QED
    BY <1>1, UserInvariant, PTL DEF UserSpec

-----------------------------------------------------------------------------
(* The calls of systemd.                                                   *)

UnitStates == {"enabled", "disabled", "active", "inactive"}
UsePlaces  == {"look", "unfile", "order", "ordered", "returned"}   \* that a step leads to
UseAnswers == {"", "ok", "error", "unknown", "yes", "no"}
UseType ==
    [pc   : UsePlaces \cup {"idle", "Enable", "Disable", "IsEnabled", "IsRunning"},
     op   : Unit!Calls \cup {""},
     ret  : UseAnswers,
     seen : SUBSET UnitStates]
JobType == {"none", "done", "failed", "once"}

UnitTyped == /\ enabled \in BOOLEAN /\ active \in BOOLEAN
             /\ use \in [Users -> UseType] /\ job \in [Users -> JobType]

\* Which calls come through the place r is at.
UsePlace(r) ==
    /\ r.pc \in {"Enable", "look"} => r.op = "Enable"
    /\ r.pc \in {"Disable", "unfile"} => r.op = "Disable"
    /\ r.pc \in {"order", "ordered"} => r.op \in {"Enable", "Disable", "Start", "Stop", "Restart"}
    /\ r.pc = "IsEnabled" => r.op = "IsEnabled"
    /\ r.pc = "IsRunning" => r.op \in {"IsRunning", "List"}

\* What a call r with the job j has seen before it can tell of it: an EnableService
\* that comes to the unit itself has enabled it, and the job that was done left it
\* active or not, whatever became of it since.
UseSeen(r, j) ==
    /\ r.op = "Enable" /\ r.pc \in {"look", "order", "ordered"} => "enabled" \in r.seen
    /\ r.pc = "ordered" /\ j = "done" =>
         /\ r.op \in {"Enable", "Start", "Restart"} => "active" \in r.seen
         /\ r.op = "Stop" => "inactive" \in r.seen

\* What a call that returned tells.
UseTold(r) == r.pc = "returned" =>
    /\ r.ret = "ok" =>
         /\ r.op \in {"Enable", "Start", "Restart"} => "active" \in r.seen
         /\ r.op = "Enable" => "enabled" \in r.seen
         /\ r.op = "Stop" => "inactive" \in r.seen
         /\ r.op = "Disable" => "disabled" \in r.seen
    /\ r.op \in {"IsRunning", "List"} /\ r.ret = "yes" => "active" \in r.seen
    /\ r.op = "IsRunning" /\ r.ret = "no" => "inactive" \in r.seen

\* All that holds of a call r with the job j while the unit is (e, a): it has seen
\* the unit as it is.
UseTrue(r, j, e, a) ==
    /\ r.pc # "idle" => Unit!Now(e, a) \subseteq r.seen
    /\ UsePlace(r) /\ UseSeen(r, j) /\ UseTold(r)

UnitInv == UnitTyped /\ \A u \in Users : UseTrue(use[u], job[u], enabled, active)

\* r, having seen the unit as (e, a) too.
Sees(r, e, a) == [r EXCEPT !.seen = @ \cup Unit!Now(e, a)]

\* Init establishes the invariant: nobody has called.
LEMMA UnitInitInv == Unit!Init => UnitInv
<1> SUFFICES ASSUME Unit!Init PROVE UnitInv
    OBVIOUS
<1>1. Unit!Idle \in UseType
    BY DEF Unit!Idle, UseType, UsePlaces, UseAnswers
<1>2. UnitTyped
    BY <1>1 DEF Unit!Init, UnitTyped, JobType
<1>3. \A u \in Users : use[u] = Unit!Idle
    BY DEF Unit!Init
<1>4. ASSUME NEW j, NEW e, NEW a PROVE UseTrue(Unit!Idle, j, e, a)
    BY DEF Unit!Idle, UseTrue, UsePlace, UseSeen, UseTold
<1>5. QED
    BY <1>2, <1>3, <1>4 DEF UnitInv

\* A call loses nothing when it sees more of the unit.
LEMMA SeesMore ==
    ASSUME NEW r \in UseType, NEW j, NEW e \in BOOLEAN, NEW a \in BOOLEAN,
           NEW f \in BOOLEAN, NEW b \in BOOLEAN, UseTrue(r, j, e, a)
    PROVE  Sees(r, f, b) \in UseType /\ UseTrue(Sees(r, f, b), j, f, b)
<1>1. Unit!Now(f, b) \subseteq UnitStates
    BY DEF Unit!Now, UnitStates
<1>2. /\ Sees(r, f, b) \in UseType
      /\ Sees(r, f, b).pc = r.pc /\ Sees(r, f, b).op = r.op /\ Sees(r, f, b).ret = r.ret
      /\ Sees(r, f, b).seen = r.seen \cup Unit!Now(f, b)
    BY <1>1 DEF Sees, UseType
<1>3. QED
    BY <1>2 DEF UseTrue, UsePlace, UseSeen, UseTold

\* A step by which every call sees the unit as it is then, and u goes on to the
\* record r with the job j, keeps the invariant if r and j do.
LEMMA UseMoves ==
    ASSUME UnitInv, NEW u \in Users, NEW r \in UseType, NEW j \in JobType,
           enabled' \in BOOLEAN, active' \in BOOLEAN,
           use' = [v \in Users |-> IF v = u THEN r ELSE Sees(use[v], enabled', active')],
           job' = [job EXCEPT ![u] = j],
           UseTrue(r, j, enabled', active')
    PROVE  UnitInv'
<1> PICK e \in BOOLEAN, a \in BOOLEAN : e = enabled' /\ a = active'
    OBVIOUS
<1>1. ASSUME NEW v \in Users
      PROVE  Sees(use[v], e, a) \in UseType /\ UseTrue(Sees(use[v], e, a), job[v], e, a)
  <2>1. use[v] \in UseType /\ UseTrue(use[v], job[v], enabled, active)
      BY DEF UnitInv, UnitTyped
  <2>2. enabled \in BOOLEAN /\ active \in BOOLEAN
      BY DEF UnitInv, UnitTyped
  <2>3. QED
      BY <2>1, <2>2, SeesMore
<1>2. use' \in [Users -> UseType] /\ job' \in [Users -> JobType]
    BY <1>1 DEF UnitInv, UnitTyped
<1>3. ASSUME NEW v \in Users PROVE UseTrue(use'[v], job'[v], e, a)
  <2>1. CASE v = u
    <3>1. use'[v] = r /\ job'[v] = j
        BY <2>1 DEF UnitInv, UnitTyped
    <3>2. QED
        BY <3>1
  <2>2. CASE v # u
    <3>1. use'[v] = Sees(use[v], e, a) /\ job'[v] = job[v]
        BY <2>2 DEF UnitInv, UnitTyped
    <3>2. QED
        BY <3>1, <1>1
  <2>3. QED
      BY <2>1, <2>2
<1>4. QED
    BY <1>2, <1>3 DEF UnitInv, UnitTyped

\* The same of Step, which every action of a call under way takes.
LEMMA StepInv ==
    ASSUME UnitInv, NEW u \in Users, NEW l, NEW ret, NEW j \in JobType,
           enabled' \in BOOLEAN, active' \in BOOLEAN,
           Unit!Step(u, l, ret), job' = [job EXCEPT ![u] = j],
           NEW r \in UseType,
           r = [Sees(use[u], enabled', active') EXCEPT !.pc = l, !.ret = ret],
           UseTrue(r, j, enabled', active')
    PROVE  UnitInv'
<1> PICK e \in BOOLEAN, a \in BOOLEAN : e = enabled' /\ a = active'
    OBVIOUS
<1>1. use \in [Users -> UseType]
    BY DEF UnitInv, UnitTyped
<1>2. ASSUME NEW v \in Users
      PROVE  [use[v] EXCEPT !.seen = @ \cup Unit!Now(e, a),
                  !.pc = IF v = u THEN l ELSE @, !.ret = IF v = u THEN ret ELSE @]
               = IF v = u THEN r ELSE Sees(use[v], e, a)
  <2>1. use[v] \in UseType
      BY <1>1
  <2>2. QED
      BY <2>1 DEF Sees, UseType
<1>3. use' = [v \in Users |-> IF v = u THEN r ELSE Sees(use[v], e, a)]
    BY <1>2 DEF Unit!Step
<1>4. QED
    BY <1>3, UseMoves

\* The unit that dies or starts by itself is seen by every call.
LEMMA UnitChangesInv == UnitInv /\ Unit!UnitChanges => UnitInv'
<1> SUFFICES ASSUME UnitInv, Unit!UnitChanges PROVE UnitInv'
    OBVIOUS
<1> PICK e \in BOOLEAN, a \in BOOLEAN : e = enabled' /\ a = active'
    BY DEF UnitInv, UnitTyped, Unit!UnitChanges
<1>1. ASSUME NEW v \in Users
      PROVE  Sees(use[v], e, a) \in UseType /\ UseTrue(Sees(use[v], e, a), job[v], e, a)
  <2>1. use[v] \in UseType /\ UseTrue(use[v], job[v], enabled, active)
      BY DEF UnitInv, UnitTyped
  <2>2. enabled \in BOOLEAN /\ active \in BOOLEAN
      BY DEF UnitInv, UnitTyped
  <2>3. QED
      BY <2>1, <2>2, SeesMore
<1>2. use' = [v \in Users |-> Sees(use[v], e, a)] /\ job' = job
    BY DEF Unit!UnitChanges, Sees
<1>3. QED
    BY <1>1, <1>2 DEF UnitInv, UnitTyped

\* A job that is done leaves the unit as its caller is then told it is.
LEMMA JobEndsInv ==
    ASSUME UnitInv, NEW u \in Users, Unit!JobEnds(u)
    PROVE  UnitInv'
<1>1. use[u] \in UseType /\ UseTrue(use[u], job[u], enabled, active)
      /\ enabled \in BOOLEAN /\ active \in BOOLEAN
    BY DEF UnitInv, UnitTyped
<1>2. use[u].pc = "ordered"
    BY DEF Unit!JobEnds, Unit!At
<1>3. PICK j \in {"done", "failed", "once"} :
          /\ job' = [job EXCEPT ![u] = j]
          /\ active' = IF j # "done" THEN active ELSE use[u].op \in {"Enable", "Start", "Restart"}
    BY DEF Unit!JobEnds
<1>4. enabled' = enabled /\ Unit!Step(u, "ordered", "")
    BY DEF Unit!JobEnds, Unit!Go
<1>b. active' \in BOOLEAN
  <2>1. CASE j = "done"
      BY <1>3, <2>1
  <2>2. CASE j # "done"
      BY <1>1, <1>3, <2>2
  <2>3. QED
      BY <2>1, <2>2
<1> PICK a \in BOOLEAN : a = active'
    BY <1>b
<1> PICK r : r = [Sees(use[u], enabled, a) EXCEPT !.pc = "ordered", !.ret = ""]
    OBVIOUS
<1>5. /\ Sees(use[u], enabled, a) \in UseType
      /\ UseTrue(Sees(use[u], enabled, a), job[u], enabled, a)
    BY <1>1, SeesMore
<1>6. /\ r \in UseType /\ r.pc = "ordered" /\ r.op = use[u].op /\ r.ret = ""
      /\ r.seen = use[u].seen \cup Unit!Now(enabled, a)
    BY <1>1, <1>5 DEF Sees, UseType, UsePlaces, UseAnswers
<1>7. Unit!Now(enabled, a) \subseteq r.seen
    BY <1>6
<1>8. UsePlace(r) /\ UseTold(r)
    BY <1>1, <1>2, <1>6 DEF UseTrue, UsePlace, UseTold
<1>9. UseSeen(r, j)
  <2>1. r.op = "Enable" => "enabled" \in r.seen
      BY <1>1, <1>2, <1>6 DEF UseTrue, UseSeen
  <2>2. ASSUME j = "done", r.op \in {"Enable", "Start", "Restart"} PROVE "active" \in r.seen
    <3>1. a
        BY <1>3, <1>6, <2>2
    <3>2. QED
        BY <1>7, <3>1 DEF Unit!Now
  <2>3. ASSUME j = "done", r.op = "Stop" PROVE "inactive" \in r.seen
    <3>1. ~a
        BY <1>3, <1>6, <2>3
    <3>2. QED
        BY <1>7, <3>1 DEF Unit!Now
  <2>4. QED
      BY <2>1, <2>2, <2>3, <1>6 DEF UseSeen
<1>10. UseTrue(r, j, enabled, a)
    BY <1>7, <1>8, <1>9 DEF UseTrue
<1>11. j \in JobType
    BY DEF JobType
<1>12. QED
    BY <1>1, <1>3, <1>4, <1>6, <1>10, <1>11, StepInv

\* Whatever record the call of u has at l with the answer ret and the job j, the
\* unit now being (e, active), it is where it may be and tells what it has seen.
GoesTrue(u, l, ret, e, j) ==
    \A r \in UseType :
        /\ r.pc = l /\ r.op = use[u].op /\ r.ret = ret
        /\ r.seen = use[u].seen \cup Unit!Now(e, active)
        => UsePlace(r) /\ UseSeen(r, j) /\ UseTold(r)

\* What is to be shown of a call that goes on without changing what is active.
LEMMA GoesOn ==
    ASSUME UnitInv, NEW u \in Users, NEW e \in BOOLEAN, enabled' = e, active' = active,
           NEW l \in UsePlaces,
           NEW ret \in UseAnswers,
           Unit!Step(u, l, ret), NEW j \in JobType, job' = [job EXCEPT ![u] = j],
           GoesTrue(u, l, ret, e, j)
    PROVE  UnitInv'
<1>1. use[u] \in UseType /\ UseTrue(use[u], job[u], enabled, active)
      /\ enabled \in BOOLEAN /\ active \in BOOLEAN
    BY DEF UnitInv, UnitTyped
<1> PICK r : r = [Sees(use[u], e, active) EXCEPT !.pc = l, !.ret = ret]
    OBVIOUS
<1>2. Sees(use[u], e, active) \in UseType
    BY <1>1, SeesMore
<1>3. /\ r \in UseType /\ r.pc = l /\ r.op = use[u].op /\ r.ret = ret
      /\ r.seen = use[u].seen \cup Unit!Now(e, active)
    BY <1>1, <1>2 DEF Sees, UseType
<1>4. UsePlace(r) /\ UseSeen(r, j) /\ UseTold(r)
    BY <1>3 DEF GoesTrue
<1>5. UseTrue(r, j, e, active)
    BY <1>3, <1>4 DEF UseTrue
<1>6. QED
    BY <1>1, <1>3, <1>5, StepInv

\* The same when it only looks at the unit.
LEMMA LooksOn ==
    ASSUME UnitInv, NEW u \in Users, UNCHANGED <<enabled, active>>,
           NEW l \in UsePlaces,
           NEW ret \in UseAnswers,
           Unit!Step(u, l, ret), NEW j \in JobType, job' = [job EXCEPT ![u] = j],
           GoesTrue(u, l, ret, enabled, j)
    PROVE  UnitInv'
<1>1. use[u] \in UseType /\ UseTrue(use[u], job[u], enabled, active)
      /\ enabled \in BOOLEAN /\ active \in BOOLEAN
    BY DEF UnitInv, UnitTyped
<1> PICK r : r = [Sees(use[u], enabled, active) EXCEPT !.pc = l, !.ret = ret]
    OBVIOUS
<1>2. Sees(use[u], enabled, active) \in UseType
    BY <1>1, SeesMore
<1>3. /\ r \in UseType /\ r.pc = l /\ r.op = use[u].op /\ r.ret = ret
      /\ r.seen = use[u].seen \cup Unit!Now(enabled, active)
    BY <1>1, <1>2 DEF Sees, UseType
<1>4. UsePlace(r) /\ UseSeen(r, j) /\ UseTold(r)
    BY <1>3 DEF GoesTrue
<1>5. UseTrue(r, j, enabled, active)
    BY <1>3, <1>4 DEF UseTrue
<1>6. QED
    BY <1>1, <1>3, <1>5, StepInv

\* A call begins having seen the unit as it is.
LEMMA BeginInv ==
    ASSUME UnitInv, NEW u \in Users, NEW op \in Unit!Calls, Unit!Begin(u, op)
    PROVE  UnitInv'
<1> PICK r : r = [pc |-> CASE op \in {"Start", "Stop", "Restart"} -> "order"
                            [] op = "List" -> "IsRunning" [] OTHER -> op,
                  op |-> op, ret |-> "", seen |-> Unit!Now(enabled, active)]
    OBVIOUS
<1>1. use' = [use EXCEPT ![u] = r] /\ UNCHANGED <<enabled, active, job>>
    BY DEF Unit!Begin
<1>2. r.op = op /\ r.ret = "" /\ r.seen = Unit!Now(enabled, active)
      /\ r.pc = CASE op \in {"Start", "Stop", "Restart"} -> "order"
                  [] op = "List" -> "IsRunning" [] OTHER -> op
    OBVIOUS
<1>3. r \in UseType
  <2>1. r.pc \in {"Enable", "Disable", "order", "IsEnabled", "IsRunning"}
      BY <1>2 DEF Unit!Calls
  <2>2. Unit!Now(enabled, active) \subseteq UnitStates
      BY DEF Unit!Now, UnitStates
  <2>3. QED
      BY <2>1, <2>2 DEF UseType, UsePlaces, UseAnswers
<1>4. UseTrue(r, job[u], enabled, active)
  <2>1. UsePlace(r)
      BY <1>2 DEF UsePlace, Unit!Calls
  <2>2. UseSeen(r, job[u]) /\ UseTold(r)
      BY <1>2 DEF UseSeen, UseTold, Unit!Calls
  <2>3. QED
      BY <1>2, <2>1, <2>2 DEF UseTrue
<1>5. QED
    BY <1>1, <1>3, <1>4 DEF UnitInv, UnitTyped

\* A caller that has its answer forgets the call.
LEMMA DoneInv ==
    ASSUME UnitInv, NEW u \in Users, Unit!Done(u)
    PROVE  UnitInv'
<1>1. Unit!Idle \in UseType /\ "none" \in JobType
    BY DEF Unit!Idle, UseType, UsePlaces, UseAnswers, JobType
<1>2. UseTrue(Unit!Idle, "none", enabled, active)
    BY DEF Unit!Idle, UseTrue, UsePlace, UseSeen, UseTold
<1>3. /\ use' = [use EXCEPT ![u] = Unit!Idle] /\ job' = [job EXCEPT ![u] = "none"]
      /\ UNCHANGED <<enabled, active>>
    BY DEF Unit!Done
<1>4. QED
    BY <1>1, <1>2, <1>3 DEF UnitInv, UnitTyped

\* Every step of a call under way keeps it: it goes where its operation goes, and
\* tells what it has seen.
LEMMA UseInv ==
    ASSUME UnitInv, NEW u \in Users,
           \/ Unit!Fails(u) \/ Unit!EnableService(u) \/ Unit!Look(u) \/ Unit!DisableService(u)
           \/ Unit!Unfile(u) \/ Unit!StartService(u) \/ Unit!StopService(u)
           \/ Unit!RestartService(u) \/ Unit!Result(u) \/ Unit!IsServiceEnabled(u)
           \/ Unit!IsServiceRunning(u) /\ use[u].op \in {"IsRunning", "List"}
    PROVE  UnitInv'
<1>0. /\ use[u] \in UseType /\ UseTrue(use[u], job[u], enabled, active)
      /\ enabled \in BOOLEAN /\ active \in BOOLEAN
      /\ job = [job EXCEPT ![u] = job[u]] /\ job[u] \in JobType /\ "none" \in JobType
    BY DEF UnitInv, UnitTyped, JobType
<1> PICK j \in JobType : j = job[u]
    BY <1>0
<1>k. UsePlace(use[u]) /\ UseSeen(use[u], job[u])
    BY <1>0 DEF UseTrue
<1> USE DEF Unit!At, Unit!Go, Unit!Return
<1>1. CASE Unit!Fails(u)
  <2>1. PICK l \in {"unfile", "returned"}, ret \in {"", "error", "no"} :
            /\ Unit!Step(u, l, ret)
            /\ l = "unfile" => use[u].op = "Disable" /\ ret = ""
            /\ ret = "no" => use[u].op = "List"
      BY <1>1 DEF Unit!Fails
  <2>2. UNCHANGED <<enabled, active, job>>
      BY <1>1 DEF Unit!Fails
  <2>3. ASSUME NEW r \in UseType, r.pc = l, r.op = use[u].op, r.ret = ret
        PROVE  UsePlace(r) /\ UseSeen(r, j) /\ UseTold(r)
      BY <2>1, <2>3 DEF UsePlace, UseSeen, UseTold
  <2>4. GoesTrue(u, l, ret, enabled, j)
      BY <2>3 DEF GoesTrue
  <2>5. /\ l \in UsePlaces
        /\ ret \in UseAnswers
        /\ job' = [job EXCEPT ![u] = j] /\ UNCHANGED <<enabled, active>>
      BY <1>0, <2>1, <2>2, <2>3 DEF UsePlaces, UseAnswers
  <2>6. QED
      BY <2>1, <2>4, <2>5, LooksOn
<1>2. CASE Unit!EnableService(u)
  <2>1. Unit!Step(u, "look", "") /\ enabled' = TRUE /\ UNCHANGED <<active, job>>
      BY <1>2 DEF Unit!EnableService
  <2>2. use[u].op = "Enable"
      BY <1>2, <1>k DEF Unit!EnableService, UsePlace
  <2>3. ASSUME NEW r \in UseType, r.pc = "look", r.op = use[u].op, r.ret = "",
               r.seen = use[u].seen \cup Unit!Now(TRUE, active)
        PROVE  UsePlace(r) /\ UseSeen(r, j) /\ UseTold(r)
    <3>1. "enabled" \in r.seen
        BY <2>3 DEF Unit!Now
    <3>2. QED
        BY <2>2, <2>3, <3>1 DEF UsePlace, UseSeen, UseTold
  <2>4. GoesTrue(u, "look", "", TRUE, j)
      BY <2>3 DEF GoesTrue
  <2>5. QED
      BY <1>0, <2>1, <2>4, GoesOn DEF UsePlaces, UseAnswers
<1>3. CASE Unit!Look(u)
  <2>1. PICK l \in {"order", "returned"}, ret \in {"", "ok"} :
            /\ Unit!Step(u, l, ret)
            /\ l = "returned" => active
            /\ l = "order" => ret = ""
      BY <1>3 DEF Unit!Look
  <2>2. use[u].op = "Enable" /\ "enabled" \in use[u].seen
      BY <1>3, <1>k DEF Unit!Look, UsePlace, UseSeen
  <2>3. UNCHANGED <<enabled, active, job>>
      BY <1>3 DEF Unit!Look
  <2>4. ASSUME NEW r \in UseType, r.pc = l, r.op = use[u].op, r.ret = ret,
               r.seen = use[u].seen \cup Unit!Now(enabled, active)
        PROVE  UsePlace(r) /\ UseSeen(r, j) /\ UseTold(r)
    <3>1. "enabled" \in r.seen /\ (l = "returned" => "active" \in r.seen)
        BY <2>1, <2>2, <2>4 DEF Unit!Now
    <3>2. QED
        BY <2>1, <2>2, <2>4, <3>1 DEF UsePlace, UseSeen, UseTold
  <2>5. GoesTrue(u, l, ret, enabled, j)
      BY <2>4 DEF GoesTrue
  <2>6. /\ l \in UsePlaces
        /\ ret \in UseAnswers
        /\ job' = [job EXCEPT ![u] = j] /\ UNCHANGED <<enabled, active>>
      BY <1>0, <2>1, <2>2, <2>3 DEF UsePlaces, UseAnswers
  <2>7. QED
      BY <2>1, <2>5, <2>6, LooksOn
<1>4. CASE Unit!DisableService(u)
  <2>1. PICK l \in {"order", "unfile"} : Unit!Step(u, l, "")
      BY <1>4 DEF Unit!DisableService
  <2>2. use[u].op = "Disable" /\ UNCHANGED <<enabled, active, job>>
      BY <1>4, <1>k DEF Unit!DisableService, UsePlace
  <2>3. ASSUME NEW r \in UseType, r.pc = l, r.op = use[u].op
        PROVE  UsePlace(r) /\ UseSeen(r, j) /\ UseTold(r)
      BY <2>1, <2>2, <2>3 DEF UsePlace, UseSeen, UseTold
  <2>4. GoesTrue(u, l, "", enabled, j)
      BY <2>3 DEF GoesTrue
  <2>5. /\ l \in UsePlaces
        /\ "" \in UseAnswers
        /\ job' = [job EXCEPT ![u] = j] /\ UNCHANGED <<enabled, active>>
      BY <1>0, <2>1, <2>2, <2>3 DEF UsePlaces, UseAnswers
  <2>6. QED
      BY <2>1, <2>4, <2>5, LooksOn
<1>5. CASE Unit!Unfile(u)
  <2>1. Unit!Step(u, "returned", "ok") /\ enabled' = FALSE /\ UNCHANGED <<active, job>>
      BY <1>5 DEF Unit!Unfile
  <2>2. use[u].op = "Disable"
      BY <1>5, <1>k DEF Unit!Unfile, UsePlace
  <2>3. ASSUME NEW r \in UseType, r.pc = "returned", r.op = use[u].op, r.ret = "ok",
               r.seen = use[u].seen \cup Unit!Now(FALSE, active)
        PROVE  UsePlace(r) /\ UseSeen(r, j) /\ UseTold(r)
    <3>1. "disabled" \in r.seen
        BY <2>3 DEF Unit!Now
    <3>2. QED
        BY <2>2, <2>3, <3>1 DEF UsePlace, UseSeen, UseTold
  <2>4. GoesTrue(u, "returned", "ok", FALSE, j)
      BY <2>3 DEF GoesTrue
  <2>5. QED
      BY <1>0, <2>1, <2>4, GoesOn DEF UsePlaces, UseAnswers
<1>6. CASE Unit!StartService(u) \/ Unit!StopService(u) \/ Unit!RestartService(u)
  <2>1. /\ Unit!Step(u, "ordered", "") /\ UNCHANGED <<enabled, active>>
        /\ job' = [job EXCEPT ![u] = "none"] /\ use[u].pc = "order"
        /\ use[u].op \in {"Enable", "Disable", "Start", "Stop", "Restart"}
      BY <1>6 DEF Unit!StartService, Unit!StopService, Unit!RestartService, Unit!Order
  <2>2. use[u].op = "Enable" => "enabled" \in use[u].seen
      BY <1>k, <2>1 DEF UseSeen
  <2>3. ASSUME NEW r \in UseType, r.pc = "ordered", r.op = use[u].op,
               r.seen = use[u].seen \cup Unit!Now(enabled, active)
        PROVE  UsePlace(r) /\ UseSeen(r, "none") /\ UseTold(r)
      BY <2>1, <2>2, <2>3 DEF UsePlace, UseSeen, UseTold
  <2>4. GoesTrue(u, "ordered", "", enabled, "none")
      BY <2>3 DEF GoesTrue
  <2>5. QED
      BY <1>0, <2>1, <2>4, LooksOn DEF UsePlaces, UseAnswers
<1>7. CASE Unit!Result(u)
  <2>1. use[u].pc = "ordered" /\ UNCHANGED <<enabled, active, job>>
      BY <1>7 DEF Unit!Result
  <2>2. PICK l \in {"unfile", "returned"}, ret \in {"", "ok", "error", "unknown"} :
            /\ Unit!Step(u, l, ret)
            /\ l = "unfile" => use[u].op = "Disable" /\ ret = ""
            /\ l = "returned" => use[u].op # "Disable" /\ (ret = "ok" => job[u] = "done")
      BY <1>7, <1>0 DEF Unit!Result, Unit!ErrorMap
  <2>3. ASSUME NEW r \in UseType, r.pc = l, r.op = use[u].op, r.ret = ret,
               r.seen = use[u].seen \cup Unit!Now(enabled, active)
        PROVE  UsePlace(r) /\ UseSeen(r, j) /\ UseTold(r)
    <3>1. use[u].seen \subseteq r.seen
        BY <2>3
    <3>2. UsePlace(r) /\ UseSeen(r, j)
        BY <2>2, <2>3 DEF UsePlace, UseSeen
    <3>3. UseTold(r)
        BY <1>k, <2>1, <2>2, <2>3, <3>1 DEF UsePlace, UseSeen, UseTold
    <3>4. QED
        BY <3>2, <3>3
  <2>4. GoesTrue(u, l, ret, enabled, j)
      BY <2>3 DEF GoesTrue
  <2>5. /\ l \in UsePlaces
        /\ ret \in UseAnswers
        /\ job' = [job EXCEPT ![u] = j] /\ UNCHANGED <<enabled, active>>
      BY <1>0, <2>1, <2>2, <2>3 DEF UsePlaces, UseAnswers
  <2>6. QED
      BY <2>2, <2>4, <2>5, LooksOn
<1>8. CASE Unit!IsServiceEnabled(u)
  <2>1. PICK ret \in {"yes", "no"} : Unit!Step(u, "returned", ret)
      BY <1>8 DEF Unit!IsServiceEnabled
  <2>2. use[u].op = "IsEnabled" /\ UNCHANGED <<enabled, active, job>>
      BY <1>8, <1>k DEF Unit!IsServiceEnabled, UsePlace
  <2>3. ASSUME NEW r \in UseType, r.pc = "returned", r.op = use[u].op, r.ret = ret
        PROVE  UsePlace(r) /\ UseSeen(r, j) /\ UseTold(r)
      BY <2>1, <2>2, <2>3 DEF UsePlace, UseSeen, UseTold
  <2>4. GoesTrue(u, "returned", ret, enabled, j)
      BY <2>3 DEF GoesTrue
  <2>5. /\ "returned" \in UsePlaces
        /\ ret \in UseAnswers
        /\ job' = [job EXCEPT ![u] = j] /\ UNCHANGED <<enabled, active>>
      BY <1>0, <2>1, <2>2, <2>3 DEF UsePlaces, UseAnswers
  <2>6. QED
      BY <2>1, <2>4, <2>5, LooksOn
<1>9. CASE Unit!IsServiceRunning(u) /\ use[u].op \in {"IsRunning", "List"}
  <2>1. PICK ret \in {"yes", "no"} :
            Unit!Step(u, "returned", ret) /\ (ret = "yes" <=> active)
      BY <1>9, <1>0 DEF Unit!IsServiceRunning
  <2>2. UNCHANGED <<enabled, active, job>>
      BY <1>9 DEF Unit!IsServiceRunning
  <2>3. ASSUME NEW r \in UseType, r.pc = "returned", r.op = use[u].op, r.ret = ret,
               r.seen = use[u].seen \cup Unit!Now(enabled, active)
        PROVE  UsePlace(r) /\ UseSeen(r, j) /\ UseTold(r)
    <3>1. (ret = "yes" => "active" \in r.seen) /\ (ret = "no" => "inactive" \in r.seen)
        BY <1>0, <2>1, <2>3 DEF Unit!Now
    <3>2. QED
        BY <1>9, <2>1, <2>3, <3>1 DEF UsePlace, UseSeen, UseTold
  <2>4. GoesTrue(u, "returned", ret, enabled, j)
      BY <2>3 DEF GoesTrue
  <2>5. /\ "returned" \in UsePlaces
        /\ ret \in UseAnswers
        /\ job' = [job EXCEPT ![u] = j] /\ UNCHANGED <<enabled, active>>
      BY <1>0, <2>1, <2>2, <2>3 DEF UsePlaces, UseAnswers
  <2>6. QED
      BY <2>1, <2>4, <2>5, LooksOn
<1>10. QED
    BY <1>1, <1>2, <1>3, <1>4, <1>5, <1>6, <1>7, <1>8, <1>9

\* Every step of Units keeps the invariant.
LEMMA UnitStepInv == UnitInv /\ Unit!Next => UnitInv'
<1> SUFFICES ASSUME UnitInv, Unit!Next PROVE UnitInv'
    OBVIOUS
<1>1. CASE Unit!UnitChanges
    BY <1>1, UnitChangesInv
<1>2. ASSUME NEW u \in Users, Unit!JobEnds(u) PROVE UnitInv'
    BY <1>2, JobEndsInv
<1>3. ASSUME NEW u \in Users,
             \/ Unit!Fails(u) \/ Unit!EnableService(u) \/ Unit!Look(u) \/ Unit!DisableService(u)
             \/ Unit!Unfile(u) \/ Unit!StartService(u) \/ Unit!StopService(u)
             \/ Unit!RestartService(u) \/ Unit!Result(u) \/ Unit!IsServiceEnabled(u)
             \/ Unit!IsServiceRunning(u) /\ use[u].op \in {"IsRunning", "List"}
      PROVE  UnitInv'
    BY <1>3, UseInv
<1>4. ASSUME NEW u \in Users, NEW op \in Unit!Calls, Unit!Begin(u, op) PROVE UnitInv'
    BY <1>4, BeginInv
<1>5. ASSUME NEW u \in Users, Unit!Done(u) PROVE UnitInv'
    BY <1>5, DoneInv
<1>6. QED
    BY <1>1, <1>2, <1>3, <1>4, <1>5 DEF Unit!Next, Unit!ListServices

\* The inductive invariant of the calls of systemd, whatever else runs.
THEOREM UnitInvariant == MCSpec => []UnitInv
<1>1. MCInit => UnitInv
    BY UnitInitInv DEF MCInit
<1>2. UnitInv /\ [MCNext]_all => UnitInv'
  <2> SUFFICES ASSUME UnitInv, [MCNext]_all PROVE UnitInv'
      OBVIOUS
  <2>1. CASE Ordering(Unit!Next)
      BY <2>1, UnitStepInv DEF Ordering
  <2>2. CASE untVars' = untVars
      BY <2>2 DEF untVars, UnitInv, UnitTyped
  <2>3. QED
      BY <2>1, <2>2 DEF MCNext, all, Watching, Serving, Asking
<1>3. QED
    BY <1>1, <1>2, PTL DEF MCSpec

\* A call of systemd that tells of success tells what was so at some time during
\* the call, for any number of callers, whatever the unit does by itself.
THEOREM UnitsTruthful == MCSpec => []UnitsTrue
<1>1. UnitInv => UnitsTrue
    BY DEF UnitInv, UseTrue, UseTold, UnitsTrue, Unit!UnitsTrue, Unit!At
<1>2. QED
    BY <1>1, UnitInvariant, PTL

-----------------------------------------------------------------------------
(* The clients of the other services.                                      *)

Names == {o.name : o \in Other!Interface} \cup {""}
ReqType ==
    [pc : {"idle", "wait", "address", "build", "sent", "status", "returned"},
     op : Names, ask : {"", "op", "ping", "port", "list", "install"},
     to : Nat, auth : Nat, tries : Nat, held : Nat,
     status : {"", "refused", "failed", "ok"}, body : Nat, ret : {"", "ok", "error"},
     did : BOOLEAN, since : Nat, with : BOOLEAN]

ClientTyped ==
    /\ up \in BOOLEAN /\ module \in BOOLEAN
    /\ place \in Nat /\ address \in Nat /\ secret \in Nat /\ port \in Nat
    /\ starts \in Nat /\ rewrites \in Nat /\ made \in Nat
    /\ req \in [Clients -> ReqType]

\* What r asks for: a call under way is one of Interface; only RequireModule asks
\* for a port, the list or an installation, and asks for nothing else but a ping.
Asked(r) ==
    /\ r.pc # "idle" => r.ask # "" /\ \E o \in Other!Interface : r.op = o.name
    /\ r.pc \in {"build", "sent", "status"} /\ r.op = "RequireModule" => r.ask # "op"
    /\ r.ask \in {"port", "list", "install"} /\ r.pc # "idle" => r.op = "RequireModule"

\* What an answer tells: the request was executed, the module was there.
Answer(r) == r.pc = "status" =>
    /\ r.did <=> r.status = "ok"
    /\ r.ask = "list" /\ r.body # 0 => r.with
    /\ r.ask = "install" /\ r.status = "ok" => r.with

\* The secret of a request on its way is the file's while nobody has written it
\* since; one that was refused was written since.
Fresh(r, n, s) ==
    /\ r.pc = "sent" /\ r.since # 0 =>
         r.auth # 0 /\ r.since <= n /\ (r.since = n => s = r.auth)
    /\ r.pc = "status" /\ r.status = "refused" /\ r.since # 0 => n > r.since

\* What a call that returned tells.
Outcome(r) == r.pc = "returned" /\ r.ret = "ok" =>
    /\ r.op \notin {"Publish", "RequireModule"} => r.did
    /\ r.op = "RequireModule" => r.with

\* All that holds of r while internal.secret is s and was written n times.
ReqTrue(r, n, s) == Asked(r) /\ Answer(r) /\ Fresh(r, n, s) /\ Outcome(r)

ClientInv == ClientTyped /\ \A c \in Clients : ReqTrue(req[c], rewrites, secret)

\* A name determines the call, so that Op(c) is the one that was made.
LEMMA NamesDiffer ==
    ASSUME NEW o \in Other!Interface, NEW p \in Other!Interface, o.name = p.name
    PROVE  o = p
<1> USE DEF Other!CreateRoute, Other!ChangePort, Other!GetPort, Other!GetAppInfo,
           Other!PutAppStatus, Other!SendNotify, Other!DeleteShare, Other!PublishEventInSocket, Other!RequireModule
<1>1. CASE o = Other!CreateRoute
    BY <1>1 DEF Other!Interface
<1>2. CASE o = Other!ChangePort
    BY <1>2 DEF Other!Interface
<1>3. CASE o = Other!GetPort
    BY <1>3 DEF Other!Interface
<1>4. CASE o = Other!GetAppInfo
    BY <1>4 DEF Other!Interface
<1>5. CASE o = Other!PutAppStatus
    BY <1>5 DEF Other!Interface
<1>6. CASE o = Other!SendNotify
    BY <1>6 DEF Other!Interface
<1>7. CASE o = Other!DeleteShare
    BY <1>7 DEF Other!Interface
<1>8. CASE o = Other!PublishEventInSocket
    BY <1>8 DEF Other!Interface
<1>9. CASE o = Other!RequireModule
    BY <1>9 DEF Other!Interface
<1>10. QED
    BY <1>1, <1>2, <1>3, <1>4, <1>5, <1>6, <1>7, <1>8, <1>9 DEF Other!Interface

\* What the model reads of the call under way.
LEMMA OpIs ==
    ASSUME NEW c \in Clients, Asked(req[c]), req[c].pc # "idle"
    PROVE  /\ Other!Op(c) \in Other!Interface /\ Other!Op(c).name = req[c].op
           /\ req[c].op = "RequireModule" =>
                Other!Op(c) = Other!RequireModule /\ Other!Op(c).at = "object"
           /\ req[c].op # "RequireModule" => Other!Op(c) # Other!RequireModule
           /\ ~Other!Op(c).checks => req[c].op = "Publish"
           /\ Other!Op(c).at = "socket" => req[c].op = "Publish"
<1>1. PICK o \in Other!Interface : o.name = req[c].op
    BY DEF Asked
<1>2. Other!Op(c) = o
    BY <1>1, NamesDiffer DEF Other!Op
<1>3. /\ Other!RequireModule \in Other!Interface
      /\ Other!RequireModule.name = "RequireModule" /\ Other!RequireModule.at = "object"
    BY DEF Other!Interface, Other!RequireModule
<1>4. (~o.checks => o.name = "Publish") /\ (o.at = "socket" => o.name = "Publish")
    BY DEF Other!Interface, Other!CreateRoute, Other!ChangePort, Other!GetPort, Other!GetAppInfo,
           Other!PutAppStatus, Other!SendNotify, Other!DeleteShare, Other!PublishEventInSocket,
           Other!RequireModule
<1>5. o.name = "RequireModule" => o = Other!RequireModule
    BY <1>3, NamesDiffer
<1>6. QED
    BY <1>1, <1>2, <1>3, <1>4, <1>5

\* Init establishes the invariant.
LEMMA ClientInitInv == Other!Init => ClientInv
<1> SUFFICES ASSUME Other!Init PROVE ClientInv
    OBVIOUS
<1>1. Other!Idle \in ReqType
  <2>1. "" \in Names
      BY DEF Names
  <2>2. QED
      BY <2>1 DEF Other!Idle, ReqType
<1>2. ClientTyped
    BY <1>1 DEF Other!Init, ClientTyped
<1>3. \A c \in Clients : req[c] = Other!Idle
    BY DEF Other!Init
<1>4. ReqTrue(Other!Idle, rewrites, secret)
    BY DEF Other!Idle, ReqTrue, Asked, Answer, Fresh, Outcome
<1>5. QED
    BY <1>2, <1>3, <1>4 DEF ClientInv

\* A step of one client that leaves the service alone keeps it if the record it
\* gives the client does.
LEMMA ReqMoves ==
    ASSUME ClientInv, NEW c \in Clients, NEW r \in ReqType, Other!Put(c, r),
           UNCHANGED <<up, place, address, secret, port, module, starts, rewrites>>,
           made' \in Nat, ReqTrue(r, rewrites, secret)
    PROVE  ClientInv'
<1>1. req \in [Clients -> ReqType] /\ req' = [req EXCEPT ![c] = r]
    BY DEF ClientInv, ClientTyped, Other!Put
<1>2. req' \in [Clients -> ReqType]
    BY <1>1
<1>3. ASSUME NEW d \in Clients PROVE ReqTrue(req'[d], rewrites, secret)
  <2>1. CASE d = c
    <3>1. req'[d] = r
        BY <1>1, <2>1
    <3>2. QED
        BY <3>1
  <2>2. CASE d # c
    <3>1. req'[d] = req[d]
        BY <1>1, <2>2
    <3>2. QED
        BY <3>1 DEF ClientInv
  <2>3. QED
      BY <2>1, <2>2
<1>4. QED
    BY <1>2, <1>3 DEF ClientInv, ClientTyped

\* The service that stops, starts, writes its files or its list of modules keeps
\* it: a secret written anew makes every refusal from then on a late one.
LEMMA ServiceStepInv ==
    ASSUME ClientInv,
           \/ Other!Stops \/ Other!EmptySecret \/ Other!WriteInternalSecret
           \/ Other!Listens \/ Other!WriteAddress \/ Other!ModuleChanges
    PROVE  ClientInv'
<1>0. ClientTyped /\ \A c \in Clients : ReqTrue(req[c], rewrites, secret)
    BY DEF ClientInv
<1>1. CASE Other!Stops \/ Other!Listens \/ Other!WriteAddress
  <2>1. UNCHANGED <<req, secret, rewrites>>
      BY <1>1 DEF Other!Stops, Other!Listens, Other!WriteAddress
  <2>2. ClientTyped'
      BY <1>0, <1>1 DEF Other!Stops, Other!Listens, Other!WriteAddress, ClientTyped
  <2>3. QED
      BY <1>0, <2>1, <2>2 DEF ClientInv
<1>2. CASE Other!EmptySecret \/ Other!WriteInternalSecret
  <2>1. req' = req /\ rewrites' = rewrites + 1
      BY <1>2 DEF Other!EmptySecret, Other!WriteInternalSecret
  <2>2. ClientTyped'
      BY <1>0, <1>2 DEF Other!EmptySecret, Other!WriteInternalSecret, ClientTyped
  <2>3. ASSUME NEW c \in Clients PROVE ReqTrue(req[c], rewrites + 1, secret')
    <3>1. req[c] \in ReqType /\ rewrites \in Nat /\ ReqTrue(req[c], rewrites, secret)
        BY <1>0 DEF ClientTyped
    <3>2. req[c].since \in Nat
        BY <3>1 DEF ReqType
    <3>3. Fresh(req[c], rewrites + 1, secret')
        BY <3>1, <3>2 DEF ReqTrue, Fresh
    <3>4. QED
        BY <3>1, <3>3 DEF ReqTrue
  <2>4. QED
      BY <2>1, <2>2, <2>3 DEF ClientInv
<1>3. CASE Other!ModuleChanges
  <2>1. /\ module' = ~module /\ UNCHANGED <<up, place, address, secret, port, starts, rewrites, made>>
        /\ req' = [c \in Clients |-> [req[c] EXCEPT !.with = @ \/ module']]
      BY <1>3 DEF Other!ModuleChanges
  <2> PICK m \in BOOLEAN : m = module'
      BY <1>0, <2>1 DEF ClientTyped
  <2>2. ASSUME NEW c \in Clients
        PROVE  req'[c] \in ReqType /\ ReqTrue(req'[c], rewrites, secret)
    <3>1. req[c] \in ReqType /\ ReqTrue(req[c], rewrites, secret)
        BY <1>0 DEF ClientTyped
    <3>2. CASE m
      <4>1. req'[c] = [req[c] EXCEPT !.with = TRUE]
          BY <2>1, <3>1, <3>2 DEF ReqType
      <4> PICK r : r = [req[c] EXCEPT !.with = TRUE]
          OBVIOUS
      <4>2. /\ r \in ReqType /\ r.pc = req[c].pc /\ r.op = req[c].op /\ r.ask = req[c].ask
            /\ r.auth = req[c].auth /\ r.status = req[c].status /\ r.body = req[c].body
            /\ r.ret = req[c].ret /\ r.did = req[c].did /\ r.since = req[c].since /\ r.with
          BY <3>1 DEF ReqType
      <4>3. ReqTrue(r, rewrites, secret)
          BY <3>1, <4>2 DEF ReqTrue, Asked, Answer, Fresh, Outcome
      <4>4. QED
          BY <4>1, <4>2, <4>3
    <3>3. CASE ~m
      <4>1. req'[c] = req[c]
          BY <2>1, <3>1, <3>3 DEF ReqType
      <4>2. QED
          BY <3>1, <4>1
    <3>4. QED
        BY <3>2, <3>3
  <2>3. req' \in [Clients -> ReqType]
      BY <2>1, <2>2
  <2>4. QED
      BY <1>0, <2>1, <2>2, <2>3 DEF ClientInv, ClientTyped
<1>4. QED
    BY <1>1, <1>2, <1>3

\* A step that changes of a request only where it is, what it asks for, and how
\* often it looked, and does not end it.
LEMMA ReqGoesOn ==
    ASSUME ClientInv, NEW c \in Clients, req[c].pc # "idle",
           NEW l \in {"wait", "address", "build"}, NEW what \in {"op", "ping", "port", "list", "install"},
           NEW r \in ReqType, r.pc = l, r.op = req[c].op, r.ask = what,
           l = "build" /\ r.op = "RequireModule" => what # "op",
           what \in {"port", "list", "install"} => r.op = "RequireModule",
           Other!Put(c, r),
           UNCHANGED <<up, place, address, secret, port, module, starts, rewrites, made>>
    PROVE  ClientInv'
<1>1. Asked(req[c]) /\ made \in Nat
    BY DEF ClientInv, ClientTyped, ReqTrue
<1>2. ReqTrue(r, rewrites, secret)
    BY <1>1 DEF ReqTrue, Asked, Answer, Fresh, Outcome
<1>3. QED
    BY <1>1, <1>2, ReqMoves

\* A call that fails tells of nothing.
LEMMA FailsInv ==
    ASSUME ClientInv, NEW c \in Clients, req[c].pc # "idle", Other!Fails(c),
           UNCHANGED <<up, place, address, secret, port, module, starts, rewrites, made>>
    PROVE  ClientInv'
<1>1. req[c] \in ReqType /\ Asked(req[c]) /\ made \in Nat
    BY DEF ClientInv, ClientTyped, ReqTrue
<1> PICK r : r = [req[c] EXCEPT !.pc = "returned", !.ret = "error"]
    OBVIOUS
<1>2. /\ r \in ReqType /\ r.pc = "returned" /\ r.ret = "error"
      /\ r.op = req[c].op /\ r.ask = req[c].ask
    BY <1>1 DEF ReqType
<1>3. ReqTrue(r, rewrites, secret)
    BY <1>1, <1>2 DEF ReqTrue, Asked, Answer, Fresh, Outcome
<1>4. Other!Put(c, r)
    BY DEF Other!Fails
<1>5. QED
    BY <1>1, <1>2, <1>3, <1>4, ReqMoves

\* The next request of a call under way.
LEMMA AsksInv ==
    ASSUME ClientInv, NEW c \in Clients, req[c].pc # "idle", NEW to \in Nat,
           NEW what \in {"op", "ping", "port", "list", "install"}, Other!Asks(c, what, to),
           req[c].op = "RequireModule" => what # "op",
           what \in {"port", "list", "install"} => req[c].op = "RequireModule",
           UNCHANGED <<up, place, address, secret, port, module, starts, rewrites, made>>
    PROVE  ClientInv'
<1>1. req[c] \in ReqType
    BY DEF ClientInv, ClientTyped
<1> PICK r : r = [req[c] EXCEPT !.pc = "build", !.ask = what, !.to = to]
    OBVIOUS
<1>2. r \in ReqType /\ r.pc = "build" /\ r.op = req[c].op /\ r.ask = what
    BY <1>1 DEF ReqType
<1>3. Other!Put(c, r)
    BY DEF Other!Asks
<1>4. QED
    BY <1>2, <1>3, ReqGoesOn

\* A call begins as one of Interface.
LEMMA CallInv ==
    ASSUME ClientInv, NEW c \in Clients, NEW op \in Other!Interface, Other!Call(c, op)
    PROVE  ClientInv'
<1>1. /\ req[c] \in ReqType /\ made \in Nat /\ module \in BOOLEAN
      /\ req[c].held \in Nat
    BY DEF ClientInv, ClientTyped, ReqType
<1>2. PICK l : l = IF op.at = "file" THEN "address"
                   ELSE IF op.at = "object" /\ (req[c].held = 0 \/ op = Other!RequireModule)
                   THEN "wait" ELSE "build"
    OBVIOUS
<1>3. l \in {"wait", "address", "build"} /\ (op.name = "RequireModule" => l = "wait")
  <2>1. /\ Other!RequireModule \in Other!Interface
        /\ Other!RequireModule.name = "RequireModule" /\ Other!RequireModule.at = "object"
      BY DEF Other!Interface, Other!RequireModule
  <2>2. op.name = "RequireModule" => op = Other!RequireModule
      BY <2>1, NamesDiffer
  <2>3. QED
      BY <1>2, <2>1, <2>2
<1> PICK m \in BOOLEAN : m = module
    BY <1>1
<1> PICK r : r = [req[c] EXCEPT !.op = op.name, !.tries = MaxTries, !.with = m, !.did = FALSE,
                      !.ask = "op", !.status = "", !.body = 0, !.to = req[c].held, !.pc = l]
    OBVIOUS
<1>4. Other!Put(c, r) /\ made' = made + 1
      /\ UNCHANGED <<up, place, address, secret, port, module, starts, rewrites>>
    BY <1>2 DEF Other!Call, Other!service
<1>5. r \in ReqType /\ r.pc = l /\ r.op = op.name /\ r.ask = "op"
  <2>1. op.name \in Names
      BY DEF Names
  <2>2. QED
      BY <1>1, <1>3, <2>1, ClientBounds, ZenonT(40) DEF ReqType
<1>6. ReqTrue(r, rewrites, secret)
    BY <1>3, <1>5 DEF ReqTrue, Asked, Answer, Fresh, Outcome
<1>7. made' \in Nat
    BY <1>1, <1>4
<1>8. QED
    BY <1>4, <1>5, <1>6, <1>7, ReqMoves

\* The search for an address keeps it.
LEMMA AddressInv ==
    ASSUME ClientInv, NEW c \in Clients, Other!NewManagementService(c) \/ Other!getAddress(c)
    PROVE  ClientInv'
<1>1. req[c] \in ReqType /\ req[c].tries \in Nat /\ Asked(req[c]) /\ address \in Nat
      /\ req[c].ask \in {"", "op", "ping", "port", "list", "install"}
    BY DEF ClientInv, ClientTyped, ReqType, ReqTrue
<1>2. UNCHANGED <<up, place, address, secret, port, module, starts, rewrites, made>>
    BY DEF Other!NewManagementService, Other!getAddress, Other!service
<1>3. CASE Other!NewManagementService(c)
  <2>1. req[c].pc = "wait"
      BY <1>3 DEF Other!NewManagementService
  <2>2. PICK l \in {"wait", "address"}, n \in Nat :
            Other!Put(c, [req[c] EXCEPT !.pc = l, !.tries = n])
    <3>1. CASE Other!Put(c, [req[c] EXCEPT !.pc = "address"])
      <4>1. [req[c] EXCEPT !.pc = "address"]
              = [req[c] EXCEPT !.pc = "address", !.tries = req[c].tries]
          BY <1>1 DEF ReqType
      <4>2. QED
          BY <1>1, <3>1, <4>1
    <3>2. CASE Other!Put(c, [req[c] EXCEPT !.tries = @ - 1]) /\ req[c].tries > 0
      <4>1. [req[c] EXCEPT !.tries = @ - 1]
              = [req[c] EXCEPT !.pc = "wait", !.tries = req[c].tries - 1]
          BY <1>1, <2>1 DEF ReqType
      <4> PICK k \in Nat : k = req[c].tries
          BY <1>1
      <4>2. req[c].tries - 1 \in Nat
        <5>1. k > 0
            BY <3>2
        <5>2. k - 1 \in Nat
            BY <5>1
        <5>3. QED
            BY <5>2
      <4>3. QED
          BY <3>2, <4>1, <4>2
    <3>3. QED
        BY <1>3, <3>1, <3>2 DEF Other!NewManagementService
  <2> PICK r : r = [req[c] EXCEPT !.pc = l, !.tries = n]
      OBVIOUS
  <2>3. r \in ReqType /\ r.pc = l /\ r.op = req[c].op /\ r.ask = req[c].ask
      BY <1>1 DEF ReqType
  <2>4. ReqTrue(r, rewrites, secret)
      BY <1>1, <2>1, <2>3 DEF ReqTrue, Asked, Answer, Fresh, Outcome
  <2>5. made' \in Nat
      BY <1>2 DEF ClientInv, ClientTyped
  <2>6. QED
      BY <1>2, <2>2, <2>3, <2>4, <2>5, ReqMoves
<1>4. CASE Other!getAddress(c)
  <2>1. req[c].pc = "address"
      BY <1>4 DEF Other!getAddress
  <2>2. CASE address = 0
      BY <1>2, <1>4, <2>1, <2>2, FailsInv DEF Other!getAddress
  <2>3. CASE address # 0
    <3>1. PICK what \in {"ping", "op"} :
              /\ Other!Asks(c, what, address)
              /\ what = "op" => Other!Op(c).at # "object"
        BY <1>4, <2>3 DEF Other!getAddress
    <3>2. req[c].op = "RequireModule" => what # "op"
        BY <1>1, <2>1, <3>1, OpIs
    <3>3. what \in {"op", "ping", "port", "list", "install"} /\ what \notin {"port", "list", "install"}
        OBVIOUS
    <3>4. QED
        BY <1>1, <1>2, <2>1, <3>1, <3>2, <3>3, AsksInv
  <2>4. QED
      BY <2>2, <2>3
<1>5. QED
    BY <1>3, <1>4

\* A request is built with the secret of the file, and remembers how often that
\* was written.
LEMMA DoInv ==
    ASSUME ClientInv, NEW c \in Clients, Other!Do(c)
    PROVE  ClientInv'
<1>1. req[c] \in ReqType /\ Asked(req[c]) /\ secret \in Nat /\ rewrites \in Nat /\ made \in Nat
    BY DEF ClientInv, ClientTyped, ReqTrue
<1> PICK a : a = IF Other!Generated(c) \/ Other!Op(c).at = "socket" THEN 0
                 ELSE Other!readInternalSecret(c)
    OBVIOUS
<1>2. a \in {0, secret}
    BY DEF Other!readInternalSecret
<1> PICK n : n = IF a = 0 THEN 0 ELSE rewrites
    OBVIOUS
<1> PICK r : r = [req[c] EXCEPT !.pc = "sent", !.auth = a, !.since = n]
    OBVIOUS
<1>3. a \in Nat /\ n \in Nat
    BY <1>1, <1>2
<1>4. /\ r \in ReqType /\ r.pc = "sent" /\ r.op = req[c].op /\ r.ask = req[c].ask
      /\ r.auth = a /\ r.since = n
    BY <1>1, <1>3 DEF ReqType
<1>5. /\ req[c].pc = "build" /\ Other!Put(c, r)
      /\ UNCHANGED <<up, place, address, secret, port, module, starts, rewrites, made>>
    BY DEF Other!Do, Other!service
<1>6. Asked(r) /\ Answer(r) /\ Outcome(r)
    BY <1>1, <1>4, <1>5 DEF Asked, Answer, Outcome
<1>7. Fresh(r, rewrites, secret)
    BY <1>1, <1>2, <1>4 DEF Fresh
<1>8. made' \in Nat
    BY <1>1, <1>5
<1>9. QED
    BY <1>4, <1>5, <1>6, <1>7, <1>8, ReqMoves DEF ReqTrue

\* A call without an answer fails, or asks for the list at port 80.
LEMMA NoAnswerInv ==
    ASSUME ClientInv, NEW c \in Clients, Other!NoAnswer(c)
    PROVE  ClientInv'
<1>1. Asked(req[c])
    BY DEF ClientInv, ReqTrue
<1>2. req[c].pc \in {"sent", "status"}
      /\ UNCHANGED <<up, place, address, secret, port, module, starts, rewrites, made>>
    BY DEF Other!NoAnswer, Other!service
<1>3. CASE req[c].ask = "port"
  <2>1. Other!Asks(c, "list", 80)
      BY <1>3 DEF Other!NoAnswer
  <2>2. req[c].op = "RequireModule"
      BY <1>1, <1>2, <1>3 DEF Asked
  <2>3. QED
      BY <1>2, <2>1, <2>2, AsksInv
<1>4. CASE req[c].ask # "port"
    BY <1>2, <1>4, FailsInv DEF Other!NoAnswer
<1>5. QED
    BY <1>3, <1>4

\* What an answer leads to: the request it was a ping for, the next of
\* RequireModule, or the end of the call, executed.
LEMMA AnsweredInv ==
    ASSUME ClientInv, NEW c \in Clients, Other!Answered(c)
    PROVE  ClientInv'
<1>1. /\ req[c] \in ReqType /\ Asked(req[c]) /\ Answer(req[c]) /\ made \in Nat
      /\ req[c].to \in Nat /\ req[c].body \in Nat
    BY DEF ClientInv, ClientTyped, ReqTrue, ReqType
<1>2. req[c].pc = "status"
      /\ UNCHANGED <<up, place, address, secret, port, module, starts, rewrites, made>>
    BY DEF Other!Answered, Other!service
<1>3. /\ req[c].op = "RequireModule" <=> Other!Op(c) = Other!RequireModule
      /\ ~Other!Op(c).checks => req[c].op = "Publish"
    BY <1>1, <1>2, OpIs
<1>4. CASE ~Other!Expected(c) \/ req[c].ask = "port"
  <2>1. \/ Other!Fails(c)
        \/ req[c].ask = "port" /\ \E to \in Nat : Other!Asks(c, "list", to)
    <3>1. CASE ~Other!Expected(c)
      <4>1. 80 \in Nat
          OBVIOUS
      <4>2. QED
          BY <3>1, <4>1 DEF Other!Answered
    <3>2. CASE Other!Expected(c)
        BY <1>1, <1>4, <3>2 DEF Other!Answered
    <3>3. QED
        BY <3>1, <3>2
  <2>2. req[c].ask = "port" => req[c].op = "RequireModule"
      BY <1>1, <1>2 DEF Asked
  <2>3. QED
      BY <1>2, <2>1, <2>2, FailsInv, AsksInv
<1>5. CASE Other!Expected(c) /\ req[c].ask = "ping"
  <2>1. CASE req[c].op = "RequireModule"
    <3>1. Other!Asks(c, "port", req[c].to)
        BY <1>3, <1>5, <2>1 DEF Other!Answered
    <3>2. QED
        BY <1>1, <1>2, <2>1, <3>1, AsksInv
  <2>2. CASE req[c].op # "RequireModule"
    <3> PICK r : r = [req[c] EXCEPT !.pc = "build", !.ask = "op", !.held = req[c].to]
        OBVIOUS
    <3>1. Other!Put(c, r)
        BY <1>3, <1>5, <2>2 DEF Other!Answered
    <3>2. r \in ReqType /\ r.pc = "build" /\ r.op = req[c].op /\ r.ask = "op"
        BY <1>1 DEF ReqType
    <3>3. QED
        BY <1>2, <2>2, <3>1, <3>2, ReqGoesOn
  <2>3. QED
      BY <2>1, <2>2
<1>6. CASE Other!Expected(c) /\ req[c].ask = "list" /\ req[c].body = 0
  <2>1. Other!Asks(c, "install", req[c].to)
      BY <1>6 DEF Other!Answered
  <2>2. req[c].op = "RequireModule"
      BY <1>1, <1>2, <1>6 DEF Asked
  <2>3. QED
      BY <1>1, <1>2, <2>1, <2>2, AsksInv
<1>7. CASE /\ Other!Expected(c) /\ req[c].ask \notin {"ping", "port"}
           /\ ~(req[c].ask = "list" /\ req[c].body = 0)
  <2> PICK r : r = [req[c] EXCEPT !.pc = "returned", !.ret = "ok"]
      OBVIOUS
  <2>1. Other!Put(c, r)
      BY <1>7 DEF Other!Answered
  <2>2. /\ r \in ReqType /\ r.pc = "returned" /\ r.op = req[c].op /\ r.ask = req[c].ask
        /\ r.did = req[c].did /\ r.with = req[c].with
      BY <1>1 DEF ReqType
  <2>3. Outcome(r)
    <3>1. ASSUME r.op \notin {"Publish", "RequireModule"} PROVE r.did
      <4>1. req[c].status = "ok"
          BY <1>3, <1>7, <2>2, <3>1 DEF Other!Expected
      <4>2. QED
          BY <1>1, <1>2, <2>2, <4>1 DEF Answer
    <3>2. ASSUME r.op = "RequireModule" PROVE r.with
      <4>1. req[c].ask # "op"
          BY <1>1, <1>2, <2>2, <3>2 DEF Asked
      <4>2. req[c].status = "ok"
          BY <1>7, <4>1 DEF Other!Expected
      <4>3. req[c].ask \in {"list", "install"}
          BY <1>1, <1>2, <1>7, <4>1 DEF ReqType, Asked
      <4>4. QED
          BY <1>1, <1>2, <1>7, <2>2, <4>2, <4>3 DEF Answer
    <3>3. QED
        BY <3>1, <3>2 DEF Outcome
  <2>4. Asked(r) /\ Answer(r) /\ Fresh(r, rewrites, secret)
      BY <1>1, <1>2, <2>2 DEF Asked, Answer, Fresh
  <2>5. made' \in Nat
      BY <1>1, <1>2
  <2>6. QED
      BY <1>2, <2>1, <2>2, <2>3, <2>4, <2>5, ReqMoves DEF ReqTrue
<1>8. QED
    BY <1>4, <1>5, <1>6, <1>7

\* The record of a request that was answered has its type.
LEMMA AnswerType ==
    ASSUME NEW q \in ReqType, NEW s \in {"refused", "failed", "ok"}, NEW b \in Nat,
           NEW w \in BOOLEAN, NEW did \in BOOLEAN
    PROVE  [q EXCEPT !.with = w, !.pc = "status", !.status = s, !.body = b, !.did = did] \in ReqType
<1> PICK r : r = [q EXCEPT !.with = w, !.pc = "status", !.status = s, !.body = b, !.did = did]
    OBVIOUS
<1>1. r = [pc |-> "status", op |-> q.op, ask |-> q.ask, to |-> q.to, auth |-> q.auth,
           tries |-> q.tries, held |-> q.held, status |-> s, body |-> b, ret |-> q.ret,
           did |-> did, since |-> q.since, with |-> w]
    BY DEF ReqType
<1>2. r \in ReqType
    BY <1>1 DEF ReqType
<1>3. QED
    BY <1>2

\* An answer is of the request as it arrived: refused only if the secret was
\* written since it was built, executed before it can tell of it.
LEMMA ArrivesInv ==
    ASSUME ClientInv, NEW c \in Clients, Other!Arrives(c)
    PROVE  ClientInv'
<1>1. /\ req \in [Clients -> ReqType] /\ module \in BOOLEAN /\ port \in Nat
      /\ \A d \in Clients : ReqTrue(req[d], rewrites, secret)
      /\ secret \in Nat /\ rewrites \in Nat
    BY DEF ClientInv, ClientTyped
<1>2. /\ req[c].pc = "sent" /\ UNCHANGED <<up, place, address, secret, starts, rewrites, made>>
    BY DEF Other!Arrives, Other!Reaches
<1>3. PICK s \in {"refused", "failed", "ok"} :
        /\ s = "refused" => Other!Op(c).at # "socket" /\ ~Other!IsInternalRequest(c)
        /\ module' = (module \/ (s = "ok" /\ req[c].ask = "install"))
        /\ port' \in {port} \cup (IF s = "ok" /\ req[c].op = "ChangePort" /\ req[c].ask = "op"
                                  THEN {81} ELSE {})
        /\ req' = [d \in Clients |-> [req[d] EXCEPT
                      !.with = @ \/ module',
                      !.pc = IF d = c THEN "status" ELSE @,
                      !.status = IF d = c THEN s ELSE @,
                      !.body = IF d # c THEN @ ELSE IF req[c].ask = "port" THEN port
                               ELSE IF module THEN 1 ELSE 0,
                      !.did = IF d = c THEN s = "ok" ELSE @]]
    BY DEF Other!Arrives
<1>4. module' \in BOOLEAN /\ port' \in Nat
  <2>1. port' \in {port, 81}
      BY <1>3
  <2>2. port' \in Nat
      BY <1>1, <2>1
  <2>3. module' \in BOOLEAN
    <3>1. CASE module
        BY <1>3, <3>1
    <3>2. CASE ~module
      <4>1. module' = (s = "ok" /\ req[c].ask = "install")
          BY <1>3, <3>2
      <4>2. QED
          BY <4>1
    <3>3. QED
        BY <3>1, <3>2
  <2>4. QED
      BY <2>2, <2>3
<1> PICK m \in BOOLEAN : m = module'
    BY <1>4
<1> PICK b \in Nat : b = IF req[c].ask = "port" THEN port ELSE IF module THEN 1 ELSE 0
    BY <1>1
<1>5. ASSUME NEW d \in Clients, d # c
      PROVE  req'[d] \in ReqType /\ ReqTrue(req'[d], rewrites, secret)
  <2>1. req[d] \in ReqType /\ ReqTrue(req[d], rewrites, secret)
      BY <1>1
  <2> PICK w \in BOOLEAN : w <=> req[d].with \/ m
      OBVIOUS
  <2> PICK r : r = [req[d] EXCEPT !.with = w]
      OBVIOUS
  <2>2. req'[d] = r
      BY <1>3, <1>5, <2>1 DEF ReqType
  <2>3. /\ r \in ReqType /\ r.pc = req[d].pc /\ r.op = req[d].op /\ r.ask = req[d].ask
        /\ r.auth = req[d].auth /\ r.status = req[d].status /\ r.body = req[d].body
        /\ r.ret = req[d].ret /\ r.did = req[d].did /\ r.since = req[d].since
        /\ req[d].with => r.with
      BY <2>1 DEF ReqType
  <2>4. ReqTrue(r, rewrites, secret)
      BY <2>1, <2>3 DEF ReqTrue, Asked, Answer, Fresh, Outcome
  <2>5. QED
      BY <2>2, <2>3, <2>4
<1>6. req'[c] \in ReqType /\ ReqTrue(req'[c], rewrites, secret)
  <2>1. /\ req[c] \in ReqType /\ ReqTrue(req[c], rewrites, secret)
        /\ req[c].since \in Nat
      BY <1>1 DEF ReqType
  <2> PICK w \in BOOLEAN : w <=> req[c].with \/ m
      OBVIOUS
  <2> PICK did \in BOOLEAN : did <=> s = "ok"
      OBVIOUS
  <2> PICK r : r = [req[c] EXCEPT !.with = w, !.pc = "status", !.status = s, !.body = b, !.did = did]
      OBVIOUS
  <2>2. req'[c] = r
      BY <1>3, <2>1 DEF ReqType
  <2>3. /\ r \in ReqType /\ r.pc = "status" /\ r.op = req[c].op /\ r.ask = req[c].ask
        /\ r.status = s /\ r.body = b /\ r.since = req[c].since
        /\ r.did = did /\ r.with = w
    <3>1. r \in ReqType
      <4>1. [req[c] EXCEPT !.with = w, !.pc = "status", !.status = s, !.body = b, !.did = did]
              \in ReqType
          BY <2>1, AnswerType, ZenonT(30)
      <4>2. QED
          BY <4>1
    <3>2. /\ r.pc = "status" /\ r.op = req[c].op /\ r.ask = req[c].ask
          /\ r.status = s /\ r.body = b /\ r.since = req[c].since
        BY <2>1 DEF ReqType
    <3>3. r.did = did
        BY <2>1 DEF ReqType
    <3>4. r.with = w
        BY <2>1 DEF ReqType
    <3>5. QED
        BY <3>1, <3>2, <3>3, <3>4
  <2>4. Asked(r) /\ Outcome(r)
      BY <1>2, <2>1, <2>3 DEF ReqTrue, Asked, Outcome
  <2>5. Answer(r)
    <3>1. r.ask = "list" /\ r.body # 0 => m
        BY <1>3, <2>3
    <3>2. r.ask = "install" /\ s = "ok" => m
        BY <1>3, <2>3
    <3>3. QED
        BY <2>3, <3>1, <3>2, Zenon DEF Answer
  <2>6. Fresh(r, rewrites, secret)
    <3> SUFFICES ASSUME s = "refused", r.since # 0 PROVE rewrites > r.since
        BY <2>3 DEF Fresh
    <3>1. /\ req[c].auth # 0 /\ req[c].since <= rewrites
          /\ req[c].since = rewrites => secret = req[c].auth
        BY <1>2, <2>1, <2>3 DEF ReqTrue, Fresh
    <3>2. ~Other!IsInternalRequest(c)
        BY <1>3
    <3>3. req[c].since # rewrites
        BY <3>1, <3>2 DEF Other!IsInternalRequest
    <3>4. QED
        BY <1>1, <2>1, <2>3, <3>1, <3>3
  <2>7. QED
      BY <2>2, <2>3, <2>4, <2>5, <2>6 DEF ReqTrue
<1>7. req' \in [Clients -> ReqType]
  <2>1. \A d \in Clients : req'[d] \in ReqType
      BY <1>5, <1>6
  <2>2. QED
      BY <1>3, <2>1
<1>8. QED
    BY <1>2, <1>4, <1>5, <1>6, <1>7 DEF ClientInv, ClientTyped

\* A caller that has its answer keeps the service object, and no more.
LEMMA ForgetsInv ==
    ASSUME ClientInv, NEW c \in Clients, Other!Done(c)
    PROVE  ClientInv'
<1>1. req[c] \in ReqType /\ made \in Nat
    BY DEF ClientInv, ClientTyped
<1> PICK r : r = [req[c] EXCEPT !.pc = "idle"]
    OBVIOUS
<1>2. r \in ReqType /\ r.pc = "idle"
    BY <1>1 DEF ReqType
<1>3. ReqTrue(r, rewrites, secret)
    BY <1>2 DEF ReqTrue, Asked, Answer, Fresh, Outcome
<1>4. /\ Other!Put(c, r) /\ made' = made
      /\ UNCHANGED <<up, place, address, secret, port, module, starts, rewrites>>
    BY DEF Other!Done, Other!service
<1>5. QED
    BY <1>1, <1>2, <1>3, <1>4, ReqMoves

\* Every step of ServiceClient keeps the invariant.
LEMMA ClientStepInv == ClientInv /\ Other!Next => ClientInv'
<1> SUFFICES ASSUME ClientInv, Other!Next PROVE ClientInv'
    OBVIOUS
<1>1. CASE \/ Other!Stops \/ Other!EmptySecret \/ Other!WriteInternalSecret
           \/ Other!Listens \/ Other!WriteAddress \/ Other!ModuleChanges
    BY <1>1, ServiceStepInv
<1>2. ASSUME NEW c \in Clients, Other!Proceeds(c) \/ Other!NoAnswer(c) PROVE ClientInv'
    BY <1>2, AddressInv, DoInv, AnsweredInv, NoAnswerInv DEF Other!Proceeds
<1>3. ASSUME NEW c \in Clients, Other!Arrives(c) \/ Other!Done(c) PROVE ClientInv'
    BY <1>3, ArrivesInv, ForgetsInv
<1>4. ASSUME NEW c \in Clients, NEW op \in Other!Interface, Other!Call(c, op) PROVE ClientInv'
    BY <1>4, CallInv
<1>5. QED
    BY <1>1, <1>2, <1>3, <1>4 DEF Other!Next

\* The inductive invariant of the calls of other services, whatever else runs.
THEOREM ClientInvariant == MCSpec => []ClientInv
<1>1. MCInit => ClientInv
    BY ClientInitInv DEF MCInit
<1>2. ClientInv /\ [MCNext]_all => ClientInv'
  <2> SUFFICES ASSUME ClientInv, [MCNext]_all PROVE ClientInv'
      OBVIOUS
  <2>1. CASE Asking(Other!Next)
      BY <2>1, ClientStepInv DEF Asking
  <2>2. CASE cltVars' = cltVars
      BY <2>2 DEF cltVars, ClientInv, ClientTyped
  <2>3. QED
      BY <2>1, <2>2 DEF MCNext, all, Watching, Serving, Ordering
<1>3. QED
    BY <1>1, <1>2, PTL DEF MCSpec

\* Whatever restarts and losses meet the calls of any number of clients: one that
\* succeeds was executed, RequireModule finds or makes the module, and "a secret
\* rewritten by a restarted gateway is picked up without anybody restarting"
\* (internal_auth.go:93).
THEOREM ClientsTruthful == MCSpec => []ClientTrue
<1>1. ClientInv => ClientTrue
  <2> SUFFICES ASSUME ClientInv PROVE ClientTrue
      OBVIOUS
  <2>1. \A c \in Clients : Outcome(req[c]) /\ Fresh(req[c], rewrites, secret)
      BY DEF ClientInv, ReqTrue
  <2>2. QED
      BY <2>1 DEF Outcome, Fresh, ClientTrue, Other!ClientTrue
<1>2. QED
    BY <1>1, ClientInvariant, PTL

==============================================================================
