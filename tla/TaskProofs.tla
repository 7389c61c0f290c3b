----------------------------- MODULE TaskProofs -----------------------------
(***************************************************************************)
(* What MCTasks checks of the parts that run in goroutines of their own    *)
(* and must come to an end, for every value of its constants: the archive, *)
(* the terminal session, the scripts and the functions put off, each by an *)
(* inductive invariant of the behaviours of MCSpec, of which it is one     *)
(* part.  The queue has proofs of its own in EmitQueueProofs.              *)
(***************************************************************************)
EXTENDS MCTasks, SequenceTheorems, FiniteSetTheorems, TLAPS

-----------------------------------------------------------------------------
(* The scripts of a service's start.                                       *)

ProcStates == {"idle", "running", "exited", "killed", "waited"}
Codes  == {"none", "zero", "error", "context"}
Fates  == {"skipped", "unstarted", "zero", "error", "late", "killed"}
Tales  == {"skipped", "ok", "warned", "failed", "timed out"}

ScriptTyped ==
    /\ proc \in ProcStates /\ code \in Codes /\ child \in {"none", "group", "own"}
    /\ expired \in BOOLEAN /\ delayed \in BOOLEAN
    /\ told \in Seq(Tales) /\ fate \in Seq(Fates)

\* What is told, r, of what became of an entry, f.
Matches(f, r) ==
    /\ f = "zero" => r \in {"ok", "warned"}
    /\ f \in {"error", "unstarted"} => r \in {"failed", "timed out"}
    /\ f = "killed" => r = "timed out"
    /\ f = "skipped" <=> r = "skipped"

\* The script that runs: how it ended, while its result is still to be told.
Ended ==
    /\ proc = "exited" => code \in {"zero", "error"}
    /\ proc = "killed" => code = "error" /\ expired /\ child # "group"
    /\ proc = "waited" =>
         LET f == fate[Len(told) + 1]
         IN  /\ f \in {"zero", "error", "late", "killed"}
             /\ f = "zero" => code = "zero"
             /\ f = "error" => code = "error"
             /\ f = "killed" => code = "error" /\ expired

\* What is told so far matches; one more fate is known while a result is pending.
ScriptInv ==
    /\ ScriptTyped /\ Ended
    /\ Len(fate) = Len(told) + (IF proc = "waited" THEN 1 ELSE 0)
    /\ \A n \in 1..Len(told) : Matches(fate[n], told[n])

\* Init establishes the invariant.
LEMMA ScriptInitInv == Scr!Init => ScriptInv
<1> SUFFICES ASSUME Scr!Init PROVE ScriptInv
    OBVIOUS
<1>1. told = <<>> /\ fate = <<>> /\ proc = "idle" /\ code = "none" /\ child = "none"
      /\ expired = FALSE /\ delayed = FALSE
    BY DEF Scr!Init
<1>2. <<>> \in Seq(Tales) /\ <<>> \in Seq(Fates)
    OBVIOUS
<1>t. ScriptTyped
    BY <1>1, <1>2 DEF ScriptTyped, ProcStates, Codes
<1>e. Ended
    BY <1>1 DEF Ended
<1>3. Len(told) = 0 /\ Len(fate) = 0
    BY <1>1
<1>4. QED
    BY <1>1, <1>t, <1>e, <1>3 DEF ScriptInv

\* An entry that is no script, or one that cannot be started, is told as such.
LEMMA TellInv ==
    ASSUME ScriptInv, NEW r \in Tales, NEW f \in Fates, Scr!tell(r, f), Matches(f, r),
           proc = "idle", UNCHANGED <<proc, code, child, expired, delayed>>
    PROVE  ScriptInv'
<1>1. /\ told \in Seq(Tales) /\ fate \in Seq(Fates) /\ Len(fate) = Len(told)
      /\ told' = Append(told, r) /\ fate' = Append(fate, f)
    BY DEF ScriptInv, ScriptTyped, Scr!tell
<1>2. /\ told' \in Seq(Tales) /\ fate' \in Seq(Fates) /\ Len(fate') = Len(told')
      /\ Len(told') = Len(told) + 1
    BY <1>1
<1>3. ASSUME NEW n \in 1..Len(told') PROVE Matches(fate'[n], told'[n])
  <2>1. CASE n = Len(told) + 1
      BY <1>1, <2>1
  <2>2. CASE n # Len(told) + 1
    <3>1. n \in 1..Len(told) /\ fate'[n] = fate[n] /\ told'[n] = told[n]
        BY <1>1, <1>2, <2>2
    <3>2. QED
        BY <3>1 DEF ScriptInv
  <2>3. QED
      BY <2>1, <2>2
<1>4. QED
    BY <1>2, <1>3 DEF ScriptInv, ScriptTyped, Ended

\* Wait notes what became of the script; whether it was late is decided there.
LEMMA WaitedInv == ScriptInv /\ Scr!Waited => ScriptInv'
<1> SUFFICES ASSUME ScriptInv, Scr!Waited PROVE ScriptInv'
    OBVIOUS
<1>1. /\ told \in Seq(Tales) /\ fate \in Seq(Fates) /\ Len(fate) = Len(told)
      /\ proc \in {"exited", "killed"} /\ proc' = "waited"
      /\ UNCHANGED <<told, child, expired, delayed>>
    BY DEF ScriptInv, ScriptTyped, Scr!Waited, Scr!timers
<1> PICK f : f = IF proc = "killed" THEN "killed"
                 ELSE IF code = "zero" /\ expired THEN "late" ELSE code
    OBVIOUS
<1>2. fate' = Append(fate, f)
    BY DEF Scr!Waited
<1>3. f \in {"zero", "error", "late", "killed"}
    BY <1>1 DEF ScriptInv, Ended
<1>4. fate' \in Seq(Fates) /\ Len(fate') = Len(told) + 1 /\ fate'[Len(told) + 1] = f
    BY <1>1, <1>2, <1>3 DEF Fates
<1>5. code' \in Codes /\ (f = "zero" => code' = "zero") /\ (f = "error" => code' = "error")
      /\ (f = "killed" => code' = "error" /\ expired)
    BY <1>1 DEF Scr!Waited, ScriptInv, ScriptTyped, Ended, Codes
<1>6. \A n \in 1..Len(told) : fate'[n] = fate[n]
    BY <1>1, <1>2
<1>7. ScriptTyped' /\ Ended'
    BY <1>1, <1>3, <1>4, <1>5 DEF ScriptInv, ScriptTyped, Ended, ProcStates
<1>8. QED
    BY <1>1, <1>4, <1>6, <1>7 DEF ScriptInv

\* runScript tells it.
LEMMA RunScriptInv == ScriptInv /\ Scr!runScript => ScriptInv'
<1> SUFFICES ASSUME ScriptInv, Scr!runScript PROVE ScriptInv'
    OBVIOUS
<1> PICK r : r = Scr!classify
    OBVIOUS
<1>1. /\ told \in Seq(Tales) /\ fate \in Seq(Fates) /\ Len(fate) = Len(told) + 1
      /\ proc = "waited" /\ told' = Append(told, r) /\ fate' = fate
      /\ proc' = "idle" /\ code' = "none" /\ child' = "none"
      /\ expired' = FALSE /\ delayed' = FALSE
    BY DEF ScriptInv, ScriptTyped, Scr!runScript
<1> PICK f : f = fate[Len(told) + 1]
    OBVIOUS
<1>e. /\ f \in {"zero", "error", "late", "killed"}
      /\ f = "zero" => code = "zero"
      /\ f = "error" => code = "error"
      /\ f = "killed" => code = "error" /\ expired
    BY <1>1 DEF ScriptInv, Ended
<1>c. /\ r \in {"ok", "warned", "timed out", "failed"}
      /\ code = "zero" => r \in {"ok", "warned"}
      /\ code # "zero" => r = IF expired THEN "timed out" ELSE "failed"
  <2>1. CASE code = "zero"
    <3>1. CASE delayed
      <4>1. r = "warned"
          BY <2>1, <3>1 DEF Scr!classify
      <4>2. QED
          BY <2>1, <4>1
    <3>2. CASE ~delayed
      <4>1. r = "ok"
          BY <2>1, <3>2 DEF Scr!classify
      <4>2. QED
          BY <2>1, <4>1
    <3>3. QED
        BY <3>1, <3>2
  <2>2. CASE code # "zero"
    <3>1. CASE expired
        BY <2>2, <3>1 DEF Scr!classify
    <3>2. CASE ~expired
        BY <2>2, <3>2 DEF Scr!classify
    <3>3. QED
        BY <3>1, <3>2
  <2>3. QED
      BY <2>1, <2>2
<1>2. r \in Tales /\ Matches(f, r)
    BY <1>e, <1>c DEF Matches, Tales
<1>3. told' \in Seq(Tales) /\ Len(told') = Len(told) + 1
    BY <1>1, <1>2
<1>4. ASSUME NEW n \in 1..Len(told') PROVE Matches(fate'[n], told'[n])
  <2>1. CASE n = Len(told) + 1
      BY <1>1, <1>2, <2>1
  <2>2. CASE n # Len(told) + 1
    <3>1. n \in 1..Len(told) /\ told'[n] = told[n]
        BY <1>1, <1>3, <2>2
    <3>2. QED
        BY <1>1, <3>1 DEF ScriptInv
  <2>3. QED
      BY <2>1, <2>2
<1>5. ScriptTyped' /\ Ended'
    BY <1>1, <1>3 DEF ScriptTyped, Ended, ProcStates, Codes
<1>6. QED
    BY <1>1, <1>3, <1>4, <1>5 DEF ScriptInv

\* Every step of Scripts keeps the invariant.
LEMMA ScriptStepInv == ScriptInv /\ Scr!Next => ScriptInv'
<1> SUFFICES ASSUME ScriptInv, Scr!Next PROVE ScriptInv'
    OBVIOUS
<1>1. CASE Scr!ExecuteScripts
  <2>1. proc = "idle" /\ UNCHANGED <<code, child, expired, delayed>>
      BY <1>1 DEF Scr!ExecuteScripts, Scr!timers
  <2>2. CASE Scr!tell("skipped", "skipped") /\ UNCHANGED proc
      BY <2>1, <2>2, TellInv DEF Matches, Tales, Fates
  <2>3. CASE Scr!tell("failed", "unstarted") /\ UNCHANGED proc
      BY <2>1, <2>3, TellInv DEF Matches, Tales, Fates
  <2>4. CASE proc' = "running" /\ UNCHANGED <<told, fate>>
      BY <2>1, <2>4 DEF ScriptInv, ScriptTyped, Ended, ProcStates
  <2>5. QED
      BY <1>1, <2>2, <2>3, <2>4 DEF Scr!ExecuteScripts
<1>2. CASE Scr!Expires \/ Scr!Cancels
    BY <1>2 DEF Scr!Expires, Scr!Cancels, Scr!killGroupOnCancel, Scr!timers,
                ScriptInv, ScriptTyped, Ended, ProcStates, Codes
<1>3. CASE Scr!WaitDelay \/ Scr!Forks \/ Scr!ChildEnds \/ Scr!Exits
    BY <1>3 DEF Scr!WaitDelay, Scr!Forks, Scr!ChildEnds, Scr!Exits, Scr!timers,
                ScriptInv, ScriptTyped, Ended, ProcStates, Codes
<1>4. CASE Scr!Finished
    BY <1>4 DEF Scr!Finished, Scr!scrVars, ScriptInv, ScriptTyped, Ended
<1>5. QED
    BY <1>1, <1>2, <1>3, <1>4, WaitedInv, RunScriptInv DEF Scr!Next, Scr!Proceeds

\* The inductive invariant of the scripts, whatever else runs.
THEOREM ScriptInvariant == MCSpec => []ScriptInv
<1>1. MCInit => ScriptInv
    BY ScriptInitInv DEF MCInit
<1>2. ScriptInv /\ [MCNext]_allVars => ScriptInv'
  <2> SUFFICES ASSUME ScriptInv, [MCNext]_allVars PROVE ScriptInv'
      OBVIOUS
  <2>1. CASE Running(Scr!Next)
      BY <2>1, ScriptStepInv DEF Running
  <2>2. CASE scrVars' = scrVars
      BY <2>2 DEF scrVars, ScriptInv, ScriptTyped, Ended
  <2>3. QED
      BY <2>1, <2>2 DEF MCNext, allVars, Queue, Writing, Session, PutOff
<1>3. QED
    BY <1>1, <1>2, PTL DEF MCSpec

\* What ExecuteScripts tells of each entry of a directory of any length is what
\* became of it, in whatever order its exit, its timeout and the end of its output
\* come.
THEOREM ScriptsToldTruly == MCSpec => []ScriptsTold
<1>1. ScriptInv => ScriptsTold
  <2> SUFFICES ASSUME ScriptInv PROVE ScriptsTold
      OBVIOUS
  <2>1. DOMAIN told = 1..Len(told)
      BY DEF ScriptInv, ScriptTyped
  <2>2. QED
      BY <2>1 DEF ScriptInv, Ended, Matches, ScriptsTold, Scr!ScriptsTold
<1>2. QED
    BY <1>1, ScriptInvariant, PTL

-----------------------------------------------------------------------------
(* A terminal session.                                                     *)

Increasing(s) == \A m, n \in 1..Len(s) : m < n => s[m] < s[n]

\* Everything in s comes before everything in t.
Before(s, t) == \A m \in 1..Len(s), n \in 1..Len(t) : s[m] < t[n]

UpTo(s, w) == \A n \in 1..Len(s) : s[n] <= w

\* What the prompts show, and what of the output is shown and what is buffered:
\* only between the write to the websocket and the reset is the one in the other.
SshInv ==
    /\ phase = "user" => screen = typed
    /\ phase # "user" => screen = name \/ ~wsUp
    /\ sender # "no" => phase = "session"
    /\ written \in Nat /\ buffer \in Seq(Nat) /\ shown \in Seq(Nat)
    /\ Increasing(shown) /\ Increasing(buffer)
    /\ UpTo(shown, written) /\ UpTo(buffer, written)
    /\ sender # "reset" => Before(shown, buffer)

\* Two increasing sequences, one before the other, are one.
LEMMA IncreasingConcat ==
    ASSUME NEW s \in Seq(Nat), NEW t \in Seq(Nat), NEW w \in Nat,
           Increasing(s), Increasing(t), Before(s, t), UpTo(s, w), UpTo(t, w)
    PROVE  s \o t \in Seq(Nat) /\ Increasing(s \o t) /\ UpTo(s \o t, w)
<1> PICK u : u = s \o t
    OBVIOUS
<1>1. u \in Seq(Nat) /\ Len(u) = Len(s) + Len(t)
    OBVIOUS
<1>2. ASSUME NEW n \in 1..Len(u)
      PROVE  \/ n \in 1..Len(s) /\ u[n] = s[n]
             \/ n - Len(s) \in 1..Len(t) /\ u[n] = t[n - Len(s)]
    BY <1>1
<1>3. Increasing(u)
  <2> SUFFICES ASSUME NEW m \in 1..Len(u), NEW n \in 1..Len(u), m < n
               PROVE  u[m] < u[n]
      BY DEF Increasing
  <2>1. CASE m \in 1..Len(s) /\ u[m] = s[m]
    <3>1. CASE n \in 1..Len(s) /\ u[n] = s[n]
        BY <2>1, <3>1 DEF Increasing
    <3>2. CASE n - Len(s) \in 1..Len(t) /\ u[n] = t[n - Len(s)]
        BY <2>1, <3>2 DEF Before
    <3>3. QED
        BY <1>2, <3>1, <3>2
  <2>2. CASE m - Len(s) \in 1..Len(t) /\ u[m] = t[m - Len(s)]
    <3>1. n - Len(s) \in 1..Len(t) /\ u[n] = t[n - Len(s)]
        BY <1>1, <1>2, <2>2
    <3>2. m - Len(s) < n - Len(s)
        BY <1>1
    <3>3. QED
        BY <2>2, <3>1, <3>2 DEF Increasing
  <2>3. QED
      BY <1>2, <2>1, <2>2
<1>4. UpTo(u, w)
    BY <1>2 DEF UpTo
<1>5. QED
    BY <1>1, <1>3, <1>4

\* So are an increasing sequence and something later.
LEMMA IncreasingAppend ==
    ASSUME NEW s \in Seq(Nat), NEW t \in Seq(Nat), NEW w \in Nat, Increasing(t),
           Before(s, t) , UpTo(s, w), UpTo(t, w)
    PROVE  /\ Append(t, w + 1) \in Seq(Nat) /\ Increasing(Append(t, w + 1))
           /\ UpTo(Append(t, w + 1), w + 1) /\ UpTo(s, w + 1)
           /\ Before(s, Append(t, w + 1))
<1> PICK u : u = Append(t, w + 1)
    OBVIOUS
<1>1. u \in Seq(Nat) /\ Len(u) = Len(t) + 1
    OBVIOUS
<1>2. ASSUME NEW n \in 1..Len(u)
      PROVE  \/ n \in 1..Len(t) /\ u[n] = t[n] /\ t[n] \in Nat
             \/ n = Len(t) + 1 /\ u[n] = w + 1
    BY <1>1
<1>3. Increasing(u)
  <2> SUFFICES ASSUME NEW m \in 1..Len(u), NEW n \in 1..Len(u), m < n
               PROVE  u[m] < u[n]
      BY DEF Increasing
  <2>1. m \in 1..Len(t) /\ u[m] = t[m] /\ t[m] \in Nat /\ t[m] <= w
      BY <1>1, <1>2 DEF UpTo
  <2>2. CASE n \in 1..Len(t) /\ u[n] = t[n]
      BY <2>1, <2>2 DEF Increasing
  <2>3. CASE u[n] = w + 1
    <3>1. t[m] < w + 1
        BY <2>1
    <3>2. QED
        BY <2>1, <2>3, <3>1
  <2>4. QED
      BY <1>2, <2>2, <2>3
<1>4. UpTo(u, w + 1) /\ UpTo(s, w + 1)
    BY <1>2 DEF UpTo
<1>5. Before(s, u)
  <2> SUFFICES ASSUME NEW m \in 1..Len(s), NEW n \in 1..Len(u) PROVE s[m] < u[n]
      BY DEF Before
  <2>1. s[m] \in Nat /\ s[m] <= w
      BY DEF UpTo
  <2>2. QED
      BY <1>2, <2>1 DEF Before
<1>6. QED
    BY <1>1, <1>3, <1>4, <1>5

\* Init establishes the invariant.
LEMMA SshInitInv == Ssh!Init => SshInv
  <1>1. <<>> \in Seq(Nat) /\ Len(<<>>) = 0
      OBVIOUS
  <1>2. QED
      BY <1>1 DEF Ssh!Init, SshInv, Increasing, UpTo, Before

\* The prompts keep it.
LEMMA PromptInv ==
    ASSUME SshInv,
           \/ Ssh!ReceiveWsMsgUser \/ Ssh!ReceiveWsMsgPassword \/ Ssh!PromptFails
           \/ Ssh!NewSshConn
    PROVE  SshInv'
<1>1. /\ UNCHANGED <<wsUp, written, buffer, shown>>
      /\ sender # "reset" => sender' # "reset"
      /\ sender' # "no" => phase' = "session"
      /\ sender' = "reset" => sender = "reset"
      /\ sender = "no"
    BY DEF Ssh!ReceiveWsMsgUser, Ssh!ReceiveWsMsgPassword, Ssh!PromptFails, Ssh!NewSshConn,
           Ssh!output, Ssh!threads, SshInv
<1>2. (phase' = "user" => screen' = typed') /\ (phase' # "user" => screen' = name' \/ ~wsUp')
  <2>1. CASE Ssh!ReceiveWsMsgUser
    <3>1. phase = "user" /\ screen = typed /\ UNCHANGED wsUp
        BY <2>1, <1>1 DEF Ssh!ReceiveWsMsgUser, SshInv
    <3>2. CASE phase' = phase
        BY <2>1, <3>1, <3>2 DEF Ssh!ReceiveWsMsgUser
    <3>3. CASE phase' # phase
        BY <2>1, <3>1, <3>3 DEF Ssh!ReceiveWsMsgUser
    <3>4. QED
        BY <3>2, <3>3
  <2>2. CASE Ssh!ReceiveWsMsgPassword
      BY <2>2, <1>1 DEF Ssh!ReceiveWsMsgPassword, SshInv
  <2>3. CASE Ssh!PromptFails
      BY <2>3, <1>1 DEF Ssh!PromptFails
  <2>4. CASE Ssh!NewSshConn
      BY <2>4, <1>1 DEF Ssh!NewSshConn, Ssh!prompt, SshInv
  <2>5. QED
      BY <2>1, <2>2, <2>3, <2>4
<1>3. QED
    BY <1>1, <1>2 DEF SshInv

\* The shell's output and its flushes keep it.
LEMMA OutputInv == SshInv /\ (Ssh!Write \/ Ssh!FlushWrite \/ Ssh!FlushReset) => SshInv'
<1> SUFFICES ASSUME SshInv, Ssh!Write \/ Ssh!FlushWrite \/ Ssh!FlushReset PROVE SshInv'
    OBVIOUS
<1>1. UNCHANGED <<phase, typed, name, screen, wsUp>>
    BY DEF Ssh!Write, Ssh!FlushWrite, Ssh!FlushReset, Ssh!prompt
<1>2. CASE Ssh!Write
  <2>1. UNCHANGED <<shown, sender>> /\ written' = written + 1
        /\ buffer' = Append(buffer, written + 1)
      BY <1>2 DEF Ssh!Write, Ssh!threads
  <2>2. CASE sender # "reset"
      BY <1>1, <2>1, <2>2, IncreasingAppend DEF SshInv
  <2>3. CASE sender = "reset"
    <3>1. <<>> \in Seq(Nat) /\ Before(<<>>, buffer) /\ UpTo(<<>>, written)
        BY DEF Before, UpTo
    <3>2. Increasing(buffer') /\ UpTo(buffer', written') /\ buffer' \in Seq(Nat)
        BY <2>1, <3>1, IncreasingAppend DEF SshInv
    <3>3. UpTo(shown, written + 1)
        BY DEF UpTo, SshInv
    <3>4. QED
        BY <1>1, <2>1, <2>3, <3>2, <3>3 DEF SshInv
  <2>4. QED
      BY <2>2, <2>3
<1>3. CASE Ssh!FlushWrite
  <2>1. UNCHANGED <<written, buffer>> /\ sender = "select"
      BY <1>3 DEF Ssh!FlushWrite
  <2>2. CASE shown' = shown
      BY <1>1, <1>3, <2>1, <2>2 DEF SshInv, Ssh!FlushWrite
  <2>3. CASE shown' # shown
    <3>1. shown' = shown \o buffer /\ sender' = "reset"
        BY <1>3, <2>3 DEF Ssh!FlushWrite
    <3>2. shown' \in Seq(Nat) /\ Increasing(shown') /\ UpTo(shown', written)
        BY <2>1, <3>1, IncreasingConcat DEF SshInv
    <3>3. QED
        BY <1>1, <2>1, <3>1, <3>2 DEF SshInv
  <2>4. QED
      BY <2>2, <2>3
<1>4. CASE Ssh!FlushReset
  <2>1. UNCHANGED <<written, shown>> /\ sender = "reset" /\ buffer' = <<>>
      BY <1>4 DEF Ssh!FlushReset
  <2>2. buffer' \in Seq(Nat) /\ Increasing(buffer') /\ UpTo(buffer', written)
        /\ Before(shown, buffer')
      BY <2>1 DEF Increasing, UpTo, Before
  <2>3. QED
      BY <1>1, <2>1, <2>2 DEF SshInv
<1>5. QED
    BY <1>2, <1>3, <1>4

\* The tokens and the ends of the goroutines touch nothing of it.
LEMMA TokenInv ==
    ASSUME SshInv,
           \/ Ssh!BrowserLeaves \/ Ssh!ShellEnds \/ Ssh!CallerEnds \/ Ssh!Reader
           \/ Ssh!SenderEnds \/ Ssh!SessionWait \/ Ssh!Rest
    PROVE  SshInv'
<1>1. /\ UNCHANGED <<phase, typed, name, screen, written, buffer, shown>>
      /\ wsUp' = wsUp \/ wsUp' = FALSE
      /\ sender' = sender \/ (sender = "select" /\ sender' = "done")
    BY DEF Ssh!BrowserLeaves, Ssh!ShellEnds, Ssh!CallerEnds, Ssh!Reader, Ssh!ReceiveWsMsg,
           Ssh!Login, Ssh!SenderEnds, Ssh!SessionWait, Ssh!Rest, Ssh!prompt, Ssh!output,
           Ssh!threads, Ssh!sshVars
<1>2. CASE wsUp' = wsUp
    BY <1>1, <1>2 DEF SshInv
<1>3. CASE wsUp' = FALSE
    BY <1>1, <1>3 DEF SshInv
<1>4. QED
    BY <1>1, <1>2, <1>3

\* The inductive invariant of a terminal session, whatever else runs.
THEOREM SessionInvariant == MCSpec => []SshInv
<1>1. MCInit => SshInv
    BY SshInitInv DEF MCInit
<1>2. SshInv /\ [MCNext]_allVars => SshInv'
  <2> SUFFICES ASSUME SshInv, [MCNext]_allVars PROVE SshInv'
      OBVIOUS
  <2>1. CASE Session(Ssh!Next)
      BY <2>1, PromptInv, OutputInv, TokenInv DEF Session, Ssh!Next, Ssh!Sender
  <2>2. CASE sshVars' = sshVars
      BY <2>2 DEF sshVars, SshInv, Increasing, UpTo, Before
  <2>3. QED
      BY <2>1, <2>2 DEF MCNext, allVars, Queue, Writing, Running, PutOff
<1>3. QED
    BY <1>1, <1>2, PTL DEF MCSpec

\* The browser shows the name as it is typed and nothing of the password, and
\* the shell's output once and in its order, for any keys and any output, however
\* writes, flushes, resets and the tokens interleave.
THEOREM SessionScreenTrue == MCSpec => []ScreenTrue
<1>1. SshInv => ScreenTrue
  <2> SUFFICES ASSUME SshInv PROVE ScreenTrue
      OBVIOUS
  <2>1. DOMAIN shown = 1..Len(shown)
      BY DEF SshInv
  <2>2. QED
      BY <2>1 DEF SshInv, Increasing, ScreenTrue, Ssh!ScreenTrue
<1>2. QED
    BY <1>1, SessionInvariant, PTL

-----------------------------------------------------------------------------
(* An archive.                                                             *)

\* What WalkDir may still have to visit of a selected path.
Todos == {<<>>, <<"root">>, <<"d">>, <<"x">>, <<"y">>, <<"d", "y">>, <<"x", "y">>}

Below(s) == {p \in Arc!Paths : Arc!Within(p, s)}
Under(t) == {p \in Arc!Paths : \E i \in 1..Len(t) : Arc!Within(p, t[i])}

Inodes  == [kind : Arc!Kinds \cup {"none"}, size : Nat]
Jobs    == [path : Arc!Paths \cup {""}, ino : Nat, size : Nat]
Entered == [path : Arc!Paths, seen : Nat, size : Nat, ino : Nat, got : Nat]

ArcTyped ==
    /\ node \in [Arc!Paths -> Nat] /\ inode \in Seq(Inodes) /\ still \subseteq Arc!Paths
    /\ sel \in Seq(Arc!Paths) /\ nth \in 0..Len(sel) /\ todo \in Todos /\ job \in Jobs
    /\ wpc \in {"select", "readlink", "add", "wait", "list", "fail", "close", "done", "failed"}
    /\ apc \in {"opening", "idle", "header", "open", "body", "stopped"}
    /\ err \in BOOLEAN /\ latch \in BOOLEAN /\ archErr \in BOOLEAN /\ ended \in BOOLEAN
    /\ entries \in Seq(Entered)

\* No selected path is inside another.
Apart == \A m, n \in 1..Len(sel) : m # n => ~Arc!Within(sel[m], sel[n])

\* The inode a path has as long as nobody touched it.
First(p) == IF p = "root" THEN 1 ELSE IF p = "d" THEN 2 ELSE IF p = "x" THEN 3 ELSE 4

\* The folder: an inode keeps its kind, only root and d are directories, and what
\* is in a directory that was touched counts as touched.
FolderInv ==
    /\ Len(inode) >= 4 /\ \A n \in 1..Len(inode) : inode[n].kind = "dir" <=> n \in {1, 2}
    /\ node["root"] = 1 /\ node["d"] \in {0, 2}
    /\ \A p \in {"x", "y"} : node[p] \in 0..Len(inode) /\ node[p] \notin {1, 2}
    /\ "x" \in still => "d" \in still
    /\ \A p \in still : node[p] = First(p)

\* Where walker and archiver are: an error is latched before the end may be
\* written, and the archiver stops for an error, or at the end.
Control ==
    /\ wpc = "wait" <=> apc \in {"header", "open", "body"}
    /\ apc = "stopped" => archErr \/ latch \/ ended
    /\ wpc = "fail" => err
    /\ err => wpc \in {"fail", "close", "done", "failed"} /\ (wpc # "fail" => latch)
    /\ ended => ~err /\ apc = "stopped" /\ wpc \in {"close", "done", "failed"}
    /\ wpc = "done" => ended
    /\ wpc \in {"close", "done", "failed"} /\ ~err => nth = Len(sel) /\ todo = <<>>

\* The entry in hand is the first of todo.
JobInv ==
    /\ wpc \in {"readlink", "add", "wait", "list"} =>
          todo # <<>> /\ job.path = Head(todo) /\ job.ino \in 1..Len(inode)
    /\ wpc = "readlink" => job.path \in {"x", "y"}
    /\ wpc \in {"readlink", "add", "wait"} =>
          job.path # "root" /\ job.ino # 1 /\ (job.path = "d" <=> job.ino = 2)
    /\ wpc = "list" => job.path \in {"root", "d"}
    /\ apc \in {"open", "body"} => inode[job.ino].kind = "file"

Whole(e) == inode[e.seen].kind = "file" => e.ino = e.seen /\ e.got = e.size

\* Every entry is whole, but the one in hand between its header and its body.
Content ==
    /\ \A n \in 1..Len(entries) :
          /\ entries[n].seen \in 1..Len(inode)
          /\ Whole(entries[n]) \/ (n = Len(entries) /\ apc \in {"open", "body"})
    /\ apc \in {"open", "body"} =>
          /\ entries # <<>> /\ entries[Len(entries)].seen = job.ino
          /\ entries[Len(entries)].size = job.size

\* The paths that have an entry, that WalkDir still comes to, of the selected
\* paths not begun; and what nobody touched of those begun.
Made  == {entries[n].path : n \in 1..Len(entries)}
Waits == IF apc \in {"open", "body"} \/ wpc = "list" THEN Under(todo) \ {job.path} ELSE Under(todo)
Later == {p \in Arc!Paths : \E n \in (nth + 1)..Len(sel) : Arc!Within(p, sel[n])}
Need  == {p \in still \ {"root"} :
             Arc!Kind(p) # "pipe" /\ \E n \in 1..nth : Arc!Within(p, sel[n])}

Once == \A m, n \in 1..Len(entries) : entries[m].path = entries[n].path => m = n

\* They are apart, and nothing is forgotten.
Covered ==
    /\ Once /\ Made \cap Waits = {} /\ Made \cap Later = {} /\ Under(todo) \cap Later = {}
    /\ Need \subseteq Made \cup Waits

ArcInv ==
    /\ ArcTyped /\ Apart /\ FolderInv /\ Control
    /\ ~err => JobInv /\ Content /\ Covered

\* The tree of paths: what is inside two is inside one of them; x and y hold nothing.
LEMMA Tree ==
    /\ \A p, s, t \in Arc!Paths :
          Arc!Within(p, s) /\ Arc!Within(p, t) => Arc!Within(s, t) \/ Arc!Within(t, s)
    /\ \A p \in Arc!Paths : p \in Below(p)
    /\ Below("x") = {"x"} /\ Below("y") = {"y"} /\ Below("d") = {"d", "x"}
    /\ Below("root") = Arc!Paths
BY DEF Arc!Within, Arc!Paths, Below

\* What is under the paths of todo, first and rest.
LEMMA TodoSplit ==
    ASSUME NEW t \in Todos, t # <<>>
    PROVE  /\ Head(t) \in Arc!Paths /\ Tail(t) \in Todos /\ Under(<<>>) = {}
           /\ Under(t) = Below(Head(t)) \cup Under(Tail(t))
           /\ Below(Head(t)) \cap Under(Tail(t)) = {}
<1>1. Under(<<>>) = {}
    BY DEF Under
<1>2. \A p \in Arc!Paths : Under(<<p>>) = Below(p)
    BY DEF Under, Below
<1>3. Under(<<"d", "y">>) = Below("d") \cup Below("y")
    BY DEF Under, Below
<1>4. Under(<<"x", "y">>) = Below("x") \cup Below("y")
    BY DEF Under, Below
<1>5. CASE t = <<"d", "y">>
    BY <1>2, <1>3, <1>1, <1>5, Tree DEF Todos, Arc!Paths
<1>6. CASE t = <<"x", "y">>
    BY <1>2, <1>4, <1>1, <1>6, Tree DEF Todos, Arc!Paths
<1>7. ASSUME NEW p \in Arc!Paths, t = <<p>> PROVE Head(t) = p /\ Tail(t) = <<>>
    BY <1>7
<1>8. CASE t \in {<<"root">>, <<"d">>, <<"x">>, <<"y">>}
    BY <1>1, <1>2, <1>7, <1>8 DEF Todos, Arc!Paths
<1>9. QED
    BY <1>1, <1>5, <1>6, <1>8 DEF Todos

\* How two sequences of at most one path are one.
LEMMA Concats ==
    /\ <<>> \o <<>> = <<>>
    /\ \A a, b : <<a>> \o <<>> = <<a>> /\ <<>> \o <<b>> = <<b>> /\ <<a>> \o <<b>> = <<a, b>>
<1>1. <<>> \o <<>> = <<>>
    OBVIOUS
<1>2. ASSUME NEW a PROVE <<a>> \o <<>> = <<a>> /\ <<>> \o <<a>> = <<a>>
    OBVIOUS
<1>3. ASSUME NEW a, NEW b PROVE <<a>> \o <<b>> = <<a, b>>
  <2> DEFINE s == <<a>> \o <<b>>
  <2>1. <<a>> \in Seq({a, b}) /\ <<b>> \in Seq({a, b}) /\ <<a, b>> \in Seq({a, b})
      OBVIOUS
  <2>2. s \in Seq({a, b}) /\ Len(s) = 2 /\ s[1] = a /\ s[2] = b
      BY <2>1
  <2>3. Len(<<a, b>>) = 2 /\ <<a, b>>[1] = a /\ <<a, b>>[2] = b
      OBVIOUS
  <2> HIDE DEF s
  <2>4. s = <<a, b>>
      BY <2>1, <2>2, <2>3, SeqEqual
  <2>5. QED
      BY <2>4 DEF s
<1>4. QED
    BY <1>1, <1>2, <1>3

\* A directory's place in todo is taken by what is in it, by what nobody touched at least.
LEMMA Expands ==
    ASSUME FolderInv, NEW t \in Todos, t # <<>>, Head(t) \in {"root", "d"},
           NEW r, r = Arc!Inside(Head(t)) \o Tail(t)
    PROVE  /\ r \in Todos /\ Under(r) \subseteq Under(t) \ {Head(t)}
           /\ still \cap (Under(t) \ {Head(t)}) \subseteq Under(r)
<1>0. /\ \A p \in Arc!Paths : Under(<<p>>) = Below(p)
      /\ Under(<<"d", "y">>) = Below("d") \cup Below("y")
      /\ Under(<<"x", "y">>) = Below("x") \cup Below("y")
    BY DEF Under, Below
<1>1. /\ Under(<<>>) = {} /\ Under(<<"root">>) = {"root", "d", "x", "y"}
      /\ Under(<<"d">>) = {"d", "x"} /\ Under(<<"x">>) = {"x"} /\ Under(<<"y">>) = {"y"}
      /\ Under(<<"d", "y">>) = {"d", "x", "y"} /\ Under(<<"x", "y">>) = {"x", "y"}
    BY <1>0, Tree DEF Under, Arc!Paths
<1>2. /\ \A p : Arc!There(p) = IF node[p] = 0 THEN <<>> ELSE <<p>>
      /\ Arc!Inside("root") = Arc!There("d") \o Arc!There("y")
      /\ Arc!Inside("d") = Arc!There("x")
    BY DEF Arc!Inside, Arc!There
<1>3. /\ \A p \in {"d", "x", "y"} : node[p] = 0 => p \notin still
      /\ node["d"] = 0 => "x" \notin still
    BY DEF FolderInv, First
<1>4. CASE t = <<"root">>
  <2>1. Head(t) = "root" /\ Tail(t) = <<>>
      BY <1>4
  <2>2. r = (Arc!There("d") \o Arc!There("y")) \o <<>>
      BY <1>2, <2>1
  <2>3. CASE node["d"] = 0 /\ node["y"] = 0
    <3>1. Arc!There("d") = <<>> /\ Arc!There("y") = <<>>
        BY <1>2, <2>3
    <3>2. r = <<>>
        BY <2>2, <3>1, Concats
    <3>3. r \in Todos
        BY <3>2 DEF Todos
    <3>4. QED
        BY <1>1, <1>3, <1>4, <2>1, <2>3, <3>2, <3>3
  <2>4. CASE node["d"] = 0 /\ node["y"] # 0
    <3>1. Arc!There("d") = <<>> /\ Arc!There("y") = <<"y">>
        BY <1>2, <2>4
    <3>2. r = <<"y">>
        BY <2>2, <3>1, Concats
    <3>3. r \in Todos
        BY <3>2 DEF Todos
    <3>4. QED
        BY <1>1, <1>3, <1>4, <2>1, <2>4, <3>2, <3>3
  <2>5. CASE node["d"] # 0 /\ node["y"] = 0
    <3>1. Arc!There("d") = <<"d">> /\ Arc!There("y") = <<>>
        BY <1>2, <2>5
    <3>2. r = <<"d">>
        BY <2>2, <3>1, Concats
    <3>3. r \in Todos
        BY <3>2 DEF Todos
    <3>4. QED
        BY <1>1, <1>3, <1>4, <2>1, <2>5, <3>2, <3>3
  <2>6. CASE node["d"] # 0 /\ node["y"] # 0
    <3>1. Arc!There("d") = <<"d">> /\ Arc!There("y") = <<"y">>
        BY <1>2, <2>6
    <3>2. r = <<"d", "y">>
      <4>1. r = <<"d", "y">> \o <<>>
          BY <2>2, <3>1, Concats
      <4>2. <<"d", "y">> \in Seq(Arc!Paths)
          BY DEF Arc!Paths
      <4>3. QED
          BY <4>1, <4>2, ConcatEmptySeq
    <3>3. r \in Todos
        BY <3>2 DEF Todos
    <3>4. QED
        BY <1>1, <1>3, <1>4, <2>1, <2>6, <3>2, <3>3
  <2>7. QED
      BY <2>3, <2>4, <2>5, <2>6
<1>5. CASE t = <<"d">>
  <2>1. Head(t) = "d" /\ Tail(t) = <<>>
      BY <1>5
  <2>2. r = (Arc!There("x")) \o <<>>
      BY <1>2, <2>1
  <2>3. CASE node["x"] = 0
    <3>1. Arc!There("x") = <<>>
        BY <1>2, <2>3
    <3>2. r = <<>>
        BY <2>2, <3>1, Concats
    <3>3. r \in Todos
        BY <3>2 DEF Todos
    <3>4. QED
        BY <1>1, <1>3, <1>5, <2>1, <2>3, <3>2, <3>3
  <2>4. CASE node["x"] # 0
    <3>1. Arc!There("x") = <<"x">>
        BY <1>2, <2>4
    <3>2. r = <<"x">>
        BY <2>2, <3>1, Concats
    <3>3. r \in Todos
        BY <3>2 DEF Todos
    <3>4. QED
        BY <1>1, <1>3, <1>5, <2>1, <2>4, <3>2, <3>3
  <2>5. QED
      BY <2>3, <2>4
<1>6. CASE t = <<"d", "y">>
  <2>1. Head(t) = "d" /\ Tail(t) = <<"y">>
      BY <1>6
  <2>2. r = (Arc!There("x")) \o <<"y">>
      BY <1>2, <2>1
  <2>3. CASE node["x"] = 0
    <3>1. Arc!There("x") = <<>>
        BY <1>2, <2>3
    <3>2. r = <<"y">>
        BY <2>2, <3>1, Concats
    <3>3. r \in Todos
        BY <3>2 DEF Todos
    <3>4. QED
        BY <1>1, <1>3, <1>6, <2>1, <2>3, <3>2, <3>3
  <2>4. CASE node["x"] # 0
    <3>1. Arc!There("x") = <<"x">>
        BY <1>2, <2>4
    <3>2. r = <<"x", "y">>
        BY <2>2, <3>1, Concats
    <3>3. r \in Todos
        BY <3>2 DEF Todos
    <3>4. QED
        BY <1>1, <1>3, <1>6, <2>1, <2>4, <3>2, <3>3
  <2>5. QED
      BY <2>3, <2>4
<1>7. t \in {<<"root">>, <<"d">>, <<"d", "y">>}
    BY DEF Todos
<1>8. QED
    BY <1>4, <1>5, <1>6, <1>7

\* What a path is by now: gone, it was touched; a directory, it is root or d.
LEMMA KindOf ==
    ASSUME ArcTyped, FolderInv, NEW p \in Arc!Paths
    PROVE  /\ Arc!Kind(p) = "gone" <=> node[p] = 0
           /\ Arc!Kind(p) = "gone" => p # "root" /\ still \cap Below(p) = {}
           /\ node[p] # 0 => /\ node[p] \in 1..Len(inode) /\ inode[node[p]] \in Inodes
                             /\ Arc!Kind(p) = inode[node[p]].kind
           /\ p \in {"root", "d"} => Arc!Kind(p) \in {"dir", "gone"}
           /\ p \in {"x", "y"} => Arc!Kind(p) # "dir"
           /\ node[p] # 0 => (p = "d" <=> node[p] = 2) /\ (p = "root" <=> node[p] = 1)
<1>1. p \in {"root", "d", "x", "y"}
    BY DEF Arc!Paths
<1>2. node[p] # 0 => /\ node[p] \in 1..Len(inode) /\ inode[node[p]] \in Inodes
                     /\ inode[node[p]].kind \in {"dir", "file", "link", "pipe", "none"}
                     /\ Arc!Kind(p) = inode[node[p]].kind
  <2>1. node[p] # 0 => node[p] \in 1..Len(inode)
      BY <1>1 DEF ArcTyped, FolderInv
  <2>2. node[p] # 0 => inode[node[p]] \in Inodes
      BY <2>1 DEF ArcTyped
  <2>3. \A e \in Inodes : e.kind \in {"dir", "file", "link", "pipe", "none"}
      BY DEF Inodes, Arc!Kinds
  <2>4. node[p] # 0 => Arc!Kind(p) = inode[node[p]].kind
      BY DEF Arc!Kind
  <2>5. QED
      BY <2>1, <2>2, <2>3, <2>4
<1>3. Arc!Kind(p) = "gone" <=> node[p] = 0
    BY <1>2 DEF Arc!Kind
<1>4. node[p] = 0 => p # "root" /\ still \cap Below(p) = {}
    BY <1>1, Tree DEF FolderInv, First
<1>5. node[p] # 0 => (p = "d" <=> node[p] = 2) /\ (p = "root" <=> node[p] = 1)
    BY <1>1 DEF FolderInv
<1>6. p \in {"root", "d"} => Arc!Kind(p) \in {"dir", "gone"}
    BY <1>2, <1>3, <1>5 DEF FolderInv
<1>7. p \in {"x", "y"} => Arc!Kind(p) # "dir"
    BY <1>2, <1>3, <1>5 DEF FolderInv
<1>8. QED
    BY <1>2, <1>3, <1>4, <1>5, <1>6, <1>7

\* The walk goes on without an entry: what it leaves out was touched or is a pipe.
LEMMA CoveredKept ==
    ASSUME Covered, UNCHANGED <<entries, nth, sel>>, Need' \subseteq Need,
           Waits' \subseteq Waits, Under(todo') \subseteq Under(todo),
           Need' \cap Waits \subseteq Waits'
    PROVE  Covered'
<1>1. Made' = Made /\ Later' = Later /\ Once' = Once
    BY DEF Made, Later, Once
<1>2. QED
    BY <1>1 DEF Covered

\* An error: nothing more is claimed of what was sent.
LEMMA Failed ==
    ASSUME ArcInv, wpc \notin {"fail", "close", "done", "failed"}, Arc!Fail, job' \in Jobs,
           UNCHANGED <<node, inode, still, archErr, ended>>,
           latch' \in BOOLEAN, latch => latch', entries' \in Seq(Entered),
           apc' \in {"opening", "idle", "stopped"}, apc' = "stopped" => apc = "stopped"
    PROVE  ArcInv'
<1>1. /\ err' = TRUE /\ wpc' = "fail" /\ UNCHANGED <<sel, nth, todo>>
    BY DEF Arc!Fail
<1>2. ArcTyped' /\ Apart' /\ FolderInv'
    BY <1>1 DEF ArcInv, ArcTyped, Apart, FolderInv
<1>3. Control'
    BY <1>1 DEF ArcInv, Control
<1>4. QED
    BY <1>1, <1>2, <1>3 DEF ArcInv

\* Init establishes the invariant.
LEMMA ArcInitInv == Arc!Init => ArcInv
<1> SUFFICES ASSUME Arc!Init PROVE ArcInv
    OBVIOUS
<1>1. /\ node = [p \in Arc!Paths |-> CASE p = "root" -> 1 [] p = "d" -> 2
                                       [] p = "x" -> 3 [] p = "y" -> 4]
      /\ nth = 0 /\ todo = <<>> /\ job = Arc!NoJob /\ wpc = "select" /\ apc = "opening"
      /\ still = Arc!Paths /\ err = FALSE /\ latch = FALSE /\ archErr = FALSE
      /\ entries = <<>> /\ ended = FALSE
    BY DEF Arc!Init
<1>2. sel \in Seq(Arc!Paths) /\ Apart
  <2> PICK s \in Selections : sel \in Arc!SetToSeqs(s)
      BY DEF Arc!Init
  <2>1. s \subseteq Arc!Paths /\ \A p, q \in s : p # q => ~Arc!Within(p, q)
      BY SelectionsAssumption
  <2>2. IsFiniteSet(Arc!Paths)
    <3>1. IsFiniteSet({}) 
        BY FS_EmptySet
    <3>2. IsFiniteSet({} \cup {"root"})
        BY <3>1, FS_AddElement
    <3>3. IsFiniteSet(({} \cup {"root"}) \cup {"d"})
        BY <3>2, FS_AddElement
    <3>4. IsFiniteSet((({} \cup {"root"}) \cup {"d"}) \cup {"x"})
        BY <3>3, FS_AddElement
    <3>5. IsFiniteSet(((({} \cup {"root"}) \cup {"d"}) \cup {"x"}) \cup {"y"})
        BY <3>4, FS_AddElement
    <3>6. Arc!Paths = ((({} \cup {"root"}) \cup {"d"}) \cup {"x"}) \cup {"y"}
        BY DEF Arc!Paths
    <3>7. QED
        BY <3>5, <3>6
  <2> PICK k : k = Cardinality(s)
      OBVIOUS
  <2>c. Arc!Cardinality(s) = k
      BY DEF Arc!Cardinality, Cardinality
  <2>3. k \in Nat
      BY <2>1, <2>2, FS_Subset, FS_CardinalityType
  <2>4. sel \in [1..k -> s] /\ \A i, j \in 1..k : i # j => sel[i] # sel[j]
      BY <2>c DEF Arc!SetToSeqs
  <2>5. sel \in Seq(Arc!Paths) /\ Len(sel) = k
      BY <2>1, <2>3, <2>4
  <2>6. QED
      BY <2>1, <2>3, <2>4, <2>5 DEF Apart
<1>3. PICK x \in {"file", "link", "pipe"}, y \in {"file", "link", "pipe"} :
         inode = <<[kind |-> "dir", size |-> 0], [kind |-> "dir", size |-> 0],
                   [kind |-> x, size |-> 2], [kind |-> y, size |-> 2]>>
    BY DEF Arc!Init
<1>4. /\ inode \in Seq(Inodes) /\ Len(inode) = 4
      /\ inode[1].kind = "dir" /\ inode[2].kind = "dir"
      /\ inode[3].kind # "dir" /\ inode[4].kind # "dir"
  <2>1. /\ [kind |-> "dir", size |-> 0] \in Inodes
        /\ [kind |-> x, size |-> 2] \in Inodes /\ [kind |-> y, size |-> 2] \in Inodes
      BY DEF Inodes, Arc!Kinds
  <2>2. QED
      BY <1>3, <2>1
<1>5. /\ node \in [Arc!Paths -> Nat]
      /\ node["root"] = 1 /\ node["d"] = 2 /\ node["x"] = 3 /\ node["y"] = 4
  <2>1. /\ node["root"] = 1 /\ node["d"] = 2 /\ node["x"] = 3 /\ node["y"] = 4
      BY <1>1 DEF Arc!Paths
  <2>2. \A p \in Arc!Paths : node[p] \in Nat
      BY <2>1 DEF Arc!Paths
  <2>3. QED
      BY <1>1, <2>1, <2>2
<1>6. FolderInv
  <2>1. \A n \in 1..Len(inode) : inode[n].kind = "dir" <=> n \in {1, 2}
      BY <1>4
  <2>2. \A p \in still : node[p] = First(p)
      BY <1>1, <1>5 DEF First, Arc!Paths
  <2>3. QED
      BY <1>1, <1>4, <1>5, <2>1, <2>2 DEF FolderInv, Arc!Paths
<1>7. Arc!NoJob \in Jobs /\ <<>> \in Todos /\ <<>> \in Seq(Entered) /\ Len(sel) \in Nat
    BY <1>2 DEF Arc!NoJob, Jobs, Todos
<1>8. ArcTyped /\ Control
  <2>1. nth \in 0..Len(sel)
      BY <1>1, <1>7
  <2>2. ArcTyped
      BY <1>1, <1>2, <1>4, <1>5, <1>7, <2>1 DEF ArcTyped
  <2>3. QED
      BY <1>1, <2>2 DEF Control
<1>9. JobInv /\ Content /\ Covered
    BY <1>1, TodoSplit DEF JobInv, Content, Covered, Once, Made, Waits, Need, Under
<1>10. QED
    BY <1>2, <1>6, <1>8, <1>9 DEF ArcInv

\* The folder stays as it is.
LEMMA FolderStays ==
    ASSUME UNCHANGED <<node, inode, still>>
    PROVE  /\ FolderInv' = FolderInv /\ \A p : Arc!Kind(p)' = Arc!Kind(p)
           /\ UNCHANGED <<nth, sel>> => Need' = Need
BY DEF FolderInv, Arc!Kind, Need

\* The next selected path, or the end of the walk.
LEMMA SelectInv == ArcInv /\ Arc!Select => ArcInv'
<1> SUFFICES ASSUME ArcInv, Arc!Select PROVE ArcInv'
    OBVIOUS
<1>1. /\ UNCHANGED <<node, inode, still, job, apc, archErr, latch, entries, ended>>
      /\ wpc = "select" /\ todo = <<>> /\ ~err /\ apc \in {"opening", "idle", "stopped"}
    BY DEF Arc!Select, Arc!folder, Arc!sent, ArcInv, ArcTyped, Control
<1>2. CASE Arc!Fail
    BY <1>1, <1>2, Failed DEF ArcInv, ArcTyped
<1>3. CASE nth = Len(sel) /\ wpc' = "close" /\ UNCHANGED Arc!walk
  <2>1. UNCHANGED <<sel, nth, todo, err>>
      BY <1>3 DEF Arc!walk
  <2>2. ArcTyped' /\ Apart' /\ FolderInv'
      BY <1>1, <1>3, <2>1, FolderStays DEF ArcInv, ArcTyped, Apart
  <2>3. Control'
      BY <1>1, <1>3, <2>1 DEF ArcInv, Control
  <2>4. JobInv' /\ Content'
      BY <1>1, <1>3, <2>1 DEF ArcInv, JobInv, Content, Whole
  <2>5. Waits' = Waits /\ Need' = Need
      BY <1>1, <1>3, <2>1, FolderStays DEF Waits
  <2>6. Covered'
      BY <1>1, <2>1, <2>5, CoveredKept DEF ArcInv
  <2>7. QED
      BY <2>2, <2>3, <2>4, <2>6 DEF ArcInv
<1>4. CASE /\ nth # Len(sel) /\ nth' = nth + 1 /\ start' = sel[nth'] /\ todo' = <<sel[nth']>>
           /\ UNCHANGED <<sel, err, wpc>>
  <2> PICK p : p = sel[nth + 1]
      OBVIOUS
  <2>1. /\ nth \in Nat /\ nth + 1 \in 1..Len(sel) /\ p \in Arc!Paths /\ todo' = <<p>>
        /\ sel \in Seq(Arc!Paths)
      BY <1>4 DEF ArcInv, ArcTyped
  <2>2. todo' \in Todos /\ Under(todo') = Below(p)
      BY <2>1 DEF Todos, Arc!Paths, Under, Below
  <2>3. ArcTyped' /\ Apart' /\ FolderInv'
      BY <1>1, <1>4, <2>1, <2>2, FolderStays DEF ArcInv, ArcTyped, Apart
  <2>4. Control'
      BY <1>1, <1>4 DEF ArcInv, Control
  <2>5. JobInv' /\ Content'
      BY <1>1, <1>4 DEF ArcInv, JobInv, Content, Whole
  <2>6. /\ Waits = {} /\ Waits' = Below(p) /\ Made' = Made /\ Once' = Once
        /\ Later = Later' \cup Below(p)
    <3>1. Waits = {} /\ Waits' = Below(p)
      <4>1. Under(<<>>) = {}
          BY DEF Under
      <4>2. QED
          BY <1>1, <1>4, <2>2, <4>1 DEF Waits
    <3>2. Made' = Made /\ Once' = Once
        BY <1>1 DEF Made, Once
    <3>3. ASSUME NEW q \in Arc!Paths PROVE q \in Later <=> q \in Later' \cup Below(p)
        BY <1>4, <2>1 DEF Later, Below
    <3>4. Later \subseteq Arc!Paths /\ Later' \subseteq Arc!Paths /\ Below(p) \subseteq Arc!Paths
        BY DEF Later, Below
    <3>5. QED
        BY <3>1, <3>2, <3>3, <3>4
  <2>7. Below(p) \cap Later' = {}
    <3> SUFFICES ASSUME NEW q \in Arc!Paths, NEW n \in (nth' + 1)..Len(sel),
                        Arc!Within(q, p), Arc!Within(q, sel[n])
                 PROVE  FALSE
        BY <1>4 DEF Below, Later
    <3>1. n \in 1..Len(sel) /\ n # nth + 1 /\ sel[n] \in Arc!Paths
        BY <1>4, <2>1
    <3>2. ~Arc!Within(sel[n], p) /\ ~Arc!Within(p, sel[n])
        BY <2>1, <3>1 DEF ArcInv, Apart
    <3>3. QED
        BY <2>1, <3>1, <3>2, Tree
  <2>8. Need' \subseteq Need \cup Below(p)
    <3> SUFFICES ASSUME NEW q \in still \ {"root"}, Arc!Kind(q) # "pipe",
                        NEW n \in 1..(nth + 1), Arc!Within(q, sel[n])
                 PROVE  q \in Need \cup Below(p)
        BY <1>1, <1>4, FolderStays DEF Need
    <3>1. q \in Arc!Paths
        BY DEF ArcInv, ArcTyped
    <3>2. n = nth + 1 \/ n \in 1..nth
        BY <2>1
    <3>3. QED
        BY <3>1, <3>2 DEF Need, Below
  <2>9. Covered'
      BY <1>1, <2>2, <2>6, <2>7, <2>8 DEF ArcInv, Covered
  <2>10. QED
      BY <2>3, <2>4, <2>5, <2>9 DEF ArcInv
<1>5. QED
    BY <1>1, <1>2, <1>3, <1>4 DEF Arc!Select

\* An entry is left out.
LEMMA LeftOut ==
    ASSUME ArcInv, ~err, todo # <<>>, wpc \in {"select", "readlink"}, wpc' = "select",
           todo' = Tail(todo), Arc!Kind(Head(todo)) \in {"gone", "pipe"}, job' \in Jobs,
           UNCHANGED <<node, inode, still, sel, nth, err, apc, archErr, latch, entries, ended>>
    PROVE  ArcInv'
<1> PICK p : p = Head(todo)
    OBVIOUS
<1>1. /\ p \in Arc!Paths /\ todo' \in Todos /\ Under(todo) = Below(p) \cup Under(todo')
      /\ Below(p) \cap Under(todo') = {}
    BY TodoSplit DEF ArcInv, ArcTyped
<1>2. apc \notin {"header", "open", "body"}
    BY DEF ArcInv, Control
<1>3. ArcTyped' /\ Apart' /\ FolderInv'
    BY <1>1, FolderStays DEF ArcInv, ArcTyped, Apart
<1>4. Control'
    BY <1>2 DEF ArcInv, Control
<1>5. JobInv' /\ Content'
    BY <1>2 DEF ArcInv, JobInv, Content, Whole
<1>6. Waits = Under(todo) /\ Waits' = Under(todo')
    BY <1>2 DEF Waits
<1>7. Need \cap Below(p) = {}
  <2>1. CASE Arc!Kind(p) = "gone"
      BY <1>1, <2>1, KindOf DEF ArcInv, Need
  <2>2. CASE Arc!Kind(p) = "pipe"
    <3>1. p \in {"x", "y"}
        BY <1>1, <2>2, KindOf DEF ArcInv, Arc!Paths
    <3>2. QED
        BY <2>2, <3>1, Tree DEF Need
  <2>3. QED
      BY <2>1, <2>2
<1>8. Need' = Need
    BY FolderStays
<1>9. Covered'
    BY <1>1, <1>6, <1>7, <1>8, CoveredKept DEF ArcInv
<1>10. QED
    BY <1>3, <1>4, <1>5, <1>9 DEF ArcInv

\* The callback of WalkDir.
LEMMA VisitInv == ArcInv /\ Arc!Visit => ArcInv'
<1> SUFFICES ASSUME ArcInv, Arc!Visit PROVE ArcInv'
    OBVIOUS
<1> PICK p : p = Head(todo)
    OBVIOUS
<1>1. /\ UNCHANGED <<node, inode, still, apc, archErr, latch, entries, ended>>
      /\ wpc = "select" /\ todo # <<>> /\ ~err /\ apc \in {"opening", "idle", "stopped"}
    BY DEF Arc!Visit, Arc!folder, Arc!sent, ArcInv, ArcTyped, Control
<1>2. p \in Arc!Paths /\ job \in Jobs /\ Todos \subseteq Seq(Arc!Paths)
    BY <1>1, TodoSplit DEF ArcInv, ArcTyped, Todos, Arc!Paths
<1>3. CASE Arc!Fail /\ UNCHANGED job
    BY <1>1, <1>2, <1>3, Failed DEF ArcInv, ArcTyped
<1>4. CASE /\ Arc!Kind(p) \in {"gone", "pipe"} /\ todo' = Tail(todo)
           /\ UNCHANGED <<sel, nth, err, wpc, job>>
    BY <1>1, <1>2, <1>4, LeftOut
<1>5. CASE /\ Arc!Kind(p) \in {"dir", "file", "link"}
           /\ job' = [path |-> p, ino |-> node[p], size |-> inode[node[p]].size]
           /\ wpc' = CASE p = "root" -> "list" [] Arc!Kind(p) = "link" -> "readlink"
                       [] OTHER -> "add"
           /\ UNCHANGED Arc!walk
  <2>1. UNCHANGED <<sel, nth, todo, err>>
      BY <1>5 DEF Arc!walk
  <2>2. /\ node[p] \in 1..Len(inode) /\ node[p] \in Nat /\ inode[node[p]] \in Inodes
        /\ p = "d" <=> node[p] = 2
        /\ p = "root" <=> node[p] = 1
        /\ Arc!Kind(p) = "link" => p \in {"x", "y"}
    <3>1. node[p] # 0
        BY <1>2, <1>5, KindOf DEF ArcInv
    <3>2. QED
        BY <1>2, <1>5, <3>1, KindOf DEF ArcInv, ArcTyped, Arc!Paths
  <2>3. /\ p = "root" => wpc' = "list"
        /\ p # "root" => wpc' \in {"readlink", "add"} /\ (wpc' = "readlink" => p \in {"x", "y"})
    <3>1. CASE p = "root"
        BY <1>5, <2>2, <3>1
    <3>2. CASE p # "root"
        BY <1>5, <2>2, <3>2
    <3>3. QED
        BY <3>1, <3>2
  <2>4. job' \in Jobs /\ job'.path = p /\ job'.ino = node[p]
      BY <1>2, <1>5, <2>2 DEF Jobs, Inodes
  <2>5. ArcTyped' /\ Apart' /\ FolderInv'
      BY <1>1, <2>1, <2>3, <2>4, FolderStays DEF ArcInv, ArcTyped, Apart
  <2>6. Control'
      BY <1>1, <2>1, <2>3 DEF ArcInv, Control
  <2>7. JobInv'
      BY <1>1, <2>1, <2>2, <2>3, <2>4 DEF JobInv
  <2>8. Content'
      BY <1>1, <2>1 DEF ArcInv, Content, Whole
  <2>9. Covered'
    <3>1. Need' = Need
        BY <1>1, <2>1, FolderStays
    <3>2. Waits = Under(todo) /\ Waits' \subseteq Waits /\ Need \cap Waits \subseteq Waits'
        BY <1>1, <2>1, <2>3, <2>4 DEF Waits, Need
    <3>3. QED
        BY <1>1, <2>1, <3>1, <3>2, CoveredKept DEF ArcInv
  <2>10. QED
      BY <2>5, <2>6, <2>7, <2>8, <2>9 DEF ArcInv
<1>6. QED
    BY <1>1, <1>3, <1>4, <1>5 DEF Arc!Visit, Arc!Skip

\* A link is read.
LEMMA ReadlinkInv == ArcInv /\ Arc!Readlink => ArcInv'
<1> SUFFICES ASSUME ArcInv, Arc!Readlink PROVE ArcInv'
    OBVIOUS
<1>1. /\ UNCHANGED <<node, inode, still, apc, archErr, latch, entries, ended>>
      /\ wpc = "readlink" /\ ~err /\ apc \in {"opening", "idle", "stopped"}
    BY DEF Arc!Readlink, Arc!folder, Arc!sent, ArcInv, ArcTyped, Control
<1>2. /\ todo # <<>> /\ job.path = Head(todo) /\ job.ino \in 1..Len(inode)
      /\ job.path \in {"x", "y"} /\ job \in Jobs /\ Arc!NoJob \in Jobs
    BY <1>1 DEF ArcInv, ArcTyped, JobInv, Arc!NoJob, Jobs
<1>3. CASE Arc!Fail /\ job' = Arc!NoJob
    BY <1>1, <1>2, <1>3, Failed DEF ArcInv, ArcTyped
<1>4. CASE /\ Arc!Kind(job.path) = "gone" /\ wpc' = "select" /\ todo' = Tail(todo)
           /\ UNCHANGED <<sel, nth, err>> /\ job' = Arc!NoJob
    BY <1>1, <1>2, <1>4, LeftOut
<1>5. CASE Arc!Kind(job.path) = "link" /\ wpc' = "add" /\ UNCHANGED <<Arc!walk, job>>
  <2>1. UNCHANGED <<sel, nth, todo, err, job>>
      BY <1>5 DEF Arc!walk
  <2>2. ArcTyped' /\ Apart' /\ FolderInv'
      BY <1>1, <1>5, <2>1, FolderStays DEF ArcInv, ArcTyped, Apart
  <2>3. Control'
      BY <1>1, <1>5, <2>1 DEF ArcInv, Control
  <2>4. Content' 
      BY <1>1, <2>1 DEF ArcInv, Content, Whole
  <2>5. Need' = Need /\ Waits' = Waits
      BY <1>1, <1>5, <2>1, FolderStays DEF Waits
  <2>6. Covered'
      BY <1>1, <2>1, <2>5, CoveredKept DEF ArcInv
  <2>7. JobInv'
      BY <1>1, <1>5, <2>1 DEF ArcInv, JobInv
  <2>8. QED
      BY <2>2, <2>3, <2>4, <2>6, <2>7 DEF ArcInv
<1>6. QED
    BY <1>1, <1>3, <1>4, <1>5 DEF Arc!Readlink

\* The entry is handed to the archiver, or not.
LEMMA AddInv == ArcInv /\ Arc!Add => ArcInv'
<1> SUFFICES ASSUME ArcInv, Arc!Add PROVE ArcInv'
    OBVIOUS
<1>1. /\ UNCHANGED <<node, inode, still, archErr, latch, entries, ended>>
      /\ wpc = "add" /\ ~err /\ apc \in {"opening", "idle", "stopped"}
    BY DEF Arc!Add, Arc!folder, Arc!sent, ArcInv, ArcTyped, Control
<1>2. CASE Arc!Fail /\ job' = Arc!NoJob /\ UNCHANGED apc
  <2>1. Arc!NoJob \in Jobs
      BY DEF Arc!NoJob, Jobs
  <2>2. QED
      BY <1>1, <1>2, <2>1, Failed DEF ArcInv, ArcTyped
<1>3. CASE apc = "idle" /\ wpc' = "wait" /\ apc' = "header" /\ UNCHANGED <<Arc!walk, job>>
  <2>1. UNCHANGED <<sel, nth, todo, err, job>>
      BY <1>3 DEF Arc!walk
  <2>2. ArcTyped' /\ Apart' /\ FolderInv'
      BY <1>1, <1>3, <2>1, FolderStays DEF ArcInv, ArcTyped, Apart
  <2>3. Control'
      BY <1>1, <1>3, <2>1 DEF ArcInv, Control
  <2>4. JobInv'
      BY <1>1, <1>3, <2>1 DEF ArcInv, JobInv
  <2>5. Content'
      BY <1>1, <1>3, <2>1 DEF ArcInv, Content, Whole
  <2>6. Need' = Need /\ Waits' = Waits
      BY <1>1, <1>3, <2>1, FolderStays DEF Waits
  <2>7. Covered'
      BY <1>1, <2>1, <2>6, CoveredKept DEF ArcInv
  <2>8. QED
      BY <2>2, <2>3, <2>4, <2>5, <2>7 DEF ArcInv
<1>4. QED
    BY <1>2, <1>3 DEF Arc!Add

\* A directory is read.
LEMMA ListInv == ArcInv /\ Arc!List => ArcInv'
<1> SUFFICES ASSUME ArcInv, Arc!List PROVE ArcInv'
    OBVIOUS
<1>1. /\ UNCHANGED <<node, inode, still, apc, archErr, latch, entries, ended>>
      /\ wpc = "list" /\ ~err /\ apc \in {"opening", "idle", "stopped"}
      /\ job' = Arc!NoJob
    BY DEF Arc!List, Arc!folder, Arc!sent, ArcInv, ArcTyped, Control
<1> PICK p : p = Head(todo)
    OBVIOUS
<1>2. /\ todo # <<>> /\ job.path = p /\ p \in {"root", "d"}
      /\ p \in Arc!Paths /\ Arc!NoJob \in Jobs /\ todo \in Todos
      /\ Tail(todo) \in Todos /\ Under(todo) = Below(p) \cup Under(Tail(todo))
      /\ Below(p) \cap Under(Tail(todo)) = {} /\ p \in Below(p)
  <2>1. /\ todo # <<>> /\ job.path = p /\ p \in {"root", "d"} /\ todo \in Todos
        /\ Arc!NoJob \in Jobs
      BY <1>1 DEF ArcInv, ArcTyped, JobInv, Arc!NoJob, Jobs
  <2>2. QED
      BY <2>1, TodoSplit, Tree
<1>3. CASE Arc!Fail
    BY <1>1, <1>2, <1>3, Failed DEF ArcInv, ArcTyped
<1>4. CASE /\ wpc' = "select" /\ UNCHANGED <<sel, nth, start, err>>
           /\ todo' = (IF Arc!Kind(p) # "dir" THEN <<>> ELSE Arc!Inside(p)) \o Tail(todo)
  <2>1. /\ todo' \in Todos /\ Under(todo') \subseteq Under(todo) \ {p}
        /\ Need \cap (Under(todo) \ {p}) \subseteq Under(todo')
    <3>1. CASE Arc!Kind(p) = "dir"
      <4>1. todo' = Arc!Inside(p) \o Tail(todo)
          BY <1>4, <3>1
      <4>2. Need \subseteq still
          BY DEF Need
      <4>3. QED
          BY <1>2, <4>1, <4>2, Expands DEF ArcInv
    <3>2. CASE Arc!Kind(p) # "dir"
      <4> Todos \subseteq Seq(Arc!Paths)
          BY DEF Todos, Arc!Paths
      <4>1. Tail(todo) \in Seq(Arc!Paths)
          BY <1>2
      <4>2. todo' = Tail(todo)
          BY <1>4, <3>2, <4>1, ConcatEmptySeq
      <4>3. Need \cap Below(p) = {}
          BY <1>2, <3>2, KindOf DEF ArcInv, Need
      <4>4. QED
          BY <1>2, <4>2, <4>3
    <3>3. QED
        BY <3>1, <3>2
  <2>2. ArcTyped' /\ Apart' /\ FolderInv'
      BY <1>1, <1>2, <1>4, <2>1, FolderStays DEF ArcInv, ArcTyped, Apart
  <2>3. Control'
      BY <1>1, <1>4 DEF ArcInv, Control
  <2>4. JobInv' /\ Content'
      BY <1>1, <1>4 DEF ArcInv, JobInv, Content, Whole
  <2>5. /\ Need' = Need /\ Waits = Under(todo) \ {p} /\ Waits' = Under(todo')
      BY <1>1, <1>2, <1>4, FolderStays DEF Waits
  <2>6. Covered'
      BY <1>1, <1>4, <2>1, <2>5, CoveredKept DEF ArcInv
  <2>7. QED
      BY <2>2, <2>3, <2>4, <2>6 DEF ArcInv
<1>5. QED
    BY <1>2, <1>3, <1>4 DEF Arc!List

\* The error is recorded; WriteArchive returns; the archiver opens and ends.
LEMMA EndsInv ==
    ArcInv /\ (Arc!RecordError \/ Arc!Return \/ Arc!ArchiverOpens \/ Arc!ArchiverEnds \/ Arc!GiveUp
               \/ Arc!Over) => ArcInv'
<1> SUFFICES ASSUME ArcInv, \/ Arc!RecordError \/ Arc!Return \/ Arc!ArchiverOpens
                            \/ Arc!ArchiverEnds \/ Arc!GiveUp \/ Arc!Over
             PROVE  ArcInv'
    OBVIOUS
<1>1. UNCHANGED <<node, inode, still, sel, nth, todo, err, job, entries>>
    BY DEF Arc!RecordError, Arc!Return, Arc!ArchiverOpens, Arc!ArchiverEnds, Arc!GiveUp,
           Arc!Over, Arc!folder, Arc!walk, Arc!sent, Arc!arcVars
<1>2. /\ wpc' \in {"close", "done", "failed"} \/ wpc' = wpc
      /\ apc' \in {"idle", "stopped"} \/ apc' = apc
      /\ latch' \in BOOLEAN /\ archErr' \in BOOLEAN /\ ended' \in BOOLEAN
      /\ wpc' = "list" <=> wpc = "list"
      /\ apc' \in {"open", "body"} <=> apc \in {"open", "body"}
      /\ wpc' \in {"readlink", "add", "wait", "list"} => wpc' = wpc
    BY DEF Arc!RecordError, Arc!Return, Arc!ArchiverOpens, Arc!ArchiverEnds, Arc!GiveUp,
           Arc!Over, Arc!sent, Arc!arcVars, ArcInv, ArcTyped, Control
<1>3. ArcTyped' /\ Apart' /\ FolderInv'
    BY <1>1, <1>2, FolderStays DEF ArcInv, ArcTyped, Apart
<1>4. Control'
  <2>1. CASE Arc!RecordError
      BY <1>1, <2>1 DEF Arc!RecordError, ArcInv, Control
  <2>2. CASE Arc!Return
      BY <1>1, <2>2 DEF Arc!Return, Arc!sent, ArcInv, ArcTyped, Control
  <2>3. CASE Arc!ArchiverOpens
      BY <1>1, <2>3 DEF Arc!ArchiverOpens, Arc!sent, ArcInv, Control
  <2>4. CASE Arc!ArchiverEnds
      BY <1>1, <2>4 DEF Arc!ArchiverEnds, ArcInv, Control
  <2>5. CASE Arc!GiveUp \/ Arc!Over
      BY <1>1, <2>5 DEF Arc!GiveUp, Arc!Over, Arc!sent, Arc!arcVars, ArcInv, Control
  <2>6. QED
      BY <2>1, <2>2, <2>3, <2>4, <2>5
<1>5. ~err => JobInv'
    BY <1>1, <1>2 DEF ArcInv, JobInv
<1>6. ~err => Content'
    BY <1>1, <1>2 DEF ArcInv, Content, Whole
<1>7. Need' = Need /\ Waits' = Waits
    BY <1>1, <1>2, FolderStays DEF Waits
<1>8. ~err => Covered'
    BY <1>1, <1>7, CoveredKept DEF ArcInv
<1>9. QED
    BY <1>1, <1>3, <1>4, <1>5, <1>6, <1>8 DEF ArcInv

\* A header is sent.
LEMMA Appends ==
    ASSUME entries \in Seq(Entered), NEW e \in Entered, entries' = Append(entries, e), Once,
           e.path \notin Made
    PROVE  /\ entries' \in Seq(Entered) /\ Len(entries') = Len(entries) + 1
           /\ entries'[Len(entries')] = e /\ \A n \in 1..Len(entries) : entries'[n] = entries[n]
           /\ Made' = Made \cup {e.path} /\ Once'
<1>1. /\ entries' \in Seq(Entered) /\ Len(entries') = Len(entries) + 1
      /\ entries'[Len(entries')] = e /\ \A n \in 1..Len(entries) : entries'[n] = entries[n]
    OBVIOUS
<1> PICK k \in Nat : k = Len(entries)
    OBVIOUS
<1>2. \A n \in 1..(k + 1) : n = k + 1 \/ n \in 1..k
    OBVIOUS
<1>3. Made' = Made \cup {e.path}
  <2>1. ASSUME NEW q PROVE q \in Made' <=> q \in Made \cup {e.path}
    <3>1. q \in Made' <=> \E n \in 1..(k + 1) : entries'[n].path = q
        BY <1>1 DEF Made
    <3>2. q \in Made <=> \E n \in 1..k : entries[n].path = q
        BY DEF Made
    <3>3. k + 1 \in 1..(k + 1) /\ \A n \in 1..k : n \in 1..(k + 1)
        OBVIOUS
    <3>4. QED
        BY <1>1, <1>2, <3>1, <3>2, <3>3
  <2>2. QED
      BY <2>1
<1>4. Once'
  <2> SUFFICES ASSUME NEW m \in 1..(k + 1), NEW n \in 1..(k + 1),
                      entries'[m].path = entries'[n].path
               PROVE  m = n
      BY <1>1 DEF Once
  <2>1. \A i \in 1..k : entries'[i].path # e.path
      BY <1>1 DEF Made
  <2>2. QED
      BY <1>1, <1>2, <2>1 DEF Once
<1>5. QED
    BY <1>1, <1>3, <1>4

\* The archiver asks for the header of the entry in hand to be sent.
LEMMA HeaderInv == ArcInv /\ Arc!ArchiverHeader => ArcInv'
<1> SUFFICES ASSUME ArcInv, Arc!ArchiverHeader PROVE ArcInv'
    OBVIOUS
<1> PICK p : p = job.path
    OBVIOUS
<1> PICK e : e = [path |-> p, seen |-> job.ino, size |-> job.size, ino |-> 0, got |-> 0]
    OBVIOUS
<1> PICK ok \in BOOLEAN :
       /\ Arc!Write(e, ok)
       /\ IF ok /\ inode[job.ino].kind = "file"
          THEN apc' = "open" /\ UNCHANGED <<Arc!walk, wpc>> ELSE Arc!Answer(ok)
    BY DEF Arc!ArchiverHeader
<1>1. /\ UNCHANGED <<node, inode, still, job, archErr, ended>>
      /\ apc = "header" /\ wpc = "wait" /\ ~err /\ ~ended
    BY DEF Arc!ArchiverHeader, Arc!folder, ArcInv, Control
<1>2. /\ todo # <<>> /\ todo \in Todos /\ p = Head(todo) /\ job.ino \in 1..Len(inode)
      /\ p # "root" /\ job.ino # 1 /\ (p = "d" <=> job.ino = 2)
      /\ job \in Jobs /\ entries \in Seq(Entered) /\ latch \in BOOLEAN
    BY <1>1 DEF ArcInv, ArcTyped, JobInv
<1>3. /\ p \in Arc!Paths /\ Tail(todo) \in Todos /\ Under(todo) = Below(p) \cup Under(Tail(todo))
      /\ Below(p) \cap Under(Tail(todo)) = {} /\ p \in Below(p)
    BY <1>2, TodoSplit, Tree
<1>4. e \in Entered /\ e.path = p /\ e.seen = job.ino /\ e.size = job.size
    BY <1>2, <1>3 DEF Entered, Jobs
<1>5. CASE ~ok
  <2>1. Arc!Fail /\ apc' = "idle"
      BY <1>5 DEF Arc!Answer
  <2>2. latch' = TRUE /\ entries' \in Seq(Entered)
    <3>1. CASE latch \/ gaveUp
        BY <1>2, <3>1 DEF Arc!Write
    <3>2. CASE ~(latch \/ gaveUp)
      <4>1. entries' = Append(entries, e) /\ latch' = ~ok
          BY <3>2 DEF Arc!Write
      <4>2. Append(entries, e) \in Seq(Entered)
          BY <1>2, <1>4
      <4>3. QED
          BY <1>5, <4>1, <4>2
    <3>3. QED
        BY <3>1, <3>2
  <2>3. QED
      BY <1>1, <1>2, <2>1, <2>2, Failed
<1>6. CASE ok
  <2>1. entries' = Append(entries, e) /\ latch' = FALSE /\ latch = FALSE
      BY <1>2, <1>6 DEF Arc!Write
  <2>2. Waits = Under(todo) /\ p \in Waits /\ p \notin Made /\ p \notin Later
      BY <1>1, <1>3 DEF ArcInv, Covered, Waits
  <2>3. /\ entries' \in Seq(Entered) /\ Len(entries') = Len(entries) + 1
        /\ entries'[Len(entries')] = e /\ \A n \in 1..Len(entries) : entries'[n] = entries[n]
        /\ Made' = Made \cup {p} /\ Once'
      BY <1>1, <1>2, <1>4, <2>1, <2>2, Appends DEF ArcInv, Covered
  <2>4. \A n \in 1..Len(entries') : n \in 1..Len(entries) \/ n = Len(entries')
      BY <1>2, <2>3
  <2>5. \A n \in 1..Len(entries) : entries[n].seen \in 1..Len(inode) /\ Whole(entries[n])
      BY <1>1 DEF ArcInv, Content
  <2>6. inode[job.ino].kind = "dir" <=> p = "d"
      BY <1>2 DEF ArcInv, FolderInv
  <2>7. p # "d" => Below(p) = {p}
      BY <1>2, <1>3, Tree DEF Arc!Paths
  <2>8. UNCHANGED <<sel, nth, err>> /\ (todo' = todo \/ (todo' = Tail(todo) /\ p # "d"))
        /\ wpc' \in {"wait", "list", "select"} /\ apc' \in {"open", "idle"}
      BY <1>1, <1>6, <2>6 DEF Arc!Answer, Arc!walk
  <2>9. /\ wpc' = "wait" <=> apc' = "open"
        /\ wpc' = "wait" => todo' = todo /\ inode[job.ino].kind = "file"
        /\ wpc' = "list" => todo' = todo /\ p = "d" /\ inode[job.ino].kind = "dir"
        /\ wpc' = "select" => todo' = Tail(todo) /\ p # "d" /\ inode[job.ino].kind # "file"
    <3>1. CASE inode[job.ino].kind = "file"
        BY <1>1, <1>6, <3>1 DEF Arc!walk
    <3>2. CASE inode[job.ino].kind = "dir"
        BY <1>1, <1>6, <2>6, <3>2 DEF Arc!Answer
    <3>3. CASE inode[job.ino].kind \notin {"file", "dir"}
        BY <1>1, <1>6, <2>6, <3>3 DEF Arc!Answer
    <3>4. QED
        BY <3>1, <3>2, <3>3
  <2>10. ArcTyped' /\ Apart' /\ FolderInv'
      BY <1>1, <1>3, <2>1, <2>3, <2>8, FolderStays DEF ArcInv, ArcTyped, Apart
  <2>11. Control'
      BY <1>1, <2>1, <2>8, <2>9 DEF ArcInv, Control
  <2>12. JobInv'
      BY <1>1, <1>2, <2>8, <2>9 DEF JobInv
  <2>13. Content'
    <3>1. ASSUME NEW n \in 1..Len(entries')
          PROVE  /\ entries'[n].seen \in 1..Len(inode)
                 /\ Whole(entries[n])' \/ (n = Len(entries') /\ apc' \in {"open", "body"})
      <4>1. CASE n \in 1..Len(entries)
          BY <1>1, <2>3, <2>5, <4>1 DEF Whole
      <4>2. CASE n = Len(entries')
          BY <1>1, <1>2, <1>4, <2>3, <2>8, <2>9, <4>2 DEF Whole
      <4>3. QED
          BY <2>4, <4>1, <4>2
    <3>2. entries' # <<>> /\ entries'[Len(entries')].seen = job.ino
          /\ entries'[Len(entries')].size = job.size
        BY <1>2, <1>4, <2>3
    <3>3. QED
        BY <1>1, <3>1, <3>2 DEF Content
  <2>14. Need' = Need /\ Later' = Later
      BY <1>1, <2>8, FolderStays DEF Later
  <2>15. Waits' = Under(todo) \ {p} /\ Under(todo') \subseteq Under(todo)
    <3>1. CASE wpc' = "select"
        BY <1>3, <2>7, <2>9, <2>8, <3>1 DEF Waits
    <3>2. CASE wpc' # "select"
        BY <1>1, <2>8, <2>9, <3>2 DEF Waits
    <3>3. QED
        BY <3>1, <3>2
  <2>16. Covered'
    <3>1. /\ Made \cap Waits = {} /\ Made \cap Later = {} /\ Under(todo) \cap Later = {}
          /\ Need \subseteq Made \cup Waits
        BY <1>1 DEF ArcInv, Covered
    <3>2. Made' \cap Waits' = {} /\ Made' \cap Later' = {} /\ Under(todo') \cap Later' = {}
        BY <2>2, <2>3, <2>14, <2>15, <3>1
    <3>3. Need' \subseteq Made' \cup Waits'
        BY <2>2, <2>3, <2>14, <2>15, <3>1
    <3>4. QED
        BY <2>3, <3>2, <3>3 DEF Covered
  <2>17. QED
      BY <2>8, <2>10, <2>11, <2>12, <2>13, <2>16 DEF ArcInv
<1>7. QED
    BY <1>5, <1>6

\* The file is opened, if it is the one the walk saw.
LEMMA OpenInv == ArcInv /\ Arc!ArchiverOpen => ArcInv'
<1> SUFFICES ASSUME ArcInv, Arc!ArchiverOpen PROVE ArcInv'
    OBVIOUS
<1>1. /\ UNCHANGED <<node, inode, still, archErr, latch, entries, ended>>
      /\ apc = "open" /\ wpc = "wait" /\ ~err
    BY DEF Arc!ArchiverOpen, Arc!folder, Arc!sent, ArcInv, Control
<1>2. job \in Jobs /\ latch \in BOOLEAN /\ entries \in Seq(Entered)
    BY DEF ArcInv, ArcTyped
<1>3. CASE Arc!Fail /\ apc' = "idle" /\ UNCHANGED job
    BY <1>1, <1>2, <1>3, Failed
<1>4. CASE /\ Arc!openSame # 0 /\ apc' = "body" /\ job' = [job EXCEPT !.ino = Arc!openSame]
           /\ UNCHANGED <<Arc!walk, wpc>>
  <2>1. job' = job
      BY <1>2, <1>4 DEF Arc!openSame, Jobs
  <2>2. UNCHANGED <<sel, nth, todo, err, wpc>>
      BY <1>4 DEF Arc!walk
  <2>3. ArcTyped' /\ Apart' /\ FolderInv'
      BY <1>1, <1>4, <2>1, <2>2, FolderStays DEF ArcInv, ArcTyped, Apart
  <2>4. Control'
      BY <1>1, <1>4, <2>2 DEF ArcInv, Control
  <2>5. JobInv' /\ Content'
      BY <1>1, <1>4, <2>1, <2>2 DEF ArcInv, JobInv, Content, Whole
  <2>6. Need' = Need /\ Waits' = Waits
      BY <1>1, <1>4, <2>1, <2>2, FolderStays DEF Waits
  <2>7. Covered'
      BY <1>1, <2>2, <2>6, CoveredKept DEF ArcInv
  <2>8. QED
      BY <2>3, <2>4, <2>5, <2>7 DEF ArcInv
<1>5. QED
    BY <1>3, <1>4 DEF Arc!ArchiverOpen, Arc!Answer

\* The body of a file is sent.
LEMMA BodyInv == ArcInv /\ Arc!ArchiverBody => ArcInv'
<1> SUFFICES ASSUME ArcInv, Arc!ArchiverBody PROVE ArcInv'
    OBVIOUS
<1> PICK have : have = inode[job.ino].size
    OBVIOUS
<1> PICK k : k = Len(entries)
    OBVIOUS
<1> PICK g : g = IF have < job.size THEN have ELSE job.size
    OBVIOUS
<1> PICK ok \in BOOLEAN :
       /\ IF latch \/ gaveUp
          THEN ~ok /\ latch' = TRUE /\ UNCHANGED entries
          ELSE /\ entries' = [entries EXCEPT ![k].ino = job.ino, ![k].got = g]
               /\ latch' = ~ok
       /\ Arc!Answer(ok /\ Arc!sizedFile(have, job.size))
    BY DEF Arc!ArchiverBody
<1>1. /\ UNCHANGED <<node, inode, still, job, archErr, ended>>
      /\ apc = "body" /\ wpc = "wait" /\ ~err /\ ~ended
    BY DEF Arc!ArchiverBody, Arc!folder, ArcInv, Control
<1>2. /\ job \in Jobs /\ latch \in BOOLEAN /\ entries \in Seq(Entered)
      /\ todo # <<>> /\ todo \in Todos /\ job.path = Head(todo) /\ job.ino \in 1..Len(inode)
      /\ inode[job.ino].kind = "file" /\ inode[job.ino] \in Inodes
      /\ job.path # "root" /\ (job.path = "d" <=> job.ino = 2)
      /\ entries # <<>> /\ entries[k].seen = job.ino /\ entries[k].size = job.size
    BY <1>1 DEF ArcInv, ArcTyped, JobInv, Content
<1>3. have \in Nat /\ job.size \in Nat /\ job.ino \in Nat /\ g \in Nat
      /\ k \in Nat /\ k \in 1..k /\ entries[k] \in Entered
  <2>1. have \in Nat /\ job.size \in Nat /\ job.ino \in Nat
      BY <1>2 DEF Inodes, Jobs
  <2>2. k \in Nat /\ k \in 1..k /\ entries[k] \in Entered
      BY <1>2
  <2>3. QED
      BY <2>1, <2>2
<1> PICK e : e = [entries[k] EXCEPT !.ino = job.ino, !.got = g]
    OBVIOUS
<1>4. /\ e \in Entered /\ e.path = entries[k].path /\ e.seen = job.ino /\ e.size = job.size
      /\ e.ino = job.ino /\ e.got = g
    BY <1>2, <1>3 DEF Entered
<1>5. CASE ~ok
  <2>1. Arc!Fail /\ apc' = "idle"
      BY <1>5 DEF Arc!Answer
  <2>2. latch' = TRUE
      BY <1>5
  <2>3. entries' \in Seq(Entered)
    <3>1. CASE latch \/ gaveUp
        BY <1>2, <3>1
    <3>2. CASE ~(latch \/ gaveUp)
      <4>1. entries' = [entries EXCEPT ![k] = e]
          BY <1>2, <1>3, <3>2
      <4>2. QED
          BY <1>2, <1>3, <1>4, <4>1
    <3>3. QED
        BY <3>1, <3>2
  <2>4. QED
      BY <1>1, <1>2, <2>1, <2>2, <2>3, Failed
<1>6. CASE ok
  <2>1. latch = FALSE /\ latch' = FALSE /\ entries' = [entries EXCEPT ![k] = e]
      BY <1>2, <1>3, <1>6
  <2>2. /\ entries' \in Seq(Entered) /\ Len(entries') = k /\ entries'[k] = e
        /\ \A n \in 1..k : n # k => entries'[n] = entries[n]
    <3>1. DOMAIN entries = 1..k
        BY <1>2
    <3>2. entries'[k] = e /\ \A n \in 1..k : n # k => entries'[n] = entries[n]
        BY <1>3, <2>1, <3>1
    <3>3. entries' \in Seq(Entered) /\ Len(entries') = k
        BY <1>2, <1>3, <1>4, <2>1
    <3>4. QED
        BY <3>2, <3>3
  <2>3. CASE have < job.size
    <3>1. Arc!Fail /\ apc' = "idle"
        BY <1>3, <2>3 DEF Arc!Answer, Arc!sizedFile
    <3>2. QED
        BY <1>1, <1>2, <2>1, <2>2, <3>1, Failed
  <2>4. CASE ~(have < job.size)
    <3>1. /\ apc' = "idle" /\ wpc' = "select" /\ todo' = Tail(todo) /\ UNCHANGED <<sel, nth, err>>
          /\ g = job.size
        BY <1>1, <1>2, <1>3, <1>6, <2>4 DEF Arc!Answer, Arc!sizedFile
    <3>2. /\ job.path \in Arc!Paths /\ Tail(todo) \in Todos
          /\ Under(todo) = Below(job.path) \cup Under(Tail(todo))
          /\ Below(job.path) \cap Under(Tail(todo)) = {}
        BY <1>2, TodoSplit
    <3>3. Below(job.path) = {job.path}
      <4>1. job.path \in {"x", "y"}
          BY <1>1, <1>2, <3>2 DEF ArcInv, FolderInv, Arc!Paths
      <4>2. QED
          BY <4>1, Tree
    <3>4. ArcTyped' /\ Apart' /\ FolderInv'
        BY <1>1, <2>1, <2>2, <3>1, <3>2, FolderStays DEF ArcInv, ArcTyped, Apart
    <3>5. Control'
        BY <1>1, <2>1, <3>1 DEF ArcInv, Control
    <3>6. JobInv'
        BY <3>1 DEF JobInv
    <3>7. Content'
      <4> SUFFICES ASSUME NEW n \in 1..k
                   PROVE  entries'[n].seen \in 1..Len(inode) /\ Whole(entries[n])'
          BY <1>1, <2>2, <3>1 DEF Content
      <4>1. CASE n = k
        <5>1. /\ entries'[k].seen = job.ino /\ entries'[k].ino = job.ino
              /\ entries'[k].got = entries'[k].size
            BY <1>4, <2>2, <3>1
        <5>2. QED
            BY <1>2, <4>1, <5>1 DEF Whole
      <4>2. CASE n # k
          BY <1>1, <2>2, <4>2 DEF ArcInv, Content, Whole
      <4>3. QED
          BY <4>1, <4>2
    <3>8. \A n \in 1..k : entries'[n].path = entries[n].path
        BY <1>4, <2>2
    <3>9. Made' = Made /\ Once' = Once /\ Later' = Later /\ Need' = Need
        BY <1>1, <2>2, <3>1, <3>8, FolderStays DEF Made, Once, Later
    <3>10. Waits = Under(todo) \ {job.path} /\ Waits' = Under(todo') /\ Waits' = Waits
        BY <1>1, <3>1, <3>2, <3>3 DEF Waits
    <3>11. Covered'
        BY <1>1, <3>1, <3>2, <3>9, <3>10 DEF ArcInv, Covered
    <3>12. QED
        BY <3>1, <3>4, <3>5, <3>6, <3>7, <3>11 DEF ArcInv
  <2>5. QED
      BY <2>3, <2>4
<1>7. QED
    BY <1>5, <1>6

\* The folder changes under the walk.
LEMMA ChangeInv ==
    ASSUME ArcInv, NEW p \in Arc!Paths, Arc!ChangeFolder(p)
    PROVE  ArcInv'
<1>1. /\ UNCHANGED <<sel, nth, todo, err, job, wpc, apc, archErr, latch, entries, ended>>
      /\ p # "root" /\ node[p] # 0
      /\ still' = still \ ({p} \cup IF p = "d" THEN {"x"} ELSE {})
    BY DEF Arc!ChangeFolder, Arc!walk, Arc!sent
<1> PICK k \in Nat : k = Len(inode)
    BY DEF ArcInv, ArcTyped
<1>2. /\ node \in [Arc!Paths -> Nat] /\ inode \in Seq(Inodes) /\ still \subseteq Arc!Paths
      /\ node[p] \in 1..k /\ inode[node[p]] \in Inodes /\ k >= 4
    BY <1>1, KindOf DEF ArcInv, ArcTyped, FolderInv
<1>3. /\ inode' \in Seq(Inodes) /\ Len(inode') = k + 1 /\ inode'[k + 1].kind # "dir"
      /\ \A n \in 1..k : inode'[n].kind = inode[n].kind
      /\ node' \in [Arc!Paths -> Nat]
      /\ \A q \in Arc!Paths : node'[q] = node[q] \/
            /\ q # "root" /\ q \notin still'
            /\ node'[q] = 0 \/ (node'[q] = k + 1 /\ q # "d")
  <2>1. CASE \E c \in Arc!Kinds \ {"dir"}, n \in {0, 1} :
               /\ inode' = Append(inode, [kind |-> c, size |-> 2])
               /\ node' = [q \in Arc!Paths |-> IF q = p /\ p # "d" THEN n * Len(inode')
                                               ELSE IF q = p \/ (p = "d" /\ q = "x") THEN 0
                                               ELSE node[q]]
    <3> PICK c \in Arc!Kinds \ {"dir"}, n \in {0, 1} :
               /\ inode' = Append(inode, [kind |-> c, size |-> 2])
               /\ node' = [q \in Arc!Paths |-> IF q = p /\ p # "d" THEN n * Len(inode')
                                               ELSE IF q = p \/ (p = "d" /\ q = "x") THEN 0
                                               ELSE node[q]]
        BY <2>1
    <3>1. [kind |-> c, size |-> 2] \in Inodes
        BY DEF Inodes
    <3>2. /\ inode' \in Seq(Inodes) /\ Len(inode') = k + 1 /\ inode'[k + 1].kind # "dir"
          /\ \A m \in 1..k : inode'[m] = inode[m]
        BY <1>2, <3>1
    <3>3. n * Len(inode') \in {0, k + 1}
        BY <3>2
    <3>4. node' \in [Arc!Paths -> Nat]
        BY <1>2, <3>3
    <3>5. ASSUME NEW q \in Arc!Paths
          PROVE  node'[q] = node[q] \/ /\ q # "root" /\ q \notin still'
                                       /\ node'[q] = 0 \/ (node'[q] = k + 1 /\ q # "d")
      <4>1. CASE q = p /\ p # "d"
          BY <1>1, <3>3, <4>1
      <4>2. CASE q = p /\ p = "d"
          BY <1>1, <4>2
      <4>3. CASE q # p /\ p = "d" /\ q = "x"
          BY <1>1, <4>3
      <4>4. CASE q # p /\ ~(p = "d" /\ q = "x")
          BY <4>4
      <4>5. QED
          BY <4>1, <4>2, <4>3, <4>4
    <3>6. QED
        BY <3>2, <3>4, <3>5
  <2>2. ASSUME NEW n \in {1, 3},
               inode' = Append([inode EXCEPT ![node[p]].size = n], [kind |-> "none", size |-> 0]),
               UNCHANGED node
        PROVE  /\ inode' \in Seq(Inodes) /\ Len(inode') = k + 1 /\ inode'[k + 1].kind # "dir"
               /\ \A m \in 1..k : inode'[m].kind = inode[m].kind
    <3> PICK i : i = [inode[node[p]] EXCEPT !.size = n]
        OBVIOUS
    <3> PICK s : s = [inode EXCEPT ![node[p]] = i]
        OBVIOUS
    <3>1. i \in Inodes /\ i.kind = inode[node[p]].kind /\ [kind |-> "none", size |-> 0] \in Inodes
      <4>1. \A x \in Inodes : LET y == [x EXCEPT !.size = n]
                             IN  y \in Inodes /\ y.kind = x.kind
          BY DEF Inodes
      <4>2. [kind |-> "none", size |-> 0] \in Inodes
          BY DEF Inodes
      <4>3. QED
          BY <1>2, <4>1, <4>2
    <3>2. s \in Seq(Inodes) /\ Len(s) = k /\ \A m \in 1..k : s[m].kind = inode[m].kind
        BY <1>2, <3>1
    <3>3. inode' = Append(s, [kind |-> "none", size |-> 0])
        BY <2>2
    <3>4. QED
        BY <3>1, <3>2, <3>3
  <2>3. QED
      BY <1>2, <2>1, <2>2 DEF Arc!ChangeFolder
<1>4. Len(inode') >= 4 /\ \A n \in 1..Len(inode') : inode'[n].kind = "dir" <=> n \in {1, 2}
  <2>1. \A n \in 1..(k + 1) : n = k + 1 \/ n \in 1..k
      OBVIOUS
  <2>2. ASSUME NEW n \in 1..(k + 1) PROVE inode'[n].kind = "dir" <=> n \in {1, 2}
    <3>1. CASE n = k + 1
        BY <1>2, <1>3, <3>1
    <3>2. CASE n \in 1..k
        BY <1>3, <3>2 DEF ArcInv, FolderInv
    <3>3. QED
        BY <2>1, <3>1, <3>2
  <2>3. Len(inode') = k + 1 /\ Len(inode') >= 4
      BY <1>2, <1>3
  <2>4. \A n \in 1..(k + 1) : inode'[n].kind = "dir" <=> n \in {1, 2}
      BY <2>2
  <2>5. QED
      BY <2>3, <2>4
<1>5. FolderInv'
  <2>1. /\ node'["root"] = 1 /\ node'["d"] \in {0, 2}
        /\ \A q \in {"x", "y"} : node'[q] \in 0..Len(inode') /\ node'[q] \notin {1, 2}
      BY <1>2, <1>3 DEF ArcInv, FolderInv, Arc!Paths
  <2>2. "x" \in still' => "d" \in still'
      BY <1>1 DEF ArcInv, FolderInv
  <2>3. \A q \in still' : node'[q] = First(q)
      BY <1>1, <1>2, <1>3 DEF ArcInv, FolderInv
  <2>4. QED
      BY <1>4, <2>1, <2>2, <2>3 DEF FolderInv
<1>6. ArcTyped' /\ Apart' /\ Control'
    BY <1>1, <1>2, <1>3 DEF ArcInv, ArcTyped, Apart, Control
<1>7. ~err => JobInv'
  <2> SUFFICES ASSUME ~err PROVE JobInv'
      OBVIOUS
  <2>1. apc \in {"open", "body"} => job.ino \in 1..k /\ inode[job.ino].kind = "file"
      BY DEF ArcInv, JobInv, Control
  <2>2. apc' \in {"open", "body"} => inode'[job.ino].kind = "file"
      BY <1>1, <1>3, <2>1
  <2>3. \A i \in 1..k : i \in 1..Len(inode')
      BY <1>3
  <2>4. QED
      BY <1>1, <2>2, <2>3 DEF ArcInv, JobInv
<1>8. ~err => Content'
  <2> SUFFICES ASSUME ~err PROVE Content'
      OBVIOUS
  <2>1. Content
      BY DEF ArcInv
  <2>2. ASSUME NEW n \in 1..Len(entries)
        PROVE  /\ entries[n].seen \in 1..Len(inode')
               /\ Whole(entries[n])' \/ (n = Len(entries) /\ apc \in {"open", "body"})
    <3>1. entries[n].seen \in 1..k /\ entries[n].seen \in 1..Len(inode')
        BY <1>3, <2>1 DEF Content
    <3>2. Whole(entries[n])' = Whole(entries[n])
        BY <1>1, <1>3, <3>1 DEF Whole
    <3>3. QED
        BY <2>1, <3>1, <3>2 DEF Content
  <2>3. QED
      BY <1>1, <2>1, <2>2 DEF Content
<1>9. Need' \subseteq Need
  <2>1. ASSUME NEW q \in still' PROVE q \in still /\ Arc!Kind(q)' = Arc!Kind(q)
    <3>1. q \in still /\ q \in Arc!Paths /\ node'[q] = node[q]
        BY <1>1, <1>2, <1>3
    <3>2. node[q] # 0 => node[q] \in 1..k
        BY <3>1, KindOf DEF ArcInv
    <3>3. QED
        BY <1>3, <3>1, <3>2 DEF Arc!Kind
  <2>2. QED
      BY <1>1, <2>1 DEF Need
<1>10. ~err => Covered'
    BY <1>1, <1>9, CoveredKept DEF ArcInv, Waits
<1>11. QED
    BY <1>1, <1>5, <1>6, <1>7, <1>8, <1>10 DEF ArcInv

\* The inductive invariant of an archive, whatever else runs.
THEOREM ArchiveInvariant == MCSpec => []ArcInv
<1>1. MCInit => ArcInv
    BY ArcInitInv DEF MCInit
<1>2. ArcInv /\ [MCNext]_allVars => ArcInv'
  <2> SUFFICES ASSUME ArcInv, [MCNext]_allVars PROVE ArcInv'
      OBVIOUS
  <2>1. CASE Writing(Arc!Next)
      BY <2>1, SelectInv, VisitInv, ReadlinkInv, AddInv, ListInv, EndsInv, HeaderInv, OpenInv,
         BodyInv, ChangeInv DEF Writing, Arc!Next, Arc!Walker, Arc!Archiver
  <2>2. CASE arcVars' = arcVars
    <3>1. UNCHANGED <<node, inode, sel, nth, todo, job, wpc, apc, err, latch, archErr, entries,
                      ended, still>>
        BY <2>2 DEF arcVars
    <3>2. ArcTyped' = ArcTyped /\ Apart' = Apart /\ FolderInv' = FolderInv /\ Control' = Control
        BY <3>1 DEF ArcTyped, Apart, FolderInv, Control
    <3>3. JobInv' = JobInv /\ Content' = Content
        BY <3>1 DEF JobInv, Content, Whole
    <3>4. Covered' = Covered
        BY <3>1 DEF Covered, Once, Made, Waits, Later, Need, Arc!Kind
    <3>5. QED
        BY <3>1, <3>2, <3>3, <3>4 DEF ArcInv
  <2>3. QED
      BY <2>1, <2>2 DEF MCNext, allVars, Queue, Session, Running, PutOff
<1>3. QED
    BY <1>1, <1>2, PTL DEF MCSpec

\* An archive that has its end is complete, for any selection of paths none of
\* which is inside another and however often the folder changes under the walk:
\* its files are whole, no path is in it twice, and what nobody touched is in it;
\* and WriteArchive returns no error only for an archive that has its end.
THEOREM ArchivesHonest == MCSpec => []ArchiveHonest
<1>1. ArcInv => ArchiveHonest
  <2> SUFFICES ASSUME ArcInv PROVE ArchiveHonest
      OBVIOUS
  <2>1. wpc = "done" => ended
      BY DEF ArcInv, Control
  <2> SUFFICES ASSUME ended
               PROVE  /\ \A n \in DOMAIN entries : inode[entries[n].seen].kind = "file" =>
                            entries[n].ino = entries[n].seen /\ entries[n].got = entries[n].size
                      /\ \A m, n \in DOMAIN entries : entries[m].path = entries[n].path => m = n
                      /\ \A q \in Arc!Wanted : \E n \in DOMAIN entries : entries[n].path = q
      BY <2>1 DEF ArchiveHonest, Arc!ArchiveHonest
  <2>2. /\ ~err /\ apc = "stopped" /\ wpc \in {"close", "done", "failed"}
        /\ nth = Len(sel) /\ todo = <<>> /\ JobInv /\ Content /\ Covered
      BY DEF ArcInv, Control
  <2>3. DOMAIN entries = 1..Len(entries) /\ DOMAIN sel = 1..Len(sel)
      BY DEF ArcInv, ArcTyped
  <2>4. \A n \in DOMAIN entries : Whole(entries[n])
      BY <2>2, <2>3 DEF Content
  <2>5. Waits = {}
    <3>1. Under(<<>>) = {}
        BY DEF Under
    <3>2. QED
        BY <2>2, <3>1 DEF Waits
  <2>6. Arc!Wanted \subseteq Made
      BY <2>2, <2>3, <2>5 DEF Covered, Arc!Wanted, Need
  <2>7. QED
      BY <2>2, <2>3, <2>4, <2>6 DEF Covered, Once, Whole, Made
<1>2. QED
    BY <1>1, ArchiveInvariant, PTL

-----------------------------------------------------------------------------
(* Functions put off.                                                      *)

Spots == {"new", "running", "swapping", "arming", "loaded", "set", "started", "triggers",
          "done"}

\* The call c and those that were not over when it began.
LaterOf(c) == {c} \cup ((1..begun) \ over[c])

DbcTyped ==
    /\ kind \in {"throttle", "executor"} /\ begun \in Nat /\ held \in Nat
    /\ call \in [Dbc!calls -> Spots] /\ over \in [Dbc!calls -> SUBSET Dbc!calls]
    /\ mine \in [Dbc!calls -> Nat] /\ func \in [Dbc!calls -> Nat]
    /\ timer \in [Dbc!calls -> Nat]
    /\ armed \subseteq Nat \ {0} /\ fired \subseteq Nat \ {0}
    /\ ran \subseteq Nat /\ met \subseteq Nat
    /\ held <= begun /\ begun <= MaxDoCalls

\* Calls begin in their order, and what was over stays over.
History ==
    \A c \in Dbc!calls :
        /\ call[c] = "new" <=> c > begun
        /\ \A d \in over[c] : call[d] = "done"

\* One done at once ran; one armed is there until it is swapped out, by another
\* that was not over when it began.
ThrottleInv ==
    kind = "throttle" =>
        /\ held # 0 => call[held] = "done"
        /\ \A c \in Dbc!calls :
              /\ call[c] \in {"new", "running", "swapping", "arming", "done"}
              /\ call[c] = "swapping" => c \in ran
              /\ call[c] = "arming" => c \in armed \cup fired \cup ran
              /\ call[c] = "done" =>
                    LaterOf(c) \cap (ran \cup armed \cup fired \cup Dbc!inFlight) # {}

\* A timer will run what the state m holds.
WillRun(m) ==
    armed \cup fired # {} \/ \E e \in Dbc!calls : call[e] = "started" /\ mine[e] = m

\* A call at work on a state that is held has put its function there, or a later
\* one has; one at work on a state that is not held any more was met.
Working(c) ==
    /\ call[c] \in {"new", "loaded", "set", "started", "triggers", "done"}
    /\ call[c] # "new" => mine[c] \in 1..begun
    /\ c \in Dbc!inFlight /\ mine[c] # held => c \in met
    /\ call[c] \in {"set", "started", "triggers"} /\ mine[c] = held => func[held] \in LaterOf(c)

\* A state that was started has a timer, or one who is about to set it.
Timed(m) ==
    /\ m > begun => timer[m] = 0 /\ m \notin started
    /\ m \in started /\ timer[m] = 0 => \E e \in Dbc!calls : call[e] = "started" /\ mine[e] = m

\* A call that is over was served, or its state still is to be.
Served(c) ==
    call[c] = "done" => \/ LaterOf(c) \cap (ran \cup met) # {}
                        \/ mine[c] = held /\ func[held] \in LaterOf(c) /\ WillRun(held)

ExecutorInv ==
    kind = "executor" =>
        /\ held # 0 /\ timer[held] # 0 => armed \cup fired # {}
        /\ \A c \in Dbc!calls : Working(c) /\ Timed(c) /\ Served(c)

DbcInv == DbcTyped /\ History /\ ThrottleInv /\ ExecutorInv

\* Init establishes the invariant.
LEMMA DbcInitInv == Dbc!Init => DbcInv
<1> SUFFICES ASSUME Dbc!Init PROVE DbcInv
    OBVIOUS
<1>1. DbcTyped
    BY TaskBounds DEF Dbc!Init, DbcTyped, Spots
<1>2. History
    BY DEF Dbc!Init, History, Dbc!calls
<1>3. ThrottleInv
    BY DEF Dbc!Init, ThrottleInv
<1>4. ExecutorInv
    BY DEF Dbc!Init, ExecutorInv, Dbc!inFlight, Working, Timed, Served, Dbc!calls
<1>5. QED
    BY <1>1, <1>2, <1>3, <1>4 DEF DbcInv

\* A call that begins.
LEMMA BeginsMoves ==
    ASSUME DbcTyped, History, NEW c \in Dbc!calls, NEW k, NEW to \in Spots,
           to # "new", to # "done", Dbc!Begins(c, k, to)
    PROVE  /\ c = begun + 1 /\ begun' = c /\ call[c] = "new" /\ call'[c] = to
           /\ \A d \in Dbc!calls : d # c => call'[d] = call[d]
           /\ call' \in [Dbc!calls -> Spots] /\ over' \in [Dbc!calls -> SUBSET Dbc!calls]
           /\ History' /\ c \notin Dbc!inFlight /\ Dbc!inFlight' = Dbc!inFlight \cup {c}
           /\ \A d \in Dbc!calls : d # c => LaterOf(d) \subseteq LaterOf(d)'
           /\ begun' <= MaxDoCalls /\ kind = k
<1>1. /\ c = begun + 1 /\ begun' = c /\ kind = k
      /\ call' = [call EXCEPT ![c] = to]
      /\ over' = [over EXCEPT ![c] = {d \in Dbc!calls : call[d] = "done"}]
    BY DEF Dbc!Begins
<1>2. /\ begun \in Nat /\ c \in Nat /\ c <= MaxDoCalls /\ c > begun
      /\ call \in [Dbc!calls -> Spots] /\ over \in [Dbc!calls -> SUBSET Dbc!calls]
    BY <1>1, TaskBounds DEF DbcTyped, Dbc!calls
<1>3. call[c] = "new"
    BY <1>2 DEF History
<1>4. call' \in [Dbc!calls -> Spots] /\ over' \in [Dbc!calls -> SUBSET Dbc!calls]
    BY <1>1, <1>2
<1>5. \A d \in Dbc!calls : d # c => call'[d] = call[d] /\ over'[d] = over[d]
    BY <1>1, <1>2
<1>6. call'[c] = to /\ over'[c] = {d \in Dbc!calls : call[d] = "done"}
    BY <1>1, <1>2
<1>7. Dbc!inFlight' = Dbc!inFlight \cup {c} /\ c \notin Dbc!inFlight
    BY <1>3, <1>5, <1>6 DEF Dbc!inFlight
<1>8. ASSUME NEW d \in Dbc!calls, d # c PROVE LaterOf(d) \subseteq LaterOf(d)'
    BY <1>1, <1>2, <1>5, <1>8 DEF LaterOf
<1>9. History'
  <2> SUFFICES ASSUME NEW d \in Dbc!calls
               PROVE  (call'[d] = "new" <=> d > begun') /\ \A e \in over'[d] : call'[e] = "done"
      BY DEF History
  <2>1. call'[d] = "new" <=> d > begun'
    <3>1. CASE d = c
        BY <1>1, <1>2, <1>6, <3>1
    <3>2. CASE d # c
        BY <1>1, <1>2, <1>5, <3>2 DEF History, Dbc!calls
    <3>3. QED
        BY <3>1, <3>2
  <2>2. ASSUME NEW e \in over'[d] PROVE call'[e] = "done"
    <3>1. CASE d = c
        BY <1>3, <1>5, <1>6, <3>1
    <3>2. CASE d # c
      <4>1. e \in over[d]
          BY <1>5, <3>2
      <4>2. e \in Dbc!calls /\ call[e] = "done"
          BY <1>2, <4>1 DEF History
      <4>3. QED
          BY <1>3, <1>5, <4>2
    <3>3. QED
        BY <3>1, <3>2
  <2>3. QED
      BY <2>1, <2>2
<1>10. QED
    BY <1>1, <1>2, <1>3, <1>4, <1>5, <1>6, <1>7, <1>8, <1>9

\* A call that goes on.
LEMMA GoesMoves ==
    ASSUME DbcTyped, History, NEW c \in Dbc!calls, NEW from, NEW to \in Spots,
           from # "new", from # "done", to # "new", Dbc!Goes(c, from, to)
    PROVE  /\ call[c] = from /\ call'[c] = to /\ begun' = begun
           /\ \A d \in Dbc!calls : d # c => call'[d] = call[d]
           /\ call' \in [Dbc!calls -> Spots] /\ over' = over /\ History'
           /\ c \in Dbc!inFlight /\ Dbc!inFlight \subseteq Dbc!inFlight' \cup {c}
           /\ Dbc!inFlight' \subseteq Dbc!inFlight
           /\ \A d \in Dbc!calls : LaterOf(d)' = LaterOf(d)
           /\ c \in 1..begun /\ \A d \in Dbc!calls : c \in LaterOf(d)
<1>1. /\ call[c] = from /\ call' = [call EXCEPT ![c] = to] /\ begun' = begun /\ over' = over
    BY DEF Dbc!Goes
<1>2. /\ begun \in Nat /\ c \in Nat /\ 1 <= c
      /\ call \in [Dbc!calls -> Spots] /\ over \in [Dbc!calls -> SUBSET Dbc!calls]
    BY TaskBounds DEF DbcTyped, Dbc!calls
<1>3. call' \in [Dbc!calls -> Spots] /\ call'[c] = to
      /\ \A d \in Dbc!calls : d # c => call'[d] = call[d]
    BY <1>1, <1>2
<1>4. c \in 1..begun
    BY <1>1, <1>2 DEF History
<1>5. \A d \in Dbc!calls : c \in LaterOf(d) /\ LaterOf(d)' = LaterOf(d)
    BY <1>1, <1>4 DEF History, LaterOf
<1>6. /\ c \in Dbc!inFlight /\ Dbc!inFlight \subseteq Dbc!inFlight' \cup {c}
      /\ Dbc!inFlight' \subseteq Dbc!inFlight
    BY <1>1, <1>3 DEF Dbc!inFlight
<1>7. History'
  <2> SUFFICES ASSUME NEW d \in Dbc!calls
               PROVE  (call'[d] = "new" <=> d > begun') /\ \A e \in over'[d] : call'[e] = "done"
      BY DEF History
  <2>1. call'[d] = "new" <=> d > begun'
      BY <1>1, <1>3 DEF History
  <2>2. ASSUME NEW e \in over'[d] PROVE call'[e] = "done"
    <3>1. e \in Dbc!calls /\ call[e] = "done"
        BY <1>1, <1>2 DEF History
    <3>2. QED
        BY <1>1, <1>3, <3>1
  <2>3. QED
      BY <2>1, <2>2
<1>8. QED
    BY <1>1, <1>3, <1>4, <1>5, <1>6, <1>7

\* The calls of Throttle and its timers keep the invariant.
LEMMA ThrottleStepInv ==
    ASSUME DbcInv, kind = "throttle", NEW c \in Dbc!calls, Dbc!Step(c), UNCHANGED kind
    PROVE  DbcInv'
<1> USE DEF DbcInv
<1>0. /\ c \in Nat \ {0}
      /\ call[c] \in {"new", "running", "swapping", "arming", "done"}
    BY TaskBounds DEF Dbc!calls, ThrottleInv
<1>e. ExecutorInv'
    BY DEF ExecutorInv
<1>1. CASE Dbc!DoNow(c) \/ Dbc!DoLater(c)
  <2> PICK to \in {"running", "arming"} : Dbc!Begins(c, "throttle", to)
                                         /\ (to = "arming" => armed' = armed \cup {c})
                                         /\ (to = "running" => armed' = armed)
      BY <1>1 DEF Dbc!DoNow, Dbc!DoLater
  <2>1. UNCHANGED <<held, mine, func, timer, started, fired, ran, met>>
      BY <1>1 DEF Dbc!DoNow, Dbc!DoLater, Dbc!states
  <2>2. to \in Spots
      BY DEF Spots
  <2>3. /\ c = begun + 1 /\ begun' = c /\ call'[c] = to /\ call[c] = "new"
        /\ \A d \in Dbc!calls : d # c => call'[d] = call[d] /\ LaterOf(d) \subseteq LaterOf(d)'
        /\ call' \in [Dbc!calls -> Spots] /\ over' \in [Dbc!calls -> SUBSET Dbc!calls]
        /\ History' /\ Dbc!inFlight' = Dbc!inFlight \cup {c} /\ begun' <= MaxDoCalls
      BY <2>2, BeginsMoves
  <2>4. DbcTyped'
    <3>1. begun' \in Nat /\ held' <= begun' /\ held' \in Nat /\ kind' = kind
        BY <2>1, <2>3 DEF DbcTyped
    <3>2. armed' \subseteq Nat \ {0}
        BY <1>0 DEF DbcTyped
    <3>3. QED
        BY <2>1, <2>3, <3>1, <3>2 DEF DbcTyped
  <2>5. armed \subseteq armed' /\ (to = "arming" => c \in armed')
      OBVIOUS
  <2>6. ThrottleInv'
    <3>1. held' # 0 => call'[held'] = "done"
      <4>1. held # 0 => held \in Dbc!calls /\ held # c /\ call[held] = "done"
          BY <2>3, TaskBounds DEF ThrottleInv, DbcTyped, Dbc!calls
      <4>2. QED
          BY <2>1, <2>3, <4>1
    <3>2. ASSUME NEW d \in Dbc!calls
          PROVE  /\ call'[d] \in {"new", "running", "swapping", "arming", "done"}
                 /\ call'[d] = "swapping" => d \in ran'
                 /\ call'[d] = "arming" => d \in armed' \cup fired' \cup ran'
      <4>1. CASE d = c
          BY <2>3, <2>5, <4>1
      <4>2. CASE d # c
          BY <2>1, <2>3, <2>5, <4>2 DEF ThrottleInv
      <4>3. QED
          BY <4>1, <4>2
    <3>3. ASSUME NEW d \in Dbc!calls, call'[d] = "done"
          PROVE  LaterOf(d)' \cap (ran' \cup armed' \cup fired' \cup Dbc!inFlight') # {}
      <4>1. d # c /\ call[d] = "done"
          BY <2>3, <3>3
      <4>2. LaterOf(d) \cap (ran \cup armed \cup fired \cup Dbc!inFlight) # {}
          BY <4>1 DEF ThrottleInv
      <4>3. QED
          BY <2>1, <2>3, <2>5, <4>1, <4>2
    <3>4. QED
        BY <3>1, <3>2, <3>3 DEF ThrottleInv
  <2>7. QED
      BY <1>e, <2>3, <2>4, <2>6
<1>2. CASE Dbc!DoRan(c)
  <2>1. UNCHANGED <<held, mine, func, timer, started, armed, fired, met>> /\ ran' = ran \cup {c}
        /\ Dbc!Goes(c, "running", "swapping")
      BY <1>2 DEF Dbc!DoRan, Dbc!states
  <2>2. /\ call[c] = "running" /\ call'[c] = "swapping" /\ begun' = begun
        /\ \A d \in Dbc!calls : d # c => call'[d] = call[d]
        /\ \A d \in Dbc!calls : LaterOf(d)' = LaterOf(d)
        /\ call' \in [Dbc!calls -> Spots] /\ over' = over /\ History'
        /\ Dbc!inFlight \subseteq Dbc!inFlight' \cup {c}
      BY <2>1, GoesMoves DEF Spots
  <2>3. DbcTyped'
      BY <1>0, <2>1, <2>2 DEF DbcTyped
  <2>4. ThrottleInv'
    <3>1. held' # 0 => call'[held'] = "done"
      <4>1. held # 0 => held \in Dbc!calls /\ held # c /\ call[held] = "done"
          BY <2>2, TaskBounds DEF ThrottleInv, DbcTyped, Dbc!calls
      <4>2. QED
          BY <2>1, <2>2, <4>1
    <3>2. ASSUME NEW d \in Dbc!calls
          PROVE  /\ call'[d] \in {"new", "running", "swapping", "arming", "done"}
                 /\ call'[d] = "swapping" => d \in ran'
                 /\ call'[d] = "arming" => d \in armed' \cup fired' \cup ran'
      <4>1. CASE d = c
          BY <2>1, <2>2, <4>1
      <4>2. CASE d # c
          BY <2>1, <2>2, <4>2 DEF ThrottleInv
      <4>3. QED
          BY <4>1, <4>2
    <3>3. ASSUME NEW d \in Dbc!calls, call'[d] = "done"
          PROVE  LaterOf(d)' \cap (ran' \cup armed' \cup fired' \cup Dbc!inFlight') # {}
      <4>1. d # c /\ call[d] = "done"
          BY <2>2, <3>3
      <4>2. LaterOf(d) \cap (ran \cup armed \cup fired \cup Dbc!inFlight) # {}
          BY <4>1 DEF ThrottleInv
      <4>3. QED
          BY <2>1, <2>2, <4>1, <4>2
    <3>4. QED
        BY <3>1, <3>2, <3>3 DEF ThrottleInv
  <2>5. QED
      BY <1>e, <2>2, <2>3, <2>4
<1>3. CASE Dbc!DoSwapped(c)
  <2>1. UNCHANGED <<mine, func, timer, started, fired, ran, met>> /\ armed' = armed \ {held}
      BY <1>3 DEF Dbc!DoSwapped, Dbc!states
  <2> PICK from \in {"swapping", "arming"} : Dbc!Goes(c, from, "done")
                                            /\ held' = IF from = "swapping" THEN 0 ELSE c
      BY <1>3 DEF Dbc!DoSwapped
  <2>2. /\ call[c] = from /\ call'[c] = "done" /\ begun' = begun
        /\ \A d \in Dbc!calls : d # c => call'[d] = call[d]
        /\ \A d \in Dbc!calls : LaterOf(d)' = LaterOf(d) /\ c \in LaterOf(d)
        /\ call' \in [Dbc!calls -> Spots] /\ over' = over /\ History'
        /\ c \in 1..begun /\ Dbc!inFlight \subseteq Dbc!inFlight' \cup {c}
      BY GoesMoves DEF Spots
  <2>3. DbcTyped'
      BY <1>0, <2>1, <2>2 DEF DbcTyped
  <2>4. /\ held # c /\ c \in ran' \cup armed' \cup fired'
        /\ \A d \in Dbc!calls : call[d] = "arming" => d # held
    <3>1. \A d \in Dbc!calls : call[d] = "arming" \/ d = c => d # held
        BY <1>0, <2>2, TaskBounds DEF ThrottleInv, Dbc!calls
    <3>2. c \in armed \cup fired \cup ran
        BY <2>2 DEF ThrottleInv
    <3>3. QED
        BY <2>1, <3>1, <3>2
  <2>5. ThrottleInv'
    <3>1. held' # 0 => call'[held'] = "done"
        BY <2>2
    <3>2. ASSUME NEW d \in Dbc!calls
          PROVE  /\ call'[d] \in {"new", "running", "swapping", "arming", "done"}
                 /\ call'[d] = "swapping" => d \in ran'
                 /\ call'[d] = "arming" => d \in armed' \cup fired' \cup ran'
      <4>1. CASE d = c
          BY <2>2, <4>1
      <4>2. CASE d # c
          BY <2>1, <2>2, <2>4, <4>2 DEF ThrottleInv
      <4>3. QED
          BY <4>1, <4>2
    <3>3. ASSUME NEW d \in Dbc!calls, call'[d] = "done"
          PROVE  LaterOf(d)' \cap (ran' \cup armed' \cup fired' \cup Dbc!inFlight') # {}
        BY <2>2, <2>4
    <3>4. QED
        BY <3>1, <3>2, <3>3 DEF ThrottleInv
  <2>6. QED
      BY <1>e, <2>2, <2>3, <2>5
<1>4. CASE Dbc!Fire(c) \/ Dbc!Runs(c)
  <2>1. UNCHANGED <<begun, call, over, held, mine, func, timer, started, met>>
      BY <1>4 DEF Dbc!Fire, Dbc!Runs, Dbc!states
  <2>2. /\ armed' \subseteq armed /\ fired' \subseteq fired \cup armed
        /\ ran' \subseteq ran \cup fired
        /\ armed \cup fired \cup ran \subseteq armed' \cup fired' \cup ran' /\ ran \subseteq ran'
    <3>1. CASE Dbc!Fire(c)
        BY <3>1 DEF Dbc!Fire
    <3>2. CASE Dbc!Runs(c)
        BY <3>2 DEF Dbc!Runs
    <3>3. QED
        BY <1>4, <3>1, <3>2
  <2>3. DbcTyped' /\ History'
      BY <2>1, <2>2 DEF DbcTyped, History
  <2>4. Dbc!inFlight' = Dbc!inFlight /\ \A d \in Dbc!calls : LaterOf(d)' = LaterOf(d)
      BY <2>1 DEF Dbc!inFlight, LaterOf
  <2>5. ThrottleInv'
    <3>1. held' # 0 => call'[held'] = "done"
        BY <2>1 DEF ThrottleInv
    <3>2. ASSUME NEW d \in Dbc!calls
          PROVE  /\ call'[d] \in {"new", "running", "swapping", "arming", "done"}
                 /\ call'[d] = "swapping" => d \in ran'
                 /\ call'[d] = "arming" => d \in armed' \cup fired' \cup ran'
        BY <2>1, <2>2 DEF ThrottleInv
    <3>3. ASSUME NEW d \in Dbc!calls, call'[d] = "done"
          PROVE  LaterOf(d)' \cap (ran' \cup armed' \cup fired' \cup Dbc!inFlight') # {}
      <4>1. LaterOf(d) \cap (ran \cup armed \cup fired \cup Dbc!inFlight) # {}
          BY <2>1, <3>3 DEF ThrottleInv
      <4>2. QED
          BY <2>2, <2>4, <4>1
    <3>4. QED
        BY <3>1, <3>2, <3>3 DEF ThrottleInv
  <2>6. QED
      BY <1>e, <2>3, <2>5
<1>5. CASE Dbc!Load(c)
    BY <1>5 DEF Dbc!Load, Dbc!Begins
<1>6. CASE Dbc!SetFunc(c) \/ Dbc!Start(c) \/ Dbc!SetTimer(c) \/ Dbc!Reset(c) \/ Dbc!Triggers(c)
  <2>1. call[c] \in {"loaded", "set", "started", "triggers"}
      BY <1>6 DEF Dbc!SetFunc, Dbc!Start, Dbc!SetTimer, Dbc!Reset, Dbc!Triggers, Dbc!Goes
  <2>2. QED
      BY <1>0, <2>1
<1>7. QED
    BY <1>1, <1>2, <1>3, <1>4, <1>5, <1>6 DEF Dbc!Step

\* A call of DelayedExecutor begins.
LEMMA LoadInv ==
    ASSUME DbcInv, NEW c \in Dbc!calls, Dbc!Load(c), UNCHANGED kind
    PROVE  DbcInv'
<1> USE DEF DbcInv
<1>1. /\ UNCHANGED <<func, timer, started, armed, fired, ran, met>>
      /\ Dbc!Begins(c, "executor", "loaded")
      /\ held' = IF held = 0 THEN c ELSE held
      /\ mine' = [mine EXCEPT ![c] = held']
    BY DEF Dbc!Load
<1>2. /\ c = begun + 1 /\ begun' = c /\ call'[c] = "loaded" /\ call[c] = "new"
      /\ \A d \in Dbc!calls : d # c => call'[d] = call[d] /\ LaterOf(d) \subseteq LaterOf(d)'
      /\ call' \in [Dbc!calls -> Spots] /\ over' \in [Dbc!calls -> SUBSET Dbc!calls]
      /\ History' /\ Dbc!inFlight' = Dbc!inFlight \cup {c} /\ begun' <= MaxDoCalls
      /\ kind = "executor"
    BY <1>1, BeginsMoves DEF Spots
<1>3. /\ c \in Nat \ {0} /\ begun \in Nat /\ held \in Nat /\ held <= begun
      /\ held' \in 1..begun' /\ held' \in Nat
    BY <1>1, <1>2, TaskBounds DEF DbcTyped, Dbc!calls
<1>4. /\ mine' \in [Dbc!calls -> Nat] /\ mine'[c] = held'
      /\ \A d \in Dbc!calls : d # c => mine'[d] = mine[d]
    BY <1>1, <1>3 DEF DbcTyped
<1>5. DbcTyped'
    BY <1>1, <1>2, <1>3, <1>4 DEF DbcTyped
<1>6. \A d \in Dbc!calls : Working(d) /\ Timed(d) /\ Served(d)
    BY <1>2 DEF ExecutorInv
<1>7. ASSUME NEW d \in Dbc!calls, d # c, call[d] # "new"
      PROVE  mine[d] \in 1..begun /\ mine'[d] = mine[d] /\ (mine[d] = held' => held' = held)
    BY <1>1, <1>2, <1>3, <1>4, <1>6, <1>7 DEF Working
<1>8. held' # 0 /\ timer'[held'] # 0 => armed' \cup fired' # {}
  <2>1. CASE held = 0
      BY <1>1, <1>2, <1>3, <1>6, <2>1 DEF Timed
  <2>2. CASE held # 0
      BY <1>1, <1>2, <2>2 DEF ExecutorInv
  <2>3. QED
      BY <2>1, <2>2
<1>9. ASSUME NEW d \in Dbc!calls PROVE Working(d)' /\ Timed(d)' /\ Served(d)'
  <2>1. Working(d)'
    <3>1. CASE d = c
        BY <1>2, <1>3, <1>4, <3>1 DEF Working
    <3>2. CASE d # c
      <4>1. /\ call'[d] = call[d] /\ LaterOf(d) \subseteq LaterOf(d)'
            /\ d \in Dbc!inFlight' => d \in Dbc!inFlight /\ call[d] # "new"
          BY <1>2, <3>2 DEF Dbc!inFlight
      <4>2. CASE call[d] = "new"
          BY <4>1, <4>2 DEF Working
      <4>3. CASE call[d] # "new"
        <5>1. /\ mine[d] \in 1..begun /\ mine'[d] = mine[d] /\ (mine[d] = held' => held' = held)
              /\ mine[d] = held => held' = held
            BY <1>1, <1>3, <1>7, <3>2, <4>3
        <5>2. QED
            BY <1>1, <1>2, <1>3, <1>6, <4>1, <5>1 DEF Working
      <4>4. QED
          BY <4>2, <4>3
    <3>3. QED
        BY <3>1, <3>2
  <2>2. Timed(d)'
    <3>1. d > begun' => timer'[d] = 0 /\ d \notin started'
        BY <1>1, <1>2, <1>3, <1>6, TaskBounds DEF Timed, Dbc!calls
    <3>2. ASSUME d \in started', timer'[d] = 0
          PROVE  \E e \in Dbc!calls : call'[e] = "started" /\ mine'[e] = d
      <4> PICK e \in Dbc!calls : call[e] = "started" /\ mine[e] = d
          BY <1>1, <1>6, <3>2 DEF Timed
      <4>1. e # c
          BY <1>2
      <4>2. QED
          BY <1>2, <1>4, <4>1
    <3>3. QED
        BY <3>1, <3>2 DEF Timed
  <2>3. Served(d)'
    <3> SUFFICES ASSUME call'[d] = "done"
                 PROVE  \/ LaterOf(d)' \cap (ran' \cup met') # {}
                        \/ mine'[d] = held' /\ func'[held'] \in LaterOf(d)' /\ WillRun(held)'
        BY DEF Served
    <3>1. d # c /\ call[d] = "done" /\ LaterOf(d) \subseteq LaterOf(d)'
        BY <1>2
    <3>2. CASE LaterOf(d) \cap (ran \cup met) # {}
        BY <1>1, <3>1, <3>2
    <3>3. CASE mine[d] = held /\ func[held] \in LaterOf(d) /\ WillRun(held)
      <4>1. held' = held /\ mine'[d] = held'
          BY <1>1, <1>3, <1>7, <3>1, <3>3
      <4>2. WillRun(held)'
        <5>1. CASE armed \cup fired # {}
            BY <1>1, <5>1 DEF WillRun
        <5>2. ASSUME NEW e \in Dbc!calls, call[e] = "started" /\ mine[e] = held
              PROVE  WillRun(held)'
            BY <1>2, <1>4, <4>1, <5>2 DEF WillRun
        <5>3. QED
            BY <3>3, <5>1, <5>2 DEF WillRun
      <4>3. QED
          BY <1>1, <3>1, <3>3, <4>1, <4>2
    <3>4. QED
        BY <1>6, <3>1, <3>2, <3>3 DEF Served
  <2>4. QED
      BY <2>1, <2>2, <2>3
<1>10. ExecutorInv' /\ ThrottleInv'
    BY <1>2, <1>8, <1>9 DEF ExecutorInv, ThrottleInv
<1>11. QED
    BY <1>2, <1>5, <1>10

\* A call at work on its state, while it is held or was met.
LEMMA AtWork ==
    ASSUME DbcInv, kind = "executor", NEW c \in Dbc!calls,
           NEW from \in {"loaded", "set", "started"},
           NEW to \in {"set", "started", "triggers", "done"}, Dbc!Goes(c, from, to),
           UNCHANGED <<kind, held, mine, fired, ran, met>>,
           armed \subseteq armed', armed' \subseteq Nat \ {0},
           func' \in [Dbc!calls -> Nat], timer' \in [Dbc!calls -> Nat],
           \A m \in Dbc!calls : func'[m] \in {func[m], c},
           mine[c] = held => func'[held] \in LaterOf(c),
           \A m \in Dbc!calls : Timed(m)',
           WillRun(held) => WillRun(held)',
           to = "done" /\ mine[c] = held => WillRun(held)',
           held # 0 /\ timer'[held] # 0 => armed' \cup fired' # {}
    PROVE  DbcInv'
<1> USE DEF DbcInv
<1>1. /\ call[c] = from /\ call'[c] = to /\ begun' = begun
      /\ \A d \in Dbc!calls : d # c => call'[d] = call[d]
      /\ call' \in [Dbc!calls -> Spots] /\ over' = over /\ History'
      /\ c \in Dbc!inFlight /\ Dbc!inFlight' \subseteq Dbc!inFlight
      /\ \A d \in Dbc!calls : LaterOf(d)' = LaterOf(d) /\ c \in LaterOf(d)
    BY GoesMoves DEF Spots
<1>2. \A d \in Dbc!calls : Working(d) /\ Timed(d) /\ Served(d)
    BY DEF ExecutorInv
<1>3. DbcTyped'
    BY <1>1 DEF DbcTyped
<1>4. ASSUME NEW d \in Dbc!calls, mine[d] = held, call[d] # "new" PROVE held \in Dbc!calls
    BY <1>2, <1>4, TaskBounds DEF Working, DbcTyped, Dbc!calls
<1>5. ASSUME NEW d \in Dbc!calls PROVE Working(d)' /\ Served(d)'
  <2>1. CASE d = c
    <3>1. Working(d)'
        BY <1>1, <1>2, <2>1 DEF Working
    <3>2. CASE mine[c] = held
        BY <1>1, <2>1, <3>1, <3>2 DEF Served
    <3>3. CASE mine[c] # held
      <4>1. c \in met /\ c \in LaterOf(c)'
          BY <1>1, <1>2, <3>3 DEF Working
      <4>2. QED
          BY <2>1, <3>1, <4>1 DEF Served
    <3>4. QED
        BY <3>1, <3>2, <3>3
  <2>2. CASE d # c
    <3>1. call'[d] = call[d]
        BY <1>1, <2>2
    <3>2. mine[d] = held /\ call[d] # "new" /\ func[held] \in LaterOf(d)
          => func'[held] \in LaterOf(d)'
        BY <1>1, <1>4
    <3>3. Working(d)'
        BY <1>1, <1>2, <3>1, <3>2 DEF Working
    <3>4. Served(d)'
        BY <1>1, <1>2, <3>1, <3>2 DEF Served
    <3>5. QED
        BY <3>3, <3>4
  <2>3. QED
      BY <2>1, <2>2
<1>6. ExecutorInv' /\ ThrottleInv'
    BY <1>5 DEF ExecutorInv, ThrottleInv
<1>7. QED
    BY <1>1, <1>3, <1>6

\* SetFunc, Start, SetTimer and Reset are such work.
LEMMA WorkInv ==
    ASSUME DbcInv, kind = "executor", NEW c \in Dbc!calls, UNCHANGED kind,
           Dbc!SetFunc(c) \/ Dbc!Start(c) \/ Dbc!SetTimer(c) \/ Dbc!Reset(c)
    PROVE  DbcInv'
<1> USE DEF DbcInv
<1>1. \A d \in Dbc!calls : Working(d) /\ Timed(d) /\ Served(d)
    BY DEF ExecutorInv
<1>2. /\ func \in [Dbc!calls -> Nat] /\ timer \in [Dbc!calls -> Nat]
      /\ mine \in [Dbc!calls -> Nat] /\ armed \subseteq Nat \ {0} /\ c \in Nat \ {0}
      /\ begun \in Nat /\ begun <= MaxDoCalls
  <2>1. Dbc!calls \subseteq Nat \ {0}
      BY TaskBounds DEF Dbc!calls
  <2>2. QED
      BY <2>1 DEF DbcTyped
<1>3. call[c] # "new" => mine[c] \in 1..begun /\ mine[c] \in Dbc!calls
    BY <1>1, <1>2, TaskBounds DEF Working, Dbc!calls
<1>4. CASE Dbc!SetFunc(c)
  <2>1. /\ UNCHANGED <<held, mine, timer, started, armed, fired, ran, met>>
        /\ Dbc!Goes(c, "loaded", "set") /\ func' = [func EXCEPT ![mine[c]] = c]
      BY <1>4 DEF Dbc!SetFunc
  <2>2. /\ call[c] = "loaded" /\ call'[c] = "set" /\ begun' = begun
        /\ \A d \in Dbc!calls : d # c => call'[d] = call[d]
        /\ c \in LaterOf(c)
      BY <2>1, GoesMoves DEF Spots
  <2>3. /\ func' \in [Dbc!calls -> Nat] /\ func'[mine[c]] = c
        /\ \A m \in Dbc!calls : func'[m] \in {func[m], c}
      BY <1>2, <1>3, <2>1, <2>2
  <2>4. ASSUME NEW m \in Dbc!calls PROVE Timed(m)'
    <3>1. ASSUME NEW e \in Dbc!calls, call[e] = "started", mine[e] = m
          PROVE  call'[e] = "started" /\ mine'[e] = m
        BY <2>1, <2>2, <3>1
    <3>2. QED
        BY <1>1, <2>1, <2>2, <3>1 DEF Timed
  <2>5. WillRun(held) => WillRun(held)'
    <3>1. ASSUME NEW e \in Dbc!calls, call[e] = "started", mine[e] = held
          PROVE  call'[e] = "started" /\ mine'[e] = held'
        BY <2>1, <2>2, <3>1
    <3>2. QED
        BY <2>1, <3>1 DEF WillRun
  <2>6. held # 0 /\ timer'[held] # 0 => armed' \cup fired' # {}
      BY <2>1 DEF ExecutorInv
  <2>7. mine[c] = held => func'[held] \in LaterOf(c)
      BY <2>2, <2>3
  <2>8. armed \subseteq armed' /\ armed' \subseteq Nat \ {0} /\ timer' \in [Dbc!calls -> Nat]
      BY <1>2, <2>1
  <2>9. QED
      BY <2>1, <2>3, <2>4, <2>5, <2>6, <2>7, <2>8, AtWork
<1>5. CASE Dbc!Start(c)
  <2>1. /\ UNCHANGED <<held, mine, func, timer, armed, fired, ran, met>>
        /\ Dbc!Goes(c, "set", "started") /\ started' = started \cup {mine[c]}
      BY <1>5 DEF Dbc!Start
  <2>2. /\ call[c] = "set" /\ call'[c] = "started" /\ begun' = begun
        /\ \A d \in Dbc!calls : d # c => call'[d] = call[d]
        /\ c \in LaterOf(c)
      BY <2>1, GoesMoves DEF Spots
  <2>3. mine[c] = held => func'[held] \in LaterOf(c)
      BY <1>1, <2>1, <2>2 DEF Working
  <2>4. ASSUME NEW m \in Dbc!calls PROVE Timed(m)'
    <3>1. ASSUME NEW e \in Dbc!calls, call[e] = "started", mine[e] = m
          PROVE  call'[e] = "started" /\ mine'[e] = m
        BY <2>1, <2>2, <3>1
    <3>2. m > begun' => timer'[m] = 0 /\ m \notin started'
        BY <1>1, <1>2, <1>3, <2>1, <2>2 DEF Timed, Dbc!calls
    <3>3. CASE m = mine[c]
        BY <2>1, <2>2, <3>2, <3>3 DEF Timed
    <3>4. CASE m # mine[c]
        BY <1>1, <2>1, <3>1, <3>2, <3>4 DEF Timed
    <3>5. QED
        BY <3>3, <3>4
  <2>5. WillRun(held) => WillRun(held)'
    <3>1. ASSUME NEW e \in Dbc!calls, call[e] = "started", mine[e] = held
          PROVE  call'[e] = "started" /\ mine'[e] = held'
        BY <2>1, <2>2, <3>1
    <3>2. QED
        BY <2>1, <3>1 DEF WillRun
  <2>6. held # 0 /\ timer'[held] # 0 => armed' \cup fired' # {}
      BY <2>1 DEF ExecutorInv
  <2>7. \A m \in Dbc!calls : func'[m] \in {func[m], c}
      BY <2>1
  <2>8. QED
      BY <1>2, <2>1, <2>2, <2>3, <2>4, <2>5, <2>6, <2>7, AtWork
<1>6. CASE Dbc!SetTimer(c)
  <2>1. /\ UNCHANGED <<held, mine, func, started, fired, ran, met>>
        /\ Dbc!Goes(c, "started", "done")
        /\ timer' = [timer EXCEPT ![mine[c]] = c] /\ armed' = armed \cup {c}
      BY <1>6 DEF Dbc!SetTimer
  <2>2. /\ call[c] = "started" /\ call'[c] = "done" /\ begun' = begun
        /\ \A d \in Dbc!calls : d # c => call'[d] = call[d]
        /\ c \in LaterOf(c)
      BY <2>1, GoesMoves DEF Spots
  <2>3. mine[c] = held => func'[held] \in LaterOf(c)
      BY <1>1, <2>1, <2>2 DEF Working
  <2>4. /\ timer' \in [Dbc!calls -> Nat] /\ timer'[mine[c]] = c
        /\ \A m \in Dbc!calls : m # mine[c] => timer'[m] = timer[m]
      BY <1>2, <1>3, <2>1, <2>2
  <2>5. ASSUME NEW m \in Dbc!calls PROVE Timed(m)'
    <3>1. CASE m = mine[c]
        BY <1>2, <1>3, <2>1, <2>2, <2>4, <3>1 DEF Timed
    <3>2. CASE m # mine[c]
      <4>1. ASSUME NEW e \in Dbc!calls, call[e] = "started", mine[e] = m
            PROVE  call'[e] = "started" /\ mine'[e] = m
          BY <2>1, <2>2, <3>2, <4>1
      <4>2. QED
          BY <1>1, <2>1, <2>2, <2>4, <3>2, <4>1 DEF Timed
    <3>3. QED
        BY <3>1, <3>2
  <2>6. c \in armed' \cup fired' /\ WillRun(held)'
      BY <2>1 DEF WillRun
  <2>7. armed \subseteq armed' /\ armed' \subseteq Nat \ {0}
      BY <1>2, <2>1
  <2>8. \A m \in Dbc!calls : func'[m] \in {func[m], c}
      BY <2>1
  <2>9. QED
      BY <1>2, <2>1, <2>2, <2>3, <2>4, <2>5, <2>6, <2>7, <2>8, AtWork
<1>7. CASE Dbc!Reset(c)
  <2>1. /\ UNCHANGED <<held, mine, func, timer, started, fired, ran, met>>
        /\ mine[c] \in started
        /\ armed' = armed \/ armed' = armed \cup ({timer[mine[c]]} \ {0})
      BY <1>7 DEF Dbc!Reset, Dbc!states
  <2> PICK to \in {"done", "triggers"} : Dbc!Goes(c, "set", to)
      BY <1>7 DEF Dbc!Reset
  <2>2. /\ call[c] = "set" /\ call'[c] = to /\ begun' = begun
        /\ \A d \in Dbc!calls : d # c => call'[d] = call[d]
        /\ c \in LaterOf(c)
      BY GoesMoves DEF Spots
  <2>3. mine[c] = held => func'[held] \in LaterOf(c)
      BY <1>1, <2>1, <2>2 DEF Working
  <2>4. armed \subseteq armed' /\ armed' \subseteq Nat \ {0}
    <3>1. timer[mine[c]] \in Nat
        BY <1>2, <1>3, <2>2
    <3>2. QED
        BY <1>2, <2>1, <3>1
  <2>5. \A e \in Dbc!calls : call[e] = "started" => call'[e] = "started" /\ mine'[e] = mine[e]
      BY <2>1, <2>2
  <2>6. ASSUME NEW m \in Dbc!calls PROVE Timed(m)'
      BY <1>1, <2>1, <2>2, <2>5 DEF Timed
  <2>7. WillRun(held) => WillRun(held)'
      BY <2>1, <2>4, <2>5 DEF WillRun
  <2>8. mine[c] = held => WillRun(held)
    <3> SUFFICES ASSUME mine[c] = held PROVE WillRun(held)
        OBVIOUS
    <3>1. held \in Dbc!calls /\ held # 0 /\ held \in started
        BY <1>2, <1>3, <2>1, <2>2
    <3>2. CASE timer[held] = 0
        BY <1>1, <3>1, <3>2 DEF Timed, WillRun
    <3>3. CASE timer[held] # 0
        BY <3>1, <3>3 DEF ExecutorInv, WillRun
    <3>4. QED
        BY <3>2, <3>3
  <2>9. held # 0 /\ timer'[held] # 0 => armed' \cup fired' # {}
      BY <2>1, <2>4 DEF ExecutorInv
  <2>10. QED
      BY <1>2, <2>1, <2>2, <2>3, <2>4, <2>6, <2>7, <2>8, <2>9, AtWork
<1>8. QED
    BY <1>4, <1>5, <1>6, <1>7

\* A state that is taken out: its function ran or was met, and so is who works on it.
LEMMA TakenOut ==
    ASSUME DbcInv, kind = "executor", held' = 0, History', call' \in [Dbc!calls -> Spots],
           UNCHANGED <<kind, begun, over, mine, func, timer, started>>,
           \A d \in Dbc!calls :
              call'[d] = call[d] \/ (call[d] = "triggers" /\ call'[d] = "done"),
           armed' \subseteq Nat \ {0}, fired' \subseteq Nat \ {0},
           ran \subseteq ran', ran' \subseteq Nat, met \subseteq met', met' \subseteq Nat,
           Dbc!inFlight' \subseteq met',
           held # 0 => func[held] \in ran' \cup met'
    PROVE  DbcInv'
<1> USE DEF DbcInv
<1>1. \A d \in Dbc!calls : Working(d) /\ Timed(d) /\ Served(d)
    BY DEF ExecutorInv
<1>2. DbcTyped'
    BY DEF DbcTyped
<1>3. ASSUME NEW d \in Dbc!calls PROVE Working(d)' /\ Timed(d)' /\ Served(d)'
  <2>1. call[d] # "new" => mine[d] \in 1..begun /\ mine[d] # 0
      BY <1>1 DEF Working, DbcTyped
  <2>2. LaterOf(d)' = LaterOf(d) /\ d \in LaterOf(d)
      BY DEF LaterOf
  <2>3. Working(d)'
      BY <1>1, <2>1 DEF Working
  <2>4. Timed(d)'
    <3>1. \A e \in Dbc!calls : call[e] = "started" => call'[e] = "started" /\ mine'[e] = mine[e]
        OBVIOUS
    <3>2. QED
        BY <1>1, <3>1 DEF Timed
  <2>5. ASSUME call'[d] = "done" PROVE LaterOf(d)' \cap (ran' \cup met') # {}
    <3>1. CASE call[d] = "done"
        BY <1>1, <2>1, <2>2, <3>1 DEF Served
    <3>2. CASE call[d] = "triggers"
      <4>1. CASE mine[d] = held
          BY <1>1, <2>1, <2>2, <3>2, <4>1 DEF Working
      <4>2. CASE mine[d] # held
        <5>1. d \in Dbc!inFlight
            BY <3>2 DEF Dbc!inFlight
        <5>2. d \in met
            BY <1>1, <4>2, <5>1 DEF Working
        <5>3. QED
            BY <2>2, <5>2
      <4>3. QED
          BY <4>1, <4>2
    <3>3. QED
        BY <2>5, <3>1, <3>2
  <2>6. QED
      BY <2>3, <2>4, <2>5 DEF Served
<1>4. ExecutorInv' /\ ThrottleInv'
    BY <1>3 DEF ExecutorInv, ThrottleInv
<1>5. QED
    BY <1>2, <1>4

\* The timers of DelayedExecutor, the trigger and Cancel keep the invariant.
LEMMA TriggerInv ==
    ASSUME DbcInv, kind = "executor", UNCHANGED kind,
           NEW c \in Dbc!calls, Dbc!Triggers(c) \/ Dbc!Fire(c) \/ Dbc!Runs(c)
    PROVE  DbcInv'
<1> USE DEF DbcInv
<1>1. /\ func \in [Dbc!calls -> Nat] /\ armed \subseteq Nat \ {0} /\ c \in Nat \ {0}
      /\ fired \subseteq Nat \ {0} /\ ran \subseteq Nat /\ met \subseteq Nat
      /\ Dbc!inFlight \subseteq Nat /\ begun \in Nat /\ begun <= MaxDoCalls
      /\ held \in Nat /\ held <= begun /\ call \in [Dbc!calls -> Spots]
  <2>1. Dbc!calls \subseteq Nat \ {0} /\ Dbc!inFlight \subseteq Dbc!calls
      BY TaskBounds DEF Dbc!calls, Dbc!inFlight
  <2>2. QED
      BY <2>1 DEF DbcTyped
<1>2. held # 0 => held \in Dbc!calls /\ func[held] \in Nat
    BY <1>1, TaskBounds DEF Dbc!calls
<1>3. CASE Dbc!Triggers(c)
  <2>1. /\ UNCHANGED <<mine, func, timer, started, armed, fired>> /\ held' = 0
        /\ Dbc!Goes(c, "triggers", "done")
        /\ met' = met \cup (Dbc!inFlight \ {c})
        /\ ran' = ran \cup (IF held = 0 THEN {} ELSE {func[held]})
      BY <1>3 DEF Dbc!Triggers, Dbc!trigger, Dbc!states
  <2>2. /\ call[c] = "triggers" /\ call'[c] = "done" /\ begun' = begun /\ over' = over
        /\ \A d \in Dbc!calls : d # c => call'[d] = call[d]
        /\ call' \in [Dbc!calls -> Spots] /\ History'
        /\ Dbc!inFlight' \subseteq Dbc!inFlight
      BY <2>1, GoesMoves DEF Spots
  <2>3. Dbc!inFlight' \subseteq met'
      BY <2>1, <2>2 DEF Dbc!inFlight
  <2>4. ran \subseteq ran' /\ ran' \subseteq Nat /\ met \subseteq met' /\ met' \subseteq Nat
        /\ (held # 0 => func[held] \in ran' \cup met')
      BY <1>1, <1>2, <2>1
  <2>5. QED
      BY <1>1, <2>1, <2>2, <2>3, <2>4, TakenOut
<1>4. CASE Dbc!Runs(c)
  <2>1. /\ UNCHANGED <<begun, call, over, mine, func, timer, started, armed>> /\ held' = 0
        /\ met' = met \cup Dbc!inFlight /\ fired' = fired \ {c}
        /\ ran' = ran \cup (IF held = 0 THEN {} ELSE {func[held]})
      BY <1>4 DEF Dbc!Runs, Dbc!trigger, Dbc!states
  <2>2. History' /\ Dbc!inFlight' = Dbc!inFlight
      BY <2>1 DEF History, Dbc!inFlight
  <2>3. ran \subseteq ran' /\ ran' \subseteq Nat /\ met \subseteq met' /\ met' \subseteq Nat
        /\ (held # 0 => func[held] \in ran' \cup met')
      BY <1>1, <1>2, <2>1
  <2>4. QED
      BY <1>1, <2>1, <2>2, <2>3, TakenOut
<1>5. CASE Dbc!Fire(c)
  <2>1. /\ UNCHANGED <<begun, call, over, held, mine, func, timer, started, ran, met>>
        /\ armed' \cup fired' = armed \cup fired
        /\ armed' \subseteq Nat \ {0} /\ fired' \subseteq Nat \ {0}
      BY <1>1, <1>5 DEF Dbc!Fire, Dbc!states
  <2>2. DbcTyped' /\ History'
      BY <2>1 DEF DbcTyped, History
  <2>3. \A d \in Dbc!calls : Working(d)' /\ Timed(d)' /\ Served(d)'
      BY <2>1 DEF ExecutorInv, Working, Timed, Served, WillRun, LaterOf, Dbc!inFlight
  <2>4. ExecutorInv' /\ ThrottleInv'
      BY <2>1, <2>3 DEF ExecutorInv, ThrottleInv
  <2>5. QED
      BY <2>2, <2>4
<1>6. QED
    BY <1>3, <1>4, <1>5

\* So does Cancel.
LEMMA CancelInv == DbcInv /\ Dbc!Cancel /\ UNCHANGED kind => DbcInv'
<1> SUFFICES ASSUME DbcInv, Dbc!Cancel, UNCHANGED kind PROVE DbcInv'
    OBVIOUS
<1>1. /\ UNCHANGED <<begun, call, over, mine, func, timer, started, fired, ran>> /\ held' = 0
      /\ kind = "executor" /\ held # 0
      /\ met' = met \cup Dbc!inFlight \cup {func[held]} /\ armed' = armed \ {timer[held]}
    BY DEF Dbc!Cancel, Dbc!states
<1>2. /\ func \in [Dbc!calls -> Nat] /\ armed \subseteq Nat \ {0} /\ fired \subseteq Nat \ {0}
      /\ ran \subseteq Nat /\ met \subseteq Nat /\ Dbc!inFlight \subseteq Nat
      /\ call \in [Dbc!calls -> Spots] /\ held \in Dbc!calls
    BY <1>1, TaskBounds DEF DbcInv, DbcTyped, Dbc!calls, Dbc!inFlight
<1>3. History' /\ Dbc!inFlight' = Dbc!inFlight
    BY <1>1 DEF DbcInv, History, Dbc!inFlight
<1>4. met \subseteq met' /\ met' \subseteq Nat /\ func[held] \in met'
    BY <1>1, <1>2
<1>5. QED
    BY <1>1, <1>2, <1>3, <1>4, TakenOut

\* Every step of Debounce keeps the invariant.
LEMMA DbcStepInv == DbcInv /\ Dbc!Next => DbcInv'
<1> SUFFICES ASSUME DbcInv, Dbc!Next PROVE DbcInv'
    OBVIOUS
<1>1. CASE Dbc!Rest
    BY <1>1 DEF Dbc!Rest, Dbc!dbcVars, DbcInv, DbcTyped, History, ThrottleInv, ExecutorInv,
                Working, Timed, Served, WillRun, LaterOf, Dbc!inFlight
<1>2. ASSUME NEW c \in Dbc!calls, Dbc!Step(c), UNCHANGED kind PROVE DbcInv'
  <2>1. CASE kind = "throttle"
      BY <1>2, <2>1, ThrottleStepInv
  <2>2. CASE kind = "executor"
    <3>1. call[c] \in {"new", "loaded", "set", "started", "triggers", "done"}
        BY <2>2 DEF DbcInv, ExecutorInv, Working
    <3>2. ~Dbc!DoNow(c) /\ ~Dbc!DoRan(c) /\ ~Dbc!DoLater(c) /\ ~Dbc!DoSwapped(c)
        BY <2>2, <3>1 DEF Dbc!DoNow, Dbc!DoRan, Dbc!DoLater, Dbc!DoSwapped, Dbc!Begins, Dbc!Goes
    <3>3. QED
        BY <1>2, <2>2, <3>2, LoadInv, WorkInv, TriggerInv DEF Dbc!Step
  <2>3. QED
      BY <2>1, <2>2 DEF DbcInv, DbcTyped
<1>3. QED
    BY <1>1, <1>2, CancelInv DEF Dbc!Next

\* The inductive invariant of the functions put off, whatever else runs.
THEOREM DebounceInvariant == MCSpec => []DbcInv
<1>1. MCInit => DbcInv
    BY DbcInitInv DEF MCInit
<1>2. DbcInv /\ [MCNext]_allVars => DbcInv'
  <2> SUFFICES ASSUME DbcInv, [MCNext]_allVars PROVE DbcInv'
      OBVIOUS
  <2>1. CASE PutOff(Dbc!Next)
      BY <2>1, DbcStepInv DEF PutOff
  <2>2. CASE dbcVars' = dbcVars
      BY <2>2 DEF dbcVars, DbcInv, DbcTyped, History, ThrottleInv, ExecutorInv,
                  Working, Timed, Served, WillRun, LaterOf, Dbc!inFlight
  <2>3. QED
      BY <2>1, <2>2 DEF MCNext, allVars, Queue, Writing, Session, Running
<1>3. QED
    BY <1>1, <1>2, PTL DEF MCSpec

\* However many calls of Throttle or of DelayedExecutor overlap, and whenever
\* their timers fire, a call is dropped only for one that was not over when it
\* began, or for a trigger or a Cancel that came across it.
THEOREM FunctionsNotDropped == MCSpec => []NoneDropped
<1>1. DbcInv => NoneDropped
  <2> SUFFICES ASSUME DbcInv, NEW w, w = IF kind = "throttle" THEN armed \cup fired
                                     ELSE IF held # 0 /\ armed \cup fired # {}
                                     THEN {func[held]} ELSE {},
                      NEW c \in Dbc!calls, call[c] = "done"
               PROVE  LaterOf(c) \cap (ran \cup w \cup met \cup Dbc!inFlight) # {}
      BY DEF NoneDropped, Dbc!NoneDropped, LaterOf
  <2>1. CASE kind = "throttle"
      BY <2>1 DEF DbcInv, ThrottleInv
  <2>2. CASE kind = "executor"
    <3>1. Served(c) /\ \A d \in Dbc!calls : Working(d)
        BY <2>2 DEF DbcInv, ExecutorInv
    <3>2. CASE LaterOf(c) \cap (ran \cup met) # {}
        BY <3>2
    <3>3. CASE mine[c] = held /\ func[held] \in LaterOf(c) /\ WillRun(held)
      <4>1. held # 0
          BY <3>1, <3>3 DEF Working
      <4>2. CASE armed \cup fired # {}
          BY <2>2, <3>3, <4>1, <4>2
      <4>3. ASSUME NEW e \in Dbc!calls, call[e] = "started", mine[e] = held
            PROVE  LaterOf(c) \cap Dbc!inFlight # {}
        <5>1. e \in Dbc!inFlight /\ e \in 1..begun
            BY <4>3, TaskBounds DEF Dbc!inFlight, DbcInv, DbcTyped, History, Dbc!calls
        <5>2. e \notin over[c]
            BY <4>3 DEF DbcInv, History
        <5>3. QED
            BY <5>1, <5>2 DEF LaterOf
      <4>4. QED
          BY <3>3, <4>2, <4>3 DEF WillRun
    <3>4. QED
        BY <3>1, <3>2, <3>3 DEF Served
  <2>3. QED
      BY <2>1, <2>2 DEF DbcInv, DbcTyped
<1>2. QED
    BY <1>1, DebounceInvariant, PTL

=============================================================================
