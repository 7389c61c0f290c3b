----------------------------- MODULE SshSession -----------------------------
(***************************************************************************)
(* A terminal in the browser (utils/ssh/helper.go): the prompts for a name *)
(* and a password over a websocket, then a session of a reader of the      *)
(* websocket, a sender that flushes the shell's output to it every 120 ms, *)
(* and one that waits for the shell.  Who ends first puts a token in       *)
(* exitCh; the caller takes one and closes the websocket and the session.  *)
(*                                                                         *)
(* Data.  A key is a member of Keys; the shell's output is 1, 2, 3, ...    *)
(* The caller is not in this repository: it makes exitCh, starts the three *)
(* goroutines and waits for a token.                                       *)
(***************************************************************************)
EXTENDS Naturals, Sequences, SequencesExt

CONSTANTS
    Keys,       \* keys of the keyboard, besides Enter and Backspace
    Cap,        \* capacity of exitCh
    MaxKeys,    \* bound: keys of a prompt
    MaxOutput   \* bound: writes of the shell

VARIABLES
    phase,          \* user, password, session, over
    keys, typed,    \* the keys pressed in a prompt; the local of the prompt
    name, screen,   \* the user name; what the prompts wrote to the browser
    wsUp, shell,    \* the websocket; the shell: no, up, exited, broken
    written,        \* writes of the shell so far
    buffer,         \* wsBufferWriter.buffer
    shown,          \* output the browser got
    exitCh,         \* tokens in the channel
    reader, sender, waiter, caller   \* where the goroutines are

sshVars == <<phase, keys, typed, name, screen, wsUp, shell, written, buffer,
             shown, exitCh, reader, sender, waiter, caller>>
prompt  == <<keys, typed, name, screen>>
output  == <<written, buffer, shown>>
threads == <<reader, sender, waiter, caller>>

Init ==
    /\ phase = "user" /\ keys = <<>> /\ typed = <<>> /\ name = <<>> /\ screen = <<>>
    /\ wsUp = TRUE /\ shell = "no" /\ written = 0
    /\ buffer = <<>> /\ shown = <<>> /\ exitCh = 0
    /\ reader = "no" /\ sender = "no" /\ waiter = "no" /\ caller = "no"

-----------------------------------------------------------------------------
(* The prompts.                                                            *)

\* ReceiveWsMsgUser: a key joins the name and is echoed; Backspace takes the
\* last one from both; Enter, and a websocket that fails, end it.
ReceiveWsMsgUser ==
    /\ phase = "user" /\ wsUp
    /\ \/ \E k \in Keys : /\ Len(keys) < MaxKeys
                          /\ keys' = Append(keys, k)
                          /\ typed' = Append(typed, k) /\ screen' = Append(screen, k)
                          /\ UNCHANGED <<phase, name>>
       \/ /\ Len(keys) < MaxKeys /\ keys' = Append(keys, "backspace")
          /\ typed' = IF typed = <<>> THEN <<>> ELSE Front(typed)
          /\ screen' = IF typed = <<>> THEN screen ELSE Front(screen)
          /\ UNCHANGED <<phase, name>>
       \/ /\ name' = typed /\ phase' = "password"
          /\ keys' = <<>> /\ typed' = <<>> /\ UNCHANGED screen
    /\ UNCHANGED <<wsUp, shell, output, exitCh, threads>>

\* ReceiveWsMsgPassword: the same without an echo.
ReceiveWsMsgPassword ==
    /\ phase = "password" /\ wsUp
    /\ \/ \E k \in Keys \cup {"backspace"} :
             /\ Len(keys) < MaxKeys /\ keys' = Append(keys, k)
             /\ typed' = IF k # "backspace" THEN Append(typed, k)
                         ELSE IF typed = <<>> THEN <<>> ELSE Front(typed)
             /\ UNCHANGED phase
       \/ phase' = "connect" /\ UNCHANGED <<keys, typed>>
    /\ UNCHANGED <<name, screen, wsUp, shell, output, exitCh, threads>>

PromptFails ==
    /\ phase \in {"user", "password"} /\ ~wsUp
    /\ phase' = "over" /\ typed' = <<>>
    /\ UNCHANGED <<keys, name, screen, wsUp, shell, output, exitCh, threads>>

\* NewSshClient and NewSshConn: a shell, its output to the buffer, or an error.
NewSshConn ==
    /\ phase = "connect"
    /\ \/ /\ phase' = "session" /\ shell' = "up"
          /\ reader' = "select" /\ sender' = "select" /\ waiter' = "waiting"
          /\ caller' = "waiting"
       \/ phase' = "over" /\ UNCHANGED <<shell, threads>>
    /\ UNCHANGED <<prompt, wsUp, output, exitCh>>

-----------------------------------------------------------------------------
(* What happens around the session.                                        *)

BrowserLeaves == /\ wsUp /\ wsUp' = FALSE
                 /\ UNCHANGED <<phase, prompt, shell, output, exitCh, threads>>

\* The shell ends: with status 0, or with an error, or cut off.
ShellEnds == /\ shell = "up" /\ shell' \in {"exited", "broken"}
             /\ UNCHANGED <<phase, prompt, wsUp, output, exitCh, threads>>

\* wsBufferWriter.Write, under its lock, which flushComboOutput does not take.
Write == /\ shell = "up" /\ written < MaxOutput
         /\ written' = written + 1 /\ buffer' = Append(buffer, written')
         /\ UNCHANGED <<phase, prompt, wsUp, shell, shown, exitCh, threads>>

\* The caller takes a token, closes the session and the websocket.
CallerEnds == /\ caller = "waiting" /\ exitCh > 0
              /\ caller' = "done" /\ exitCh' = exitCh - 1 /\ wsUp' = FALSE
              /\ shell' = IF shell = "up" THEN "broken" ELSE shell
              /\ UNCHANGED <<phase, prompt, output, reader, sender, waiter>>

-----------------------------------------------------------------------------
(* The reader and the waiter.                                              *)

\* setQuit waits for room in the channel.
setQuit == exitCh < Cap /\ exitCh' = exitCh + 1

\* The loop of ReceiveWsMsg: a token ends it; otherwise it waits for a message,
\* which it passes to the shell, or for the end of the websocket; at last it
\* leaves a token (deferred).
ReceiveWsMsg ==
    /\ \/ reader = "select" /\ exitCh > 0 /\ exitCh' = exitCh - 1 /\ reader' = "quit"
       \/ reader = "select" /\ exitCh = 0 /\ reader' = "read" /\ UNCHANGED exitCh
       \/ reader = "read" /\ wsUp /\ reader' = "select" /\ UNCHANGED exitCh
       \/ reader = "read" /\ ~wsUp /\ reader' = "quit" /\ UNCHANGED exitCh
       \/ reader = "quit" /\ setQuit /\ reader' = "done"
    /\ UNCHANGED <<phase, prompt, wsUp, shell, output, sender, waiter, caller>>

\* Login is the same loop, line by line.
Login == ReceiveWsMsg

\* SessionWait tells of a shell that ended with an error, and of no other.
SessionWait ==
    /\ waiter = "waiting" /\ waiter' = "done"
    /\ \/ shell = "exited" /\ UNCHANGED exitCh
       \/ shell = "broken" /\ setQuit
    /\ UNCHANGED <<phase, prompt, wsUp, shell, output, reader, sender, caller>>

-----------------------------------------------------------------------------
(* The sender.                                                             *)

\* A tick of SendComboOutput: flushComboOutput takes what the buffer holds and
\* writes it to the websocket.
FlushWrite ==
    /\ sender = "select"
    /\ IF buffer = <<>> THEN UNCHANGED <<sender, shown>>
       ELSE IF wsUp THEN shown' = shown \o buffer /\ sender' = "reset"
       ELSE sender' = "done" /\ UNCHANGED shown
    /\ UNCHANGED <<phase, prompt, wsUp, shell, written, buffer, exitCh, reader, waiter, caller>>

\* Mutant: what was sent stays in the buffer.
ResetNothing ==
    /\ sender = "reset" /\ sender' = "select"
    /\ UNCHANGED <<phase, prompt, wsUp, shell, written, buffer, shown, exitCh, reader, waiter,
                   caller>>

\* buffer.Reset drops what the buffer holds by now.
FlushReset ==
    /\ sender = "reset" /\ buffer' = <<>> /\ sender' = "select"
    /\ UNCHANGED <<phase, prompt, wsUp, shell, written, shown, exitCh, reader, waiter, caller>>

SenderEnds ==
    /\ sender = "select" /\ exitCh > 0
    /\ exitCh' = exitCh - 1 /\ sender' = "done"
    /\ UNCHANGED <<phase, prompt, wsUp, shell, output, reader, waiter, caller>>

Reader == ReceiveWsMsg \/ Login
Sender == FlushWrite \/ FlushReset \/ SenderEnds

\* Nothing is left to do.  The caller may be left waiting: reader and sender
\* can take each other's tokens, and those of SessionWait.
Rest == /\ phase = "over" \/ (caller \in {"waiting", "done"} /\ reader = "done"
                              /\ waiter = "done" /\ sender = "done")
        /\ UNCHANGED sshVars

Next == \/ ReceiveWsMsgUser \/ ReceiveWsMsgPassword \/ PromptFails \/ NewSshConn
        \/ BrowserLeaves \/ ShellEnds \/ Write \/ CallerEnds
        \/ Reader \/ Sender \/ SessionWait \/ Rest

Spec == Init /\ [][Next]_sshVars

-----------------------------------------------------------------------------
(* Properties.                                                             *)

\* While the name is typed the browser shows it, erased keys gone; nothing of
\* the password is ever shown; of the shell's output nothing is shown twice or
\* out of its order, however writes, flushes and resets interleave.
ScreenTrue ==
    /\ phase = "user" => screen = typed
    /\ phase # "user" => screen = name \/ ~wsUp
    /\ \A m, n \in DOMAIN shown : m < n => shown[m] < shown[n]

\* Every byte the shell writes is on its way to the browser or there
\* (helper.go:257 "every 120ms write combine output bytes into websocket
\* response"), as long as the sender runs.
OutputWhole == sender = "select" => shown \o buffer = [n \in 1..written |-> n]

\* When the browser left, the reader ends: neither the order in which reader,
\* sender, waiter and caller take the tokens nor a full channel holds it.
ReaderLeaves == (reader # "no" /\ ~wsUp) ~> (reader = "done")

=============================================================================
