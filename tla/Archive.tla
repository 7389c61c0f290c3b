------------------------------- MODULE Archive -------------------------------
(***************************************************************************)
(* WriteArchive (utils/file/file.go): a goroutine walks the selected paths *)
(* of a folder that other programs go on changing, and hands one entry at  *)
(* a time to the goroutine of the archiver, which writes to the client     *)
(* through archiveWriter.  The client may stop reading, ctx may be done.   *)
(*                                                                         *)
(* Data.  The folder: root holds file y and directory d, d holds file x.   *)
(* A path names an inode, an inode has a kind and a size.  The archive is  *)
(* what the client was sent: entries, and the end.                         *)
(***************************************************************************)
EXTENDS Naturals, Sequences, SequencesExt

CONSTANTS
    Selections,   \* the sets of paths a user may select, none inside another
    MaxChanges    \* bound: changes of the folder

VARIABLES
    node,       \* the inode of each path, 0 = none
    inode,      \* the inodes made so far: kind and size
    sel, nth,   \* the paths to walk; how many were begun
    start,      \* the path being walked
    todo,       \* what WalkDir visits next, in order
    job,        \* the entry in hand: its path, what Lstat said, its bytes so far
    wpc, apc,   \* where the walker and the archiver are
    err, latch, \* an error of the walk; archiveWriter.err is set
    archErr, gaveUp,  \* the archiver failed; ctx is done
    entries, ended, \* what the client was sent
    still       \* history: paths that were never changed

arcVars == <<node, inode, sel, nth, start, todo, job, wpc, apc, err, latch, archErr,
             gaveUp, entries, ended, still>>
folder  == <<node, inode, still>>
walk    == <<sel, nth, start, todo, err>>
sent    == <<latch, entries, ended>>

Paths == {"root", "d", "x", "y"}
Kinds == {"dir", "file", "link", "pipe"}
There(p) == IF node[p] = 0 THEN <<>> ELSE <<p>>
Inside(p) == CASE p = "root" -> There("d") \o There("y") [] p = "d" -> There("x") [] OTHER -> <<>>
NoJob == [path |-> "", ino |-> 0, size |-> 0]
Kind(p) == IF node[p] = 0 THEN "gone" ELSE inode[node[p]].kind

Init ==
    /\ node = [p \in Paths |-> CASE p = "root" -> 1 [] p = "d" -> 2
                                 [] p = "x" -> 3 [] p = "y" -> 4]
    /\ \E x, y \in {"file", "link", "pipe"} :
          inode = <<[kind |-> "dir", size |-> 0], [kind |-> "dir", size |-> 0],
                    [kind |-> x, size |-> 2], [kind |-> y, size |-> 2]>>
    /\ \E s \in Selections : sel \in SetToSeqs(s)
    /\ nth = 0 /\ start = "" /\ todo = <<>> /\ job = NoJob
    /\ wpc = "select" /\ apc = "opening" /\ still = Paths
    /\ err = FALSE /\ latch = FALSE /\ archErr = FALSE /\ gaveUp = FALSE
    /\ entries = <<>> /\ ended = FALSE

-----------------------------------------------------------------------------
(* What happens around it.                                                 *)

\* A path below root is removed with what is under it, gets a file of another
\* kind or identity, or its file is cut short or grows.
ChangeFolder(p) ==
    /\ Len(inode) < 4 + MaxChanges /\ p # "root" /\ node[p] # 0
    /\ \/ \E k \in Kinds \ {"dir"}, n \in {0, 1} :
             /\ inode' = Append(inode, [kind |-> k, size |-> 2])
             /\ node' = [q \in Paths |-> IF q = p /\ p # "d" THEN n * Len(inode')
                                         ELSE IF q = p \/ (p = "d" /\ q = "x") THEN 0
                                         ELSE node[q]]
       \/ \E n \in {1, 3} :
             /\ Kind(p) = "file"
             /\ inode' = Append([inode EXCEPT ![node[p]].size = n],
                                [kind |-> "none", size |-> 0])
             /\ UNCHANGED node
    /\ still' = still \ ({p} \cup IF p = "d" THEN {"x"} ELSE {})
    /\ UNCHANGED <<walk, job, wpc, apc, archErr, gaveUp, sent>>

GiveUp == /\ ~gaveUp /\ gaveUp' = TRUE
          /\ UNCHANGED <<folder, walk, job, wpc, apc, archErr, sent>>

-----------------------------------------------------------------------------
(* The walker: addTree of each selected path, then the end.                *)

Fail == err' = TRUE /\ wpc' = "fail" /\ UNCHANGED <<sel, nth, start, todo>>

\* An entry below the selected path that is gone is left out (gone).
Skip == IF Head(todo) # start THEN todo' = Tail(todo) /\ UNCHANGED <<sel, nth, start, err, wpc>>
                              ELSE Fail

\* The next selected path, resolved and opened as a root; none left: close.
Select ==
    /\ wpc = "select" /\ todo = <<>>
    /\ IF nth = Len(sel) THEN wpc' = "close" /\ UNCHANGED walk
       ELSE IF node[sel[nth + 1]] = 0 THEN Fail
       ELSE /\ nth' = nth + 1 /\ start' = sel[nth'] /\ todo' = <<sel[nth']>>
            /\ UNCHANGED <<sel, err, wpc>>
    /\ UNCHANGED <<folder, job, apc, archErr, gaveUp, sent>>

\* The callback of WalkDir up to add.  The root has no entry of its own, a
\* link is read in a call of its own, a pipe is left out.
Visit ==
    /\ wpc = "select" /\ todo # <<>>
    /\ LET p == Head(todo)
       IN  \/ gaveUp /\ Fail /\ UNCHANGED job
           \/ ~gaveUp /\ Kind(p) = "gone" /\ Skip /\ UNCHANGED job
           \/ ~gaveUp /\ Kind(p) = "pipe" /\ todo' = Tail(todo)
              /\ UNCHANGED <<sel, nth, start, err, wpc, job>>
           \/ /\ ~gaveUp /\ Kind(p) \in {"dir", "file", "link"}
              /\ job' = [path |-> p, ino |-> node[p], size |-> inode[node[p]].size]
              /\ wpc' = CASE p = "root" -> "list" [] Kind(p) = "link" -> "readlink"
                          [] OTHER -> "add"
              /\ UNCHANGED walk
    /\ UNCHANGED <<folder, apc, archErr, gaveUp, sent>>

Readlink ==
    /\ wpc = "readlink"
    /\ \/ Kind(job.path) = "link" /\ wpc' = "add" /\ UNCHANGED <<walk, job>>
       \/ /\ Kind(job.path) = "gone"
          /\ IF job.path # start THEN wpc' = "select" /\ todo' = Tail(todo)
                                      /\ UNCHANGED <<sel, nth, start, err>>
                                 ELSE Fail
          /\ job' = NoJob
       \/ Kind(job.path) \notin {"link", "gone"} /\ Fail /\ job' = NoJob
    /\ UNCHANGED <<folder, apc, archErr, gaveUp, sent>>

\* add: the select between the archiver, its end, and ctx.
Add ==
    /\ wpc = "add"
    /\ \/ apc = "idle" /\ wpc' = "wait" /\ apc' = "header" /\ UNCHANGED <<walk, job>>
       \/ apc = "stopped" /\ Fail /\ job' = NoJob /\ UNCHANGED apc
       \/ gaveUp /\ Fail /\ job' = NoJob /\ UNCHANGED apc
    /\ UNCHANGED <<folder, archErr, gaveUp, sent>>

\* WalkDir reads the directory after its callback; one that is gone is left.
List ==
    /\ wpc = "list"
    /\ IF Kind(job.path) = "gone" /\ job.path = start THEN Fail
       ELSE /\ wpc' = "select"
            /\ todo' = (IF Kind(job.path) # "dir" THEN <<>> ELSE Inside(job.path)) \o Tail(todo)
            /\ UNCHANGED <<sel, nth, start, err>>
    /\ job' = NoJob
    /\ UNCHANGED <<folder, apc, archErr, gaveUp, sent>>

\* Mutant: the jobs are closed before the error is recorded.
RecordErrorLate ==
    /\ wpc = "fail" /\ wpc' = "close"
    /\ UNCHANGED <<folder, walk, job, apc, archErr, gaveUp, sent>>

\* out.fail(err): before the jobs are closed, so nothing more is written.
RecordError ==
    /\ wpc = "fail"
    /\ latch' = TRUE /\ wpc' = "close"
    /\ UNCHANGED <<folder, walk, job, apc, archErr, gaveUp, entries, ended>>

\* The archiver finished: the first of err, archErr, and what archiveWriter saw.
Return ==
    /\ wpc = "close" /\ apc = "stopped"
    /\ wpc' = IF err \/ archErr \/ latch THEN "failed" ELSE "done"
    /\ UNCHANGED <<folder, walk, job, apc, archErr, gaveUp, sent>>

Walker == Select \/ Visit \/ Readlink \/ Add \/ List \/ RecordError \/ Return

-----------------------------------------------------------------------------
(* The archiver, a library: it takes a job at a time and ends the archive  *)
(* when there are no more, with whatever it can still write.               *)

\* archiveWriter.Write of e: TRUE if it reached the client.
Write(e, ok) ==
    IF latch \/ gaveUp THEN ~ok /\ latch' = TRUE /\ UNCHANGED entries
    ELSE entries' = Append(entries, e) /\ latch' = ~ok

Answer(ok) ==
    /\ apc' = "idle"
    /\ IF ok THEN /\ wpc' = IF inode[job.ino].kind = "dir" THEN "list" ELSE "select"
                  /\ todo' = IF inode[job.ino].kind = "dir" THEN todo ELSE Tail(todo)
                  /\ UNCHANGED <<sel, nth, start, err>>
             ELSE Fail

\* The archiver makes its writers, or cannot.
ArchiverOpens ==
    /\ apc = "opening"
    /\ \/ apc' = "idle" /\ UNCHANGED archErr
       \/ apc' = "stopped" /\ archErr' = TRUE
    /\ UNCHANGED <<folder, walk, job, wpc, gaveUp, sent>>

ArchiverHeader ==
    /\ apc = "header"
    /\ \E ok \in BOOLEAN :
          /\ Write([path |-> job.path, seen |-> job.ino, size |-> job.size,
                    ino |-> 0, got |-> 0], ok)
          /\ IF ok /\ inode[job.ino].kind = "file"
               THEN apc' = "open" /\ UNCHANGED <<walk, wpc>>
               ELSE Answer(ok)
    /\ UNCHANGED <<folder, job, archErr, gaveUp, ended>>

\* openSame: only the file the walk saw.
openSame == IF node[job.path] = job.ino THEN job.ino ELSE 0

ArchiverOpen ==
    /\ apc = "open"
    /\ IF openSame = 0
         THEN Answer(FALSE) /\ UNCHANGED job
         ELSE apc' = "body" /\ job' = [job EXCEPT !.ino = openSame]
              /\ UNCHANGED <<walk, wpc>>
    /\ UNCHANGED <<folder, archErr, gaveUp, sent>>

\* sizedFile: a file that ends early is an error.
sizedFile(have, seen) == have >= seen

\* The file's bytes, as many as the header announced, complete its entry.
ArchiverBody ==
    LET have == inode[job.ino].size
    IN  /\ apc = "body"
        /\ \E ok \in BOOLEAN :
              /\ IF latch \/ gaveUp
                   THEN ~ok /\ latch' = TRUE /\ UNCHANGED entries
                   ELSE /\ entries' = [entries EXCEPT ![Len(entries)].ino = job.ino,
                                      ![Len(entries)].got = IF have < job.size THEN have
                                                                           ELSE job.size]
                        /\ latch' = ~ok
              /\ Answer(ok /\ sizedFile(have, job.size))
        /\ UNCHANGED <<folder, job, archErr, gaveUp, ended>>

\* No more jobs: the end is written, its failure seen by archiveWriter only.
ArchiverEnds ==
    /\ apc = "idle" /\ wpc = "close"
    /\ apc' = "stopped"
    /\ \/ (latch \/ gaveUp) /\ latch' = TRUE /\ UNCHANGED ended
       \/ ~latch /\ ~gaveUp /\ \E ok \in BOOLEAN : ended' = TRUE /\ latch' = ~ok
    /\ UNCHANGED <<folder, walk, job, wpc, archErr, gaveUp, entries>>

Archiver == \/ ArchiverOpens \/ ArchiverHeader \/ ArchiverOpen \/ ArchiverBody
            \/ ArchiverEnds

\* It returned.
Over == wpc \in {"done", "failed"} /\ UNCHANGED arcVars

Next == \/ Walker \/ Archiver \/ GiveUp \/ Over
        \/ \E p \in Paths : ChangeFolder(p)

-----------------------------------------------------------------------------
(* Properties.                                                             *)

Within(p, s) == p = s \/ s = "root" \/ (s = "d" /\ p = "x")

\* What the user selected, that nobody touched, and that an archive can hold.
Wanted == {p \in still \ {"root"} :
              Kind(p) # "pipe" /\ \E n \in DOMAIN sel : Within(p, sel[n])}

\* "After an error nothing more is written to w, so the archive is left
\* unterminated rather than looking complete" (file.go:425): an archive that has
\* its end is complete, whatever WriteArchive then returns.  Every file in it
\* has the bytes its header announces, of the file the walk saw, and every
\* selected path nobody touched is in it once.  No error means it has its end.
ArchiveHonest ==
    /\ wpc = "done" => ended
    /\ ended =>
        /\ \A n \in DOMAIN entries : inode[entries[n].seen].kind = "file" =>
              entries[n].ino = entries[n].seen /\ entries[n].got = entries[n].size
        /\ \A m, n \in DOMAIN entries : entries[m].path = entries[n].path => m = n
        /\ \A p \in Wanted : \E n \in DOMAIN entries : entries[n].path = p

\* WriteArchive returns, although the archiver may stop before the walk does.
ArchiveReturns == <>(wpc \in {"done", "failed"})

=============================================================================
