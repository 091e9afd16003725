----------------------------- MODULE FileStore ------------------------------
(***************************************************************************)
(* The files the supervisor writes, copies and reads while others write    *)
(* them: /api/file/write streams a body to a temporary file, flushes it,   *)
(* renames it over the master's mod file and clones that to the caves      *)
(* (api.go:583-690 and 1008-1087); the boot of the server copies the       *)
(* configured mod file to both shards (main.go:144-145), which takes no    *)
(* gate; probes read files that steamcmd or an editor rewrite in place     *)
(* (update.go:320-446).  Copies and probes share one protocol: stat, read, *)
(* stat again, three times at most (update.go:1052-1124).                  *)
(*                                                                         *)
(* A content is a sequence of two chunks of one version, so a torn one can *)
(* be told.  A time of modification is a tick of the kernel's clock, and   *)
(* several writes may fall into one tick.  A power cut may strike at any   *)
(* moment: it takes from every file that was not flushed some of its end.  *)
(***************************************************************************)
EXTENDS Naturals, Sequences

CONSTANTS
    Handlers,      \* goroutines that serve /api/file/read and /api/file/write
    Tries,         \* readings before a copy or a snapshot gives up (3)
    Versions,      \* contents of bodies and edits
    MaxClock,      \* bound on the clock
    MaxOps         \* bound on edits, bodies, boots and snapshots together

ASSUME FileStoreAssumption ==
    "main" \notin Handlers /\ "none" \notin Versions /\ Tries \in Nat \ {0} /\ {MaxClock, MaxOps} \subseteq Nat

Procs == Handlers \cup {"main"}      \* "main": the main loop and its probes
Shards == {"master", "caves"}        \* their mod files
Paths == Shards \cup {"source"}      \* "source": what others rewrite in place
Memory == {"list", "number"}         \* what probes read to: all of a file, or up to a number
Chunks == 2

Content(v) == [i \in 1 .. Chunks |-> v]
Whole(data) == \E v \in Versions : data = Content(v)

VARIABLES
    file,          \* [data, mtime, safe: flushed, excuse: history, why it may be torn]
    clock,
    edit,          \* the version somebody is writing to the source in place, or "none"
    ops,           \* edits, bodies, boots and snapshots begun
    gate,          \* the gate of the file API
    job            \* what each process does

vars == <<file, clock, edit, ops, gate, job>>

\* A job: where it is; what it reads and writes (to memory: a snapshot); the
\* failed tries; the first stat; its temporary file, the tick of its last
\* write, and whether it is flushed; the version of a body.
\* History: the source was written in the tick of the first stat; the content
\* may be torn for a known cause; a boot's copy fell into the clone.
Idle ==
    [at |-> "idle", src |-> "source", dst |-> "list", try |-> 0,
     stat |-> [mtime |-> 0, size |-> 0], data |-> <<>>, stamp |-> 0, safe |-> FALSE, ver |-> "none",
     blurred |-> FALSE, excuse |-> FALSE, crossed |-> FALSE]

Init ==
    /\ \E v \in Versions :
           file = [p \in Paths |-> [data |-> Content(v), mtime |-> 0, safe |-> TRUE, excuse |-> FALSE]]
    /\ clock = 0 /\ edit = "none" /\ ops = 0 /\ gate = FALSE
    /\ job = [p \in Procs |-> Idle]

Stat(path) == [mtime |-> file[path].mtime, size |-> Len(file[path].data)]

\* A job that has taken its first stat of a path and not yet its second.
Between(p, path) == job[p].src = path /\ job[p].at \in {"open", "read", "after"}

\* The jobs when a path gets the time of modification m.
Blur(jobs, path, m) ==
    [p \in Procs |-> IF Between(p, path) /\ job[p].stat.mtime = m
                     THEN [jobs[p] EXCEPT !.blurred = TRUE] ELSE jobs[p]]

-----------------------------------------------------------------------------
(* the world outside                                                       *)

Count == ops < MaxOps /\ ops' = ops + 1

Tick == clock < MaxClock /\ clock' = clock + 1 /\ UNCHANGED <<file, edit, ops, gate, job>>

WriteSource(data) ==
    /\ file' = [file EXCEPT !["source"] = [@ EXCEPT !.data = data, !.mtime = clock, !.safe = FALSE]]
    /\ job' = Blur(job, "source", clock)

\* Somebody truncates the source and writes a new version, chunk by chunk.
EditBegin ==
    /\ edit = "none" /\ edit' \in Versions
    /\ WriteSource(<<>>)
    /\ Count
    /\ UNCHANGED <<clock, gate>>

EditChunk ==
    /\ edit # "none"
    /\ WriteSource(Append(file["source"].data, edit))
    /\ edit' = IF Len(file'["source"].data) = Chunks THEN "none" ELSE edit
    /\ UNCHANGED <<clock, ops, gate>>

\* The power fails and the supervisor starts anew.
PowerCut ==
    /\ \E keep \in 0 .. Chunks - 1 :
           file' = [p \in Paths |->
                      IF file[p].safe THEN file[p]
                      ELSE [file[p] EXCEPT !.safe = TRUE,
                              !.data = IF Len(@) > keep THEN SubSeq(@, 1, keep) ELSE @]]
    /\ edit' = "none" /\ gate' = FALSE
    /\ job' = [p \in Procs |-> Idle]
    /\ UNCHANGED <<clock, ops>>

-----------------------------------------------------------------------------
(* stat, read, stat again                                                  *)

\* What a process does after a copy or a snapshot: the main loop ignores how
\* the first copy of a boot ended and goes on to the second; a handler that
\* failed has answered 500.
Ended(jobs, p, ok) ==
    [jobs EXCEPT ![p] =
        IF p \in Handlers /\ ok THEN [@ EXCEPT !.at = "ok"]
        ELSE IF p = "main" /\ @.dst = "master" THEN [Idle EXCEPT !.at = "before", !.dst = "caves"]
        ELSE Idle]

\* The gate after that: the deferred store opens it when the handler returns.
GateAfter(p, ok) == gate' = (gate /\ (p = "main" \/ ok))

\* update.go:1056, 417, 325: the first stat of a try.
Before(p) ==
    /\ job[p].at = "before"
    /\ job' = [job EXCEPT ![p] = [@ EXCEPT !.at = "open", !.stat = Stat(job[p].src), !.data = <<>>,
                                           !.safe = FALSE, !.blurred = FALSE, !.excuse = FALSE]]
    /\ UNCHANGED <<file, clock, edit, ops, gate>>

\* update.go:1061-1074: the file is opened and, for a copy, a temporary file
\* created.  A file that is only ever renamed over stays what it was for those
\* who opened it, so it is as good as read.
Open(p) ==
    /\ job[p].at = "open"
    /\ job' = [job EXCEPT ![p] =
                 [@ EXCEPT !.at = "read",
                           !.data = IF job[p].src = "source" THEN <<>> ELSE file[job[p].src].data]]
    /\ UNCHANGED <<file, clock, edit, ops, gate>>

\* What is left to read: the source changes under the hands of its readers.
Rest(p) ==
    IF job[p].src = "source"
    THEN SubSeq(file["source"].data, Len(job[p].data) + 1, Len(file["source"].data)) ELSE <<>>

\* update.go:1076 (io.Copy), 427 (os.ReadFile), 338-370: one chunk.
ReadChunk(p) ==
    /\ job[p].at = "read" /\ Rest(p) # <<>>
    /\ job' = [job EXCEPT ![p].data = Append(@, Head(Rest(p)))]
    /\ UNCHANGED <<file, clock, edit, ops, gate>>

\* update.go:1076-1086: the end of the file; a copy is flushed, and an error
\* of that is ignored.  The reader of the version stops at the number
\* (update.go:338-370), which may stand anywhere.
ReadEnd(p) ==
    /\ job[p].at = "read"
    /\ \/ Rest(p) = <<>>
       \/ job[p].dst = "number" /\ job[p].data # <<>>
    /\ \E ok \in BOOLEAN :
           /\ ok \/ job[p].dst \notin Memory
           /\ job' = [job EXCEPT ![p] = [@ EXCEPT !.at = "after", !.stamp = clock, !.safe = ok]]
    /\ UNCHANGED <<file, clock, edit, ops, gate>>

\* Why a content that is accepted now is torn, or may be after a power cut: it
\* could not be flushed, the source was torn itself, or it was written in the
\* tick of the first stat.
Excuse(p) ==
    \/ ~job[p].safe
    \/ ~Whole(job[p].data) /\ (job[p].blurred \/ ~Whole(file[job[p].src].data))

Accept(p) ==
    job' = [job EXCEPT ![p] = [@ EXCEPT !.at = IF job[p].dst \in Memory THEN "have" ELSE "swap",
                                        !.stat = Idle.stat, !.excuse = Excuse(p)]]

\* Mutant: what was read counts without a second look.
After_NoCheck(p) ==
    /\ job[p].at = "after"
    /\ Accept(p)
    /\ UNCHANGED <<file, clock, edit, ops, gate>>

\* update.go:1089-1100, 432-445, 376-388: what was read counts when time of
\* modification and size are what they were; otherwise once more, or it fails.
After(p) ==
    /\ job[p].at = "after"
    /\ \/ /\ Stat(job[p].src) = job[p].stat
          /\ Accept(p) /\ UNCHANGED gate
       \/ /\ Stat(job[p].src) # job[p].stat /\ job[p].try + 1 < Tries
          /\ job' = [job EXCEPT ![p] = [@ EXCEPT !.at = "before", !.try = job[p].try + 1]]
          /\ UNCHANGED gate
       \/ /\ Stat(job[p].src) # job[p].stat /\ job[p].try + 1 >= Tries
          /\ job' = Ended(job, p, FALSE) /\ GateAfter(p, FALSE)
    /\ UNCHANGED <<file, clock, edit, ops>>

\* The temporary file of a process replaces a path; whoever looks at the path
\* sees the time of its last write; nobody looks at the one of the caves.
Replace(p, path) ==
    file' = [file EXCEPT ![path] = [data |-> job[p].data,
                                    mtime |-> IF path = "caves" THEN 0 ELSE job[p].stamp,
                                    safe |-> job[p].safe, excuse |-> job[p].excuse]]

\* The handlers whose clone a copy of the main loop falls into.
Cross(jobs, p) ==
    [q \in Procs |->
        IF p = "main" /\ q \in Handlers /\ jobs[q].src = "master"
        THEN [jobs[q] EXCEPT !.crossed = TRUE] ELSE jobs[q]]

\* update.go:1102-1118: five attempts to rename, as one.
Swap(p) ==
    /\ job[p].at = "swap"
    /\ Replace(p, job[p].dst)
    /\ job' = Ended(Cross(Blur(job, job[p].dst, job[p].stamp), p), p, TRUE)
    /\ UNCHANGED <<clock, edit, ops, gate>>

\* A stat, an open, a write or a rename fails, or the body breaks off; the
\* temporary file is removed.
Fail(p) ==
    /\ job[p].at \notin {"idle", "get", "ok", "have"}
    /\ job' = Ended(job, p, FALSE) /\ GateAfter(p, FALSE)
    /\ UNCHANGED <<file, clock, edit, ops>>

-----------------------------------------------------------------------------
(* the main loop                                                           *)

\* main.go:144-145: the copies of a boot, whatever the gate.
BootCopies ==
    /\ job["main"].at = "idle"
    /\ job' = [job EXCEPT !["main"] = [Idle EXCEPT !.at = "before", !.dst = "master"]]
    /\ Count
    /\ UNCHANGED <<file, clock, edit, gate>>

\* A probe reads the source to memory (update.go:320, 412), and has read it.
Snapshot ==
    /\ job["main"].at = "idle"
    /\ \E d \in Memory : job' = [job EXCEPT !["main"] = [Idle EXCEPT !.at = "before", !.dst = d]]
    /\ Count
    /\ UNCHANGED <<file, clock, edit, gate>>

Used ==
    /\ job["main"].at = "have"
    /\ job' = [job EXCEPT !["main"] = Idle]
    /\ UNCHANGED <<file, clock, edit, ops, gate>>

-----------------------------------------------------------------------------
(* the handlers                                                            *)

\* Mutant: the gate is not asked.
Enter_NoGate(h) ==
    /\ job[h].at = "idle"
    /\ gate' = TRUE
    /\ \E v \in Versions : job' = [job EXCEPT ![h] = [Idle EXCEPT !.at = "stream", !.ver = v]]
    /\ Count
    /\ UNCHANGED <<file, clock, edit>>

\* api.go:583-674: a body comes in; a closed gate answers 423 and changes
\* nothing.
Enter(h) ==
    /\ job[h].at = "idle"
    /\ ~gate /\ gate' = TRUE
    /\ \E v \in Versions : job' = [job EXCEPT ![h] = [Idle EXCEPT !.at = "stream", !.ver = v]]
    /\ Count
    /\ UNCHANGED <<file, clock, edit>>

\* api.go:1027-1049: the whole body has gone to the temporary file.
Stream(h) ==
    /\ job[h].at = "stream"
    /\ job' = [job EXCEPT ![h] = [@ EXCEPT !.at = "sync", !.stamp = clock,
                                           !.data = Content(job[h].ver)]]
    /\ UNCHANGED <<file, clock, edit, ops, gate>>

\* Mutant: the temporary file is not flushed.
Sync_Skipped(h) ==
    /\ job[h].at = "sync"
    /\ job' = [job EXCEPT ![h] = [@ EXCEPT !.at = "rename"]]
    /\ UNCHANGED <<file, clock, edit, ops, gate>>

\* api.go:1059-1070: an error here fails the write (Fail).
Sync(h) ==
    /\ job[h].at = "sync"
    /\ job' = [job EXCEPT ![h] = [@ EXCEPT !.at = "rename", !.safe = TRUE]]
    /\ UNCHANGED <<file, clock, edit, ops, gate>>

\* api.go:1072-1086 and 680: the new file is in place; now the clone.
Rename(h) ==
    /\ job[h].at = "rename"
    /\ Replace(h, "master")
    /\ job' = [Blur(job, "master", job[h].stamp) EXCEPT
                 ![h] = [Idle EXCEPT !.at = "before", !.src = "master", !.dst = "caves",
                                     !.ver = job[h].ver]]
    /\ UNCHANGED <<clock, edit, ops, gate>>

\* api.go:588 and 688-690: the answer, and the deferred store.
Answer(h) ==
    /\ job[h].at = "ok"
    /\ job' = [job EXCEPT ![h] = Idle] /\ gate' = FALSE
    /\ UNCHANGED <<file, clock, edit, ops>>

\* api.go:477-574: a client reads a file; it takes the gate as well.
Get(h) ==
    /\ \/ job[h].at = "idle" /\ ~gate /\ gate' = TRUE
          /\ job' = [job EXCEPT ![h] = [Idle EXCEPT !.at = "get"]]
       \/ job[h].at = "get" /\ gate' = FALSE
          /\ job' = [job EXCEPT ![h] = Idle]
    /\ UNCHANGED <<file, clock, edit, ops>>

-----------------------------------------------------------------------------
Outside == Tick \/ EditBegin \/ EditChunk \/ PowerCut
Reading(p) ==
    Before(p) \/ Open(p) \/ ReadChunk(p) \/ ReadEnd(p) \/ After(p) \/ Swap(p) \/ Fail(p)
Main == BootCopies \/ Snapshot \/ Used
Handler(h) == Enter(h) \/ Stream(h) \/ Sync(h) \/ Rename(h) \/ Answer(h) \/ Get(h)

Next ==
    \/ Outside \/ Main
    \/ \E p \in Procs : Reading(p)
    \/ \E h \in Handlers : Handler(h)

Spec == Init /\ [][Next]_vars

-----------------------------------------------------------------------------
(* Properties                                                              *)

\* A is how B begins.
Begins(a, b) == Len(a) <= Len(b) /\ \A i \in 1 .. Len(a) : a[i] = b[i]

\* A reading that is accepted is what its path held at one instant and not a
\* mixture of two contents, unless somebody wrote to the path in the very tick
\* of the clock that the first stat saw (update.go:376, 432, 1094); the reader
\* of the version may hold its beginning only.
ReadingReal ==
    [][\A p \in Procs :
          job[p].at = "after" /\ job'[p].at \in {"swap", "have"} =>
              \/ job[p].data = file[job[p].src].data
              \/ job[p].dst = "number" /\ Begins(job[p].data, file[job[p].src].data)
              \/ job[p].blurred]_vars

\* A handler that answers success has put its body into both shards' files,
\* as the API promises, unless the copies of a boot, which take no gate, fell
\* into its clone (api.go:674-686, main.go:144-145).
Mirrored ==
    \A h \in Handlers :
        job[h].at = "ok" /\ ~job[h].crossed =>
            \A s \in Shards : file[s].data = Content(job[h].ver)

\* The mod files of the shards are whole at every instant, power cuts
\* included, but for three causes that only copies have: the source was torn
\* when it was copied, it was written in one tick of the clock with the first
\* stat, or the flush failed, which the code ignores (api.go:1059, update.go:1085).
Intact == \A s \in Shards : Whole(file[s].data) \/ file[s].excuse

=============================================================================
