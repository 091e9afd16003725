-------------------------- MODULE FileStoreProofs --------------------------
(***************************************************************************)
(* Files are replaced whole: proofs of ReadingReal, Intact and Mirrored    *)
(* for any number of handlers, versions and tries.                         *)
(***************************************************************************)
EXTENDS FileStore, Integers, SequenceTheorems, TLAPS

-----------------------------------------------------------------------------
(* Types                                                                   *)

Places == {"idle", "get", "stream", "sync", "rename", "before", "open", "read", "after", "swap",
           "have", "ok"}

Words == Versions \cup {"none"}
Datas == Seq(Words)

Jobs == [at : Places, src : {"source", "master"}, dst : Shards \cup Memory,
         try : Int, stat : [mtime : Int, size : Int], data : Datas, stamp : Int,
         safe : BOOLEAN, ver : Words, blurred : BOOLEAN, excuse : BOOLEAN,
         crossed : BOOLEAN]

Files == [data : Datas, mtime : Int, safe : BOOLEAN, excuse : BOOLEAN]

StoreTypes ==
    /\ file \in [Paths -> Files]
    /\ clock \in Int /\ edit \in Words /\ gate \in BOOLEAN
    /\ job \in [Procs -> Jobs]

LEMMA ContentType == ASSUME NEW v \in Words PROVE Content(v) \in Datas
BY DEF Content, Datas, Chunks

LEMMA IdleType == Idle \in Jobs
BY DEF Idle, Jobs, Places, Datas, Shards, Words, Memory

LEMMA StatType == ASSUME StoreTypes, NEW p \in Procs PROVE Stat(job[p].src) \in [mtime : Int, size : Int]
BY DEF StoreTypes, Stat, Jobs, Files, Datas, Paths, Shards

\* The ways a step changes jobs: one of them, and flags of the others.
LEMMA BlurType ==
    ASSUME StoreTypes, NEW js \in [Procs -> Jobs], NEW x, NEW m
    PROVE  Blur(js, x, m) \in [Procs -> Jobs]
<1>1. ASSUME NEW j \in Jobs PROVE [j EXCEPT !.blurred = TRUE] \in Jobs
  BY DEF Jobs
<1> QED
  BY <1>1 DEF Blur

LEMMA CrossType ==
    ASSUME StoreTypes, NEW js \in [Procs -> Jobs], NEW p \in Procs
    PROVE  Cross(js, p) \in [Procs -> Jobs]
<1>1. ASSUME NEW j \in Jobs PROVE [j EXCEPT !.crossed = TRUE] \in Jobs
  BY DEF Jobs
<1> QED
  BY <1>1 DEF Cross

LEMMA EndedType ==
    ASSUME StoreTypes, NEW js \in [Procs -> Jobs], NEW p \in Procs, NEW ok \in BOOLEAN
    PROVE  Ended(js, p, ok) \in [Procs -> Jobs]
<1>1. ASSUME NEW j \in Jobs PROVE [j EXCEPT !.at = "ok"] \in Jobs
  BY DEF Jobs, Places
<1>2. [Idle EXCEPT !.at = "before", !.dst = "caves"] \in Jobs
  BY IdleType DEF Jobs, Places, Shards
<1> QED
  BY <1>1, <1>2, IdleType DEF Ended

LEMMA RestType ==
    ASSUME StoreTypes, NEW p \in Procs
    PROVE  Rest(p) \in Datas
<1>1. job[p].data \in Datas /\ file["source"].data \in Datas
  BY DEF StoreTypes, Jobs, Files, Paths
<1> QED
  BY <1>1 DEF Rest, Datas

LEMMA WriteType ==
    ASSUME StoreTypes, NEW d \in Datas, WriteSource(d)
    PROVE  file' \in [Paths -> Files] /\ job' \in [Procs -> Jobs]
<1>1. "source" \in Paths
  BY DEF Paths
<1>2. [file["source"] EXCEPT !.data = d, !.mtime = clock, !.safe = FALSE] \in Files
  BY <1>1 DEF StoreTypes, Files
<1>3. job' \in [Procs -> Jobs]
  BY <1>1, BlurType DEF WriteSource, StoreTypes
<1> QED
  BY <1>1, <1>2, <1>3 DEF WriteSource, StoreTypes

LEMMA ReplaceType ==
    ASSUME StoreTypes, NEW p \in Procs, NEW x, Replace(p, x)
    PROVE  file' \in [Paths -> Files]
<1>1. [data |-> job[p].data, mtime |-> IF x = "caves" THEN 0 ELSE job[p].stamp,
       safe |-> job[p].safe, excuse |-> job[p].excuse] \in Files
  BY DEF StoreTypes, Jobs, Files
<1> QED
  BY <1>1 DEF Replace, StoreTypes

LEMMA StoreTypesInit == Init => StoreTypes
<1> SUFFICES ASSUME Init PROVE StoreTypes
  OBVIOUS
<1>1. PICK v \in Versions :
          file = [p \in Paths |-> [data |-> Content(v), mtime |-> 0, safe |-> TRUE, excuse |-> FALSE]]
  BY DEF Init
<1>2. [data |-> Content(v), mtime |-> 0, safe |-> TRUE, excuse |-> FALSE] \in Files
  BY ContentType DEF Files, Words
<1>3. file \in [Paths -> Files]
  BY <1>1, <1>2
<1>4. job \in [Procs -> Jobs]
  BY IdleType DEF Init
<1>5. clock \in Int /\ edit \in Words
  BY DEF Init, Words
<1>6. gate \in BOOLEAN
  BY DEF Init
<1> QED
  BY <1>3, <1>4, <1>5, <1>6 DEF StoreTypes

LEMMA OutsideTypes == StoreTypes /\ Outside => StoreTypes'
<1> SUFFICES ASSUME StoreTypes, Outside PROVE StoreTypes'
  OBVIOUS
<1>1. CASE Tick
  BY <1>1 DEF Tick, StoreTypes
<1>2. CASE EditBegin
  <2>1. <<>> \in Datas
    BY DEF Datas
  <2> QED
    BY <1>2, <2>1, WriteType DEF EditBegin, StoreTypes, Words
<1>3. CASE EditChunk
  <2>1. Append(file["source"].data, edit) \in Datas
    BY <1>3 DEF EditChunk, StoreTypes, Files, Datas, Paths
  <2>2. edit' \in Words
    BY <1>3 DEF EditChunk, StoreTypes, Words
  <2> QED
    BY <1>3, <2>1, <2>2, WriteType DEF EditChunk, StoreTypes
<1>4. CASE PowerCut
  <2>1. PICK keep \in 0 .. Chunks - 1 :
           file' = [p \in Paths |->
                      IF file[p].safe THEN file[p]
                      ELSE [file[p] EXCEPT !.safe = TRUE,
                              !.data = IF Len(@) > keep THEN SubSeq(@, 1, keep) ELSE @]]
    BY <1>4 DEF PowerCut
  <2>2. ASSUME NEW f \in Files
        PROVE  [f EXCEPT !.safe = TRUE,
                  !.data = IF Len(@) > keep THEN SubSeq(@, 1, keep) ELSE @] \in Files
    <3>1. f.data \in Seq(Words)
      BY DEF Files, Datas
    <3>2. (IF Len(f.data) > keep THEN SubSeq(f.data, 1, keep) ELSE f.data) \in Datas
      BY <3>1 DEF Datas, Chunks
    <3> QED
      BY <3>2 DEF Files
  <2>3. file' \in [Paths -> Files]
    BY <2>1, <2>2 DEF StoreTypes
  <2> QED
    BY <1>4, <2>3, IdleType DEF PowerCut, StoreTypes, Words
<1> QED
  BY <1>1, <1>2, <1>3, <1>4 DEF Outside

LEMMA ReadingTypes == ASSUME StoreTypes, NEW p \in Procs, Reading(p) PROVE StoreTypes'
<1>0. job[p] \in Jobs /\ job \in [Procs -> Jobs] /\ file \in [Paths -> Files]
      /\ gate \in BOOLEAN /\ clock \in Int
  BY DEF StoreTypes
<1>1. CASE Before(p)
  <2>1. [job[p] EXCEPT !.at = "open", !.stat = Stat(job[p].src), !.data = <<>>,
                       !.safe = FALSE, !.blurred = FALSE, !.excuse = FALSE] \in Jobs
    <3>1. Stat(job[p].src) \in [mtime : Int, size : Int] /\ <<>> \in Datas /\ "open" \in Places
      BY StatType DEF Datas, Places
    <3> QED
      BY <1>0, <3>1 DEF Jobs
  <2> QED
    BY <1>1, <2>1 DEF Before, StoreTypes
<1>2. CASE Open(p)
  <2>1. [job[p] EXCEPT !.at = "read",
             !.data = IF job[p].src = "source" THEN <<>> ELSE file[job[p].src].data] \in Jobs
    <3>1. (IF job[p].src = "source" THEN <<>> ELSE file[job[p].src].data) \in Datas
      BY <1>0 DEF Jobs, Datas, Files, Paths, Shards
    <3> QED
      BY <1>0, <3>1 DEF Jobs, Places
  <2> QED
    BY <1>2, <2>1 DEF Open, StoreTypes
<1>3. CASE ReadChunk(p)
  <2>1. Rest(p) \in Seq(Words) /\ Rest(p) # <<>>
    BY <1>3, RestType DEF ReadChunk, Datas
  <2>2. Head(Rest(p)) \in Words
    BY <2>1
  <2>3. job[p].data \in Seq(Words)
    BY <1>0 DEF Jobs, Datas
  <2>4. Append(job[p].data, Head(Rest(p))) \in Datas
    BY <2>2, <2>3 DEF Datas
  <2>5. [job[p] EXCEPT !.data = Append(job[p].data, Head(Rest(p)))] \in Jobs
    BY <1>0, <2>4 DEF Jobs
  <2> QED
    BY <1>0, <1>3, <2>5 DEF ReadChunk, StoreTypes
<1>4. CASE ReadEnd(p)
  <2>1. ASSUME NEW ok \in BOOLEAN
        PROVE  [job[p] EXCEPT !.at = "after", !.stamp = clock, !.safe = ok] \in Jobs
    BY <1>0 DEF Jobs, Places
  <2> QED
    BY <1>4, <2>1 DEF ReadEnd, StoreTypes
<1>5. CASE After(p)
  <2>1. gate' \in BOOLEAN
    BY <1>0, <1>5 DEF After, GateAfter
  <2>2. CASE Accept(p)
    <3>1. Excuse(p) \in BOOLEAN
      BY <1>0 DEF Excuse, Whole, Jobs
    <3>2. Idle.stat \in [mtime : Int, size : Int]
      BY DEF Idle
    <3>3. [job[p] EXCEPT !.at = IF job[p].dst \in Memory THEN "have" ELSE "swap",
                         !.stat = Idle.stat, !.excuse = Excuse(p)] \in Jobs
      BY <1>0, <3>1, <3>2 DEF Jobs, Places
    <3> QED
      BY <1>5, <2>1, <2>2, <3>3 DEF Accept, After, StoreTypes
  <2>3. CASE job' = [job EXCEPT ![p] = [@ EXCEPT !.at = "before", !.try = job[p].try + 1]]
    <3>1. job[p].try + 1 \in Int /\ "before" \in Places
      BY <1>0 DEF Jobs, Places
    <3>2. [job[p] EXCEPT !.at = "before", !.try = job[p].try + 1] \in Jobs
      BY <1>0, <3>1 DEF Jobs
    <3>3. UNCHANGED <<file, clock, edit>>
      BY <1>5 DEF After
    <3> QED
      BY <1>0, <2>1, <2>3, <3>2, <3>3 DEF StoreTypes
  <2>4. CASE job' = Ended(job, p, FALSE)
    BY <1>0, <1>5, <2>1, <2>4, EndedType DEF After, StoreTypes
  <2> QED
    BY <1>5, <2>2, <2>3, <2>4 DEF After
<1>6. CASE Swap(p)
  <2>1. Blur(job, job[p].dst, job[p].stamp) \in [Procs -> Jobs]
    BY <1>0, BlurType
  <2>2. Cross(Blur(job, job[p].dst, job[p].stamp), p) \in [Procs -> Jobs]
    BY <2>1, CrossType
  <2>3. job' \in [Procs -> Jobs]
    BY <1>6, <2>2, EndedType DEF Swap
  <2>4. file' \in [Paths -> Files]
    BY <1>6, ReplaceType DEF Swap
  <2> QED
    BY <1>6, <2>3, <2>4 DEF Swap, StoreTypes
<1>7. CASE Fail(p)
  <2>1. gate' \in BOOLEAN
    BY <1>0, <1>7 DEF Fail, GateAfter
  <2> QED
    BY <1>0, <1>7, <2>1, EndedType DEF Fail, StoreTypes
<1> QED
  BY <1>1, <1>2, <1>3, <1>4, <1>5, <1>6, <1>7 DEF Reading

LEMMA MainTypes == StoreTypes /\ Main => StoreTypes'
<1> SUFFICES ASSUME StoreTypes, Main PROVE StoreTypes'
  OBVIOUS
<1>1. "before" \in Places /\ "master" \in Shards /\ "main" \in Procs
  BY DEF Places, Shards, Procs
<1>2. [Idle EXCEPT !.at = "before", !.dst = "master"] \in Jobs
      /\ \A d \in Memory : [Idle EXCEPT !.at = "before", !.dst = d] \in Jobs
  BY <1>1, IdleType DEF Jobs
<1> QED
  BY <1>1, <1>2, IdleType DEF Main, BootCopies, Snapshot, Used, StoreTypes

LEMMA HandlerTypes == ASSUME StoreTypes, NEW h \in Handlers, Handler(h) PROVE StoreTypes'
<1>0. h \in Procs /\ job[h] \in Jobs /\ job \in [Procs -> Jobs] /\ file \in [Paths -> Files]
      /\ clock \in Int
  BY DEF StoreTypes, Procs
<1>1. CASE Enter(h)
  <2>1. ASSUME NEW v \in Versions PROVE [Idle EXCEPT !.at = "stream", !.ver = v] \in Jobs
    BY IdleType DEF Jobs, Places, Words
  <2> QED
    BY <1>1, <2>1 DEF Enter, StoreTypes
<1>2. CASE Stream(h)
  <2>1. Content(job[h].ver) \in Datas
    BY <1>0, ContentType DEF Jobs
  <2>2. [job[h] EXCEPT !.at = "sync", !.stamp = clock, !.data = Content(job[h].ver)] \in Jobs
    BY <1>0, <2>1 DEF Jobs, Places
  <2> QED
    BY <1>2, <2>2 DEF Stream, StoreTypes
<1>3. CASE Sync(h)
  <2>1. [job[h] EXCEPT !.at = "rename", !.safe = TRUE] \in Jobs
    BY <1>0 DEF Jobs, Places
  <2> QED
    BY <1>3, <2>1 DEF Sync, StoreTypes
<1>4. CASE Rename(h)
  <2>1. Blur(job, "master", job[h].stamp) \in [Procs -> Jobs]
    BY <1>0, BlurType
  <2>2. [Idle EXCEPT !.at = "before", !.src = "master", !.dst = "caves", !.ver = job[h].ver] \in Jobs
    BY <1>0, IdleType DEF Jobs, Places, Shards
  <2>3. job' \in [Procs -> Jobs]
    BY <1>0, <1>4, <2>1, <2>2 DEF Rename
  <2>4. file' \in [Paths -> Files]
    BY <1>0, <1>4, ReplaceType DEF Rename
  <2> QED
    BY <1>4, <2>3, <2>4 DEF Rename, StoreTypes
<1>5. CASE Answer(h)
  BY <1>5, IdleType DEF Answer, StoreTypes
<1>6. CASE Get(h)
  <2>1. [Idle EXCEPT !.at = "get"] \in Jobs
    BY IdleType DEF Jobs, Places
  <2> QED
    BY <1>6, <2>1, IdleType DEF Get, StoreTypes
<1> QED
  BY <1>1, <1>2, <1>3, <1>4, <1>5, <1>6 DEF Handler

LEMMA StoreTypesStep == StoreTypes /\ [Next]_vars => StoreTypes'
<1> SUFFICES ASSUME StoreTypes, [Next]_vars PROVE StoreTypes'
  OBVIOUS
<1>1. CASE UNCHANGED vars
  BY <1>1 DEF vars, StoreTypes
<1>2. CASE Next
  BY <1>2, OutsideTypes, ReadingTypes, MainTypes, HandlerTypes DEF Next
<1> QED
  BY <1>1, <1>2

-----------------------------------------------------------------------------
(* How a step leaves those who do not take it                              *)

\* All that others can do to a job is to set one of its two history flags.
Same(i, j) ==
    /\ i.at = j.at /\ i.src = j.src /\ i.dst = j.dst /\ i.stat = j.stat /\ i.data = j.data
    /\ i.safe = j.safe /\ i.ver = j.ver /\ i.excuse = j.excuse
    /\ i.blurred => j.blurred
    /\ i.crossed => j.crossed

LEMMA BlurSame ==
    ASSUME StoreTypes, NEW js \in [Procs -> Jobs], NEW x, NEW m, NEW q \in Procs
    PROVE  Same(js[q], Blur(js, x, m)[q]) /\ Blur(js, x, m)[q].crossed = js[q].crossed
<1>1. ASSUME NEW j \in Jobs
      PROVE  /\ Same(j, [j EXCEPT !.blurred = TRUE]) /\ Same(j, j)
             /\ [j EXCEPT !.blurred = TRUE].crossed = j.crossed
  BY DEF Jobs, Same
<1> QED
  BY <1>1 DEF Blur

LEMMA CrossSame ==
    ASSUME StoreTypes, NEW js \in [Procs -> Jobs], NEW p \in Procs, NEW q \in Procs
    PROVE  /\ Same(js[q], Cross(js, p)[q]) /\ Cross(js, p)[q].blurred = js[q].blurred
           /\ p = "main" /\ q \in Handlers /\ js[q].src = "master" => Cross(js, p)[q].crossed
           /\ p # "main" => Cross(js, p)[q] = js[q]
<1>1. ASSUME NEW j \in Jobs
      PROVE  /\ Same(j, [j EXCEPT !.crossed = TRUE]) /\ Same(j, j)
             /\ [j EXCEPT !.crossed = TRUE].blurred = j.blurred
             /\ [j EXCEPT !.crossed = TRUE].crossed
  BY DEF Jobs, Same
<1> QED
  BY <1>1 DEF Cross

LEMMA EndedOwn ==
    ASSUME NEW js \in [Procs -> Jobs], NEW p \in Procs, NEW ok \in BOOLEAN
    PROVE  /\ \A q \in Procs \ {p} : Ended(js, p, ok)[q] = js[q]
           /\ Ended(js, p, ok)[p].at \in {"idle", "before", "ok"}
           /\ p \in Handlers /\ ok => Ended(js, p, ok)[p] = [js[p] EXCEPT !.at = "ok"]
           /\ p \in Handlers /\ ~ok => Ended(js, p, ok)[p] = Idle
<1>1. \A j \in Jobs : [j EXCEPT !.at = "ok"].at = "ok"
  BY DEF Jobs
<1>2. Idle.at = "idle" /\ [Idle EXCEPT !.at = "before", !.dst = "caves"].at = "before"
  BY DEF Idle
<1>3. p \in Handlers => p # "main"
  BY FileStoreAssumption
<1> QED
  BY <1>1, <1>2, <1>3 DEF Ended

\* A write to the source is seen by every reader of it, as a later time of
\* modification or as a blur.
LEMMA WriteOthers ==
    ASSUME StoreTypes, NEW d, WriteSource(d), NEW q \in Procs
    PROVE  /\ Same(job[q], job'[q]) /\ job'[q].crossed = job[q].crossed
           /\ \A s \in Shards : file'[s] = file[s]
           /\ Between(q, "source") =>
                  job'[q].blurred \/ file'["source"].mtime # job[q].stat.mtime
<1>1. job' = Blur(job, "source", clock)
  BY DEF WriteSource
<1>2. file' = [file EXCEPT !["source"] = [@ EXCEPT !.data = d, !.mtime = clock, !.safe = FALSE]]
  BY DEF WriteSource
<1>3. "source" \in Paths /\ Shards \subseteq Paths /\ "source" \notin Shards
  BY DEF Paths, Shards
<1>4. file'["source"].mtime = clock
  BY <1>2, <1>3 DEF StoreTypes, Files
<1>5. Between(q, "source") /\ job[q].stat.mtime = clock => job'[q].blurred
  BY <1>1 DEF Blur, StoreTypes, Jobs
<1> QED
  BY <1>1, <1>2, <1>3, <1>4, <1>5, BlurSame DEF StoreTypes

\* A file replaced is seen by every reader of it in the same way.
LEMMA ReplaceOthers ==
    ASSUME StoreTypes, NEW p \in Procs, NEW x \in Shards, Replace(p, x), NEW q \in Procs
    PROVE  /\ \A y \in Paths \ {x} : file'[y] = file[y]
           /\ file'[x].data = job[p].data /\ file'[x].safe = job[p].safe
           /\ file'[x].excuse = job[p].excuse
           /\ x = "master" /\ Between(q, x) =>
                  \/ Blur(job, x, job[p].stamp)[q].blurred
                  \/ file'[x].mtime # job[q].stat.mtime
<1>1. x \in Paths /\ (x = "master" => x # "caves")
  BY DEF Paths
<1>2. file' = [file EXCEPT ![x] = [data |-> job[p].data,
                                   mtime |-> IF x = "caves" THEN 0 ELSE job[p].stamp,
                                   safe |-> job[p].safe, excuse |-> job[p].excuse]]
  BY DEF Replace
<1>3. x = "master" => file'[x].mtime = job[p].stamp
  BY <1>1, <1>2 DEF StoreTypes
<1>4. Between(q, x) /\ job[q].stat.mtime = job[p].stamp => Blur(job, x, job[p].stamp)[q].blurred
  BY DEF Blur, StoreTypes, Jobs
<1> QED
  BY <1>1, <1>2, <1>3, <1>4 DEF StoreTypes

-----------------------------------------------------------------------------
(* The invariant                                                           *)

\* While the time of modification is that of the first stat and nobody wrote
\* in that very tick, what has been read is how the file begins, and in the end
\* what it holds, but for the reader of the version.
Fresh(q) ==
    /\ job[q].at \in {"read", "after"}
    /\ file[job[q].src].mtime = job[q].stat.mtime
    /\ ~job[q].blurred
    => IF job[q].dst = "number" \/ (job[q].at = "read" /\ job[q].src = "source")
       THEN Begins(job[q].data, file[job[q].src].data)
       ELSE job[q].data = file[job[q].src].data

\* A copy about to replace a file is whole and flushed, or has an excuse.
Sound(j) ==
    j.at = "swap" => /\ j.dst \in Shards
                     /\ Whole(j.data) \/ j.excuse
                     /\ j.safe \/ j.excuse

\* So are the files: they lose nothing in a power cut that has no excuse.
FilesSound == \A s \in Shards : /\ Whole(file[s].data) \/ file[s].excuse
                                /\ file[s].safe \/ file[s].excuse

Busy(h) == job[h].at # "idle"

\* Whoever has passed the gate has it to himself.
GateHeld == \A h \in Handlers : Busy(h) => gate /\ \A k \in Handlers : Busy(k) => k = h

\* A handler that streams, and one that clones what it has streamed.
Streaming(h) ==
    /\ job[h].at \in {"stream", "sync", "rename"} => job[h].ver \in Versions
    /\ job[h].at \in {"sync", "rename"} => job[h].data = Content(job[h].ver)
    /\ job[h].at = "rename" => job[h].safe

Cloning(h) ==
    job[h].at \in {"before", "open", "read", "after", "swap", "have", "ok"} =>
        /\ job[h].src = "master" /\ job[h].dst = "caves"
        /\ ~job[h].crossed =>
               /\ file["master"].data = Content(job[h].ver)
               /\ job[h].at \in {"read", "after", "swap"} => job[h].data = Content(job[h].ver)
               /\ job[h].at = "ok" => file["caves"].data = Content(job[h].ver)

StoreInv ==
    /\ StoreTypes
    /\ \A q \in Procs : Fresh(q) /\ Sound(job[q])
    /\ FilesSound
    /\ GateHeld
    /\ \A h \in Handlers : Streaming(h) /\ Cloning(h)

LEMMA StoreInit == Init => StoreInv
<1> SUFFICES ASSUME Init PROVE StoreInv
  OBVIOUS
<1>1. \A q \in Procs : job[q].at = "idle"
  BY DEF Init, Idle
<1>2. FilesSound
  BY DEF Init, FilesSound, Whole, Paths, Shards
<1>3. Handlers \subseteq Procs
  BY DEF Procs
<1> QED
  BY <1>1, <1>2, <1>3, StoreTypesInit DEF StoreInv, Fresh, Sound, GateHeld, Busy, Streaming, Cloning

\* An idle job owes nothing.
LEMMA IdleOwes ==
    ASSUME NEW q \in Procs, job'[q].at = "idle"
    PROVE  /\ Fresh(q)' /\ Sound(job'[q])
           /\ Streaming(q)' /\ Cloning(q)'
BY DEF Fresh, Sound, Streaming, Cloning

\* Whoever is left alone owes what he owed, as long as a change of the file he
\* reads shows in its time of modification or in a blur.
LEMMA SameOwes ==
    ASSUME NEW q \in Procs, Fresh(q), Sound(job[q]), Same(job[q], job'[q]),
           file'[job[q].src] = file[job[q].src]
             \/ (Between(q, job[q].src) =>
                   job'[q].blurred \/ file'[job[q].src].mtime # job[q].stat.mtime)
    PROVE  Fresh(q)' /\ Sound(job'[q])
<1>1. Sound(job'[q])
  BY DEF Sound, Same
<1>2. Fresh(q)'
  <2>1. CASE file'[job[q].src] = file[job[q].src]
    BY <2>1 DEF Fresh, Same
  <2>2. CASE Between(q, job[q].src) =>
               job'[q].blurred \/ file'[job[q].src].mtime # job[q].stat.mtime
    BY <2>2 DEF Fresh, Same, Between
  <2> QED
    BY <2>1, <2>2
<1> QED
  BY <1>1, <1>2

\* The same for what a handler owes.
LEMMA SameClones ==
    ASSUME NEW h \in Handlers, Streaming(h), Cloning(h), Same(job[h], job'[h]),
           \/ \A s \in Shards : file'[s] = file[s]
           \/ job[h].src = "master" => job'[h].crossed
    PROVE  Streaming(h)' /\ Cloning(h)'
BY DEF Streaming, Cloning, Same, Shards

-----------------------------------------------------------------------------
(* The world outside                                                       *)

LEMMA WriteInv ==
    ASSUME StoreInv, NEW d \in Datas, WriteSource(d), gate' = gate, StoreTypes'
    PROVE  StoreInv'
<1> USE DEF StoreInv
<1>1. ASSUME NEW q \in Procs PROVE Fresh(q)' /\ Sound(job'[q]) /\ Same(job[q], job'[q])
  <2>1. job[q].src \in {"source", "master"} /\ "master" \in Shards
    BY DEF StoreTypes, Jobs, Shards
  <2> QED
    BY <2>1, WriteOthers, SameOwes
<1>2. FilesSound'
  BY WriteOthers, "main" \in Procs DEF FilesSound, Procs
<1>3. ASSUME NEW h \in Handlers PROVE Streaming(h)' /\ Cloning(h)' /\ (Busy(h)' <=> Busy(h))
  <2>1. h \in Procs
    BY DEF Procs
  <2> QED
    BY <2>1, WriteOthers, SameClones DEF Same, Busy
<1> QED
  BY <1>1, <1>2, <1>3 DEF GateHeld

LEMMA OutsideInv == ASSUME StoreInv, StoreTypes', Outside PROVE StoreInv'
<1>1. CASE Tick
  BY <1>1 DEF Tick, StoreInv, Fresh, FilesSound, GateHeld, Busy, Streaming, Cloning
<1>2. CASE EditBegin
  <2>1. <<>> \in Datas
    BY DEF Datas
  <2> QED
    BY <1>2, <2>1, WriteInv DEF EditBegin
<1>3. CASE EditChunk
  <2>1. Append(file["source"].data, edit) \in Datas
    BY <1>3 DEF EditChunk, StoreInv, StoreTypes, Files, Datas, Paths
  <2> QED
    BY <1>3, <2>1, WriteInv DEF EditChunk
<1>4. CASE PowerCut
  <2>1. \A q \in Procs : job'[q].at = "idle"
    BY <1>4 DEF PowerCut, Idle
  <2>2. FilesSound'
    <3>1. ASSUME NEW s \in Shards
          PROVE  /\ file[s].safe => file'[s] = file[s]
                 /\ file'[s].excuse = file[s].excuse
      <4>1. s \in Paths /\ file[s] \in Files
        BY DEF Paths, StoreInv, StoreTypes
      <4>2. PICK keep \in 0 .. Chunks - 1 :
               file' = [x \in Paths |->
                          IF file[x].safe THEN file[x]
                          ELSE [file[x] EXCEPT !.safe = TRUE,
                                  !.data = IF Len(@) > keep THEN SubSeq(@, 1, keep) ELSE @]]
        BY <1>4 DEF PowerCut
      <4>3. file'[s] = IF file[s].safe THEN file[s]
                       ELSE [file[s] EXCEPT !.safe = TRUE,
                               !.data = IF Len(@) > keep THEN SubSeq(@, 1, keep) ELSE @]
        BY <4>1, <4>2
      <4> QED
        BY <4>1, <4>3 DEF Files
    <3> QED
      BY <3>1 DEF FilesSound, StoreInv
  <2>3. Handlers \subseteq Procs
    BY DEF Procs
  <2> QED
    BY <2>1, <2>2, <2>3, IdleOwes DEF StoreInv, GateHeld, Busy
<1> QED
  BY <1>1, <1>2, <1>3, <1>4 DEF Outside

-----------------------------------------------------------------------------
(* The steps of processes                                                  *)

\* A step that changes the job of one process and no file: a handler that takes
\* it has passed the gate, or finds it open.
LEMMA Alone ==
    ASSUME StoreInv, StoreTypes', NEW p \in Procs, UNCHANGED file,
           \A q \in Procs \ {p} : job'[q] = job[q],
           Fresh(p)', Sound(job'[p]),
           p \in Handlers => /\ Streaming(p)' /\ Cloning(p)'
                             /\ Busy(p) \/ ~gate
                             /\ Busy(p)' => gate',
           p \notin Handlers => gate' = gate
    PROVE  StoreInv'
<1> USE DEF StoreInv
<1>0. Handlers \subseteq Procs
  BY DEF Procs
<1>1. \A q \in Procs : Fresh(q)' /\ Sound(job'[q])
  BY DEF Fresh
<1>2. FilesSound'
  BY DEF FilesSound
<1>3. \A h \in Handlers : Streaming(h)' /\ Cloning(h)'
  BY <1>0 DEF Streaming, Cloning
<1>4. GateHeld'
  <2>1. CASE p \in Handlers
    <3>1. \A k \in Handlers \ {p} : ~Busy(k)
      BY <2>1 DEF GateHeld
    <3>2. \A k \in Handlers \ {p} : ~Busy(k)'
      BY <1>0, <3>1 DEF Busy
    <3> QED
      BY <2>1, <3>2 DEF GateHeld
  <2>2. CASE p \notin Handlers
    <3>1. \A k \in Handlers : Busy(k)' = Busy(k)
      BY <1>0, <2>2 DEF Busy
    <3> QED
      BY <2>2, <3>1 DEF GateHeld
  <2> QED
    BY <2>1, <2>2
<1> QED
  BY <1>1, <1>2, <1>3, <1>4

\* A failure ends a job, but for the first copy of a boot, which the second
\* follows.
LEMMA FailureAlone ==
    ASSUME StoreInv, StoreTypes', NEW p \in Procs, UNCHANGED file, Busy(p),
           job' = Ended(job, p, FALSE), GateAfter(p, FALSE)
    PROVE  StoreInv'
<1>1. job \in [Procs -> Jobs] /\ FALSE \in BOOLEAN
  BY DEF StoreInv, StoreTypes
<1>0. /\ \A q \in Procs \ {p} : Ended(job, p, FALSE)[q] = job[q]
      /\ Ended(job, p, FALSE)[p].at \in {"idle", "before", "ok"}
      /\ p \in Handlers => Ended(job, p, FALSE)[p] = Idle
  BY <1>1, EndedOwn, p \in Procs
<1>2. \A q \in Procs \ {p} : job'[q] = job[q]
  BY <1>0
<1>3. job'[p].at \in {"idle", "before", "ok"} /\ (p \in Handlers => job'[p] = Idle)
  BY <1>0
<1>4. Fresh(p)' /\ Sound(job'[p])
  BY <1>3 DEF Fresh, Sound
<1>5. p \in Handlers => /\ Streaming(p)' /\ Cloning(p)' /\ ~Busy(p)'
  <2>1. Idle.at = "idle"
    BY DEF Idle
  <2> QED
    BY <1>3, <2>1, IdleOwes DEF Busy
<1>6. p \notin Handlers => gate' = gate
  BY DEF GateAfter, Procs, StoreInv, StoreTypes
<1> QED
  BY <1>2, <1>4, <1>5, <1>6, Alone

\* The jobs when a process changes its own.
LEMMA OwnChange ==
    ASSUME StoreInv, NEW p \in Procs, NEW j, job' = [job EXCEPT ![p] = j]
    PROVE  job'[p] = j /\ \A q \in Procs \ {p} : job'[q] = job[q]
BY DEF StoreInv, StoreTypes

LEMMA BeforeInv ==
    ASSUME StoreInv, StoreTypes', NEW p \in Procs, Before(p) PROVE StoreInv'
<1>0. job[p] \in Jobs
  BY DEF StoreInv, StoreTypes
<1>1. PICK j : /\ job' = [job EXCEPT ![p] = j]
               /\ j = [job[p] EXCEPT !.at = "open", !.stat = Stat(job[p].src), !.data = <<>>,
                                     !.safe = FALSE, !.blurred = FALSE, !.excuse = FALSE]
  BY DEF Before
<1>2. job'[p] = j /\ \A q \in Procs \ {p} : job'[q] = job[q]
  BY <1>1, OwnChange
<1>3. /\ j.at = "open" /\ j.src = job[p].src /\ j.dst = job[p].dst /\ j.ver = job[p].ver
      /\ j.crossed = job[p].crossed
  BY <1>0, <1>1 DEF Jobs
<1>4. UNCHANGED <<file, gate>> /\ job[p].at = "before"
  BY DEF Before
<1>5. Fresh(p)' /\ Sound(job'[p])
  BY <1>2, <1>3 DEF Fresh, Sound
<1>6. p \in Handlers => Streaming(p)' /\ Cloning(p)' /\ Busy(p) /\ gate
  BY <1>2, <1>3, <1>4 DEF Streaming, Cloning, StoreInv, Busy, GateHeld
<1> QED
  BY <1>2, <1>4, <1>5, <1>6, Alone

LEMMA OpenInv ==
    ASSUME StoreInv, StoreTypes', NEW p \in Procs, Open(p) PROVE StoreInv'
<1>0. job[p] \in Jobs
  BY DEF StoreInv, StoreTypes
<1>1. PICK j : /\ job' = [job EXCEPT ![p] = j]
               /\ j = [job[p] EXCEPT !.at = "read",
                          !.data = IF job[p].src = "source" THEN <<>> ELSE file[job[p].src].data]
  BY DEF Open
<1>2. job'[p] = j /\ \A q \in Procs \ {p} : job'[q] = job[q]
  BY <1>1, OwnChange
<1>3. /\ j.at = "read" /\ j.src = job[p].src /\ j.dst = job[p].dst /\ j.ver = job[p].ver
      /\ j.crossed = job[p].crossed
      /\ j.data = IF job[p].src = "source" THEN <<>> ELSE file[job[p].src].data
  BY <1>0, <1>1 DEF Jobs
<1>4. UNCHANGED <<file, gate>> /\ job[p].at = "open"
  BY DEF Open
<1>5. Fresh(p)' /\ Sound(job'[p])
  <2>1. /\ file["source"].data \in Seq(Words) /\ file[job[p].src].data \in Seq(Words)
        /\ job[p].src \in {"source", "master"}
    BY <1>0 DEF StoreInv, StoreTypes, Files, Datas, Paths, Shards, Jobs
  <2>2. /\ Begins(<<>>, file["source"].data)
        /\ Begins(file[job[p].src].data, file[job[p].src].data)
    BY <2>1 DEF Begins
  <2> QED
    BY <1>2, <1>3, <1>4, <2>2 DEF Fresh, Sound
<1>6. p \in Handlers => Streaming(p)' /\ Cloning(p)' /\ Busy(p) /\ gate
  BY <1>2, <1>3, <1>4 DEF Streaming, Cloning, StoreInv, Busy, GateHeld
<1> QED
  BY <1>2, <1>4, <1>5, <1>6, Alone

\* Nothing is left to read exactly when as much has been read as there is.
LEMMA RestEmpty ==
    ASSUME NEW e \in Seq(Words), NEW n \in Nat
    PROVE  SubSeq(e, n + 1, Len(e)) = <<>> <=> Len(e) <= n
<1>1. ASSUME Len(e) <= n PROVE SubSeq(e, n + 1, Len(e)) = <<>>
  <2>1. n + 1 \in Int /\ Len(e) \in Int /\ Len(e) < n + 1
    BY <1>1
  <2> QED
    BY <2>1, SubSeqEmpty
<1>2. ASSUME Len(e) > n PROVE SubSeq(e, n + 1, Len(e)) # <<>>
  <2>1. Len(SubSeq(e, n + 1, Len(e))) = Len(e) - n /\ Len(e) - n # 0
    BY <1>2
  <2>2. Len(<< >>) = 0
    OBVIOUS
  <2>3. Len(SubSeq(e, n + 1, Len(e))) # 0
    BY <2>1
  <2> QED
    BY <2>2, <2>3, Zenon
<1>3. Len(e) <= n \/ Len(e) > n
  OBVIOUS
<1> QED
  BY <1>1, <1>2, <1>3

LEMMA ReadChunkInv ==
    ASSUME StoreInv, StoreTypes', NEW p \in Procs, ReadChunk(p) PROVE StoreInv'
<1> DEFINE d == job[p].data
           e == file["source"].data
<1>0. job[p] \in Jobs /\ d \in Seq(Words) /\ e \in Seq(Words)
  BY DEF StoreInv, StoreTypes, Jobs, Files, Datas, Paths
<1>1. PICK j : job' = [job EXCEPT ![p] = j] /\ j = [job[p] EXCEPT !.data = Append(@, Head(Rest(p)))]
  BY DEF ReadChunk
<1>2. job'[p] = j /\ \A q \in Procs \ {p} : job'[q] = job[q]
  BY <1>1, OwnChange
<1>3. /\ j.at = "read" /\ j.src = "source" /\ j.data = Append(d, Head(Rest(p)))
      /\ j.stat = job[p].stat /\ j.blurred = job[p].blurred
      /\ job[p].src = "source" /\ job[p].at = "read"
      /\ Rest(p) = SubSeq(e, Len(d) + 1, Len(e)) /\ Rest(p) # <<>>
  BY <1>0, <1>1 DEF Jobs, ReadChunk, Rest
<1>4. UNCHANGED <<file, gate>>
  BY DEF ReadChunk
<1>5. p \notin Handlers
  BY <1>3 DEF StoreInv, Cloning
<1>6. Begins(d, e) => Begins(j.data, e)
  <2> SUFFICES ASSUME Begins(d, e) PROVE Begins(j.data, e)
    OBVIOUS
  <2>1. Len(d) + 1 <= Len(e)
    <3>1. Len(d) \in Nat /\ Len(e) \in Nat
      BY <1>0
    <3>2. SubSeq(e, Len(d) + 1, Len(e)) = <<>> <=> Len(e) <= Len(d)
      BY <1>0, <3>1, RestEmpty
    <3>3. ~(Len(e) <= Len(d))
      BY <1>3, <3>2
    <3> QED
      BY <3>1, <3>3
  <2>2. Head(Rest(p)) = e[Len(d) + 1]
    BY <1>0, <1>3, <2>1, HeadTailOfSubSeq
  <2> QED
    BY <1>0, <1>3, <2>1, <2>2 DEF Begins
<1>7. Fresh(p)' /\ Sound(job'[p])
  BY <1>2, <1>3, <1>4, <1>6 DEF StoreInv, Fresh, Sound
<1> QED
  BY <1>2, <1>4, <1>5, <1>7, Alone

LEMMA ReadEndInv ==
    ASSUME StoreInv, StoreTypes', NEW p \in Procs, ReadEnd(p) PROVE StoreInv'
<1> DEFINE d == job[p].data
           e == file["source"].data
<1>0. job[p] \in Jobs /\ d \in Seq(Words) /\ e \in Seq(Words)
  BY DEF StoreInv, StoreTypes, Jobs, Files, Datas, Paths
<1>8. job[p].src \in {"source", "master"} /\ file[job[p].src].data \in Seq(Words)
  BY <1>0 DEF StoreInv, StoreTypes, Jobs, Files, Datas, Paths, Shards
<1>1. PICK ok \in BOOLEAN :
          job' = [job EXCEPT ![p] = [@ EXCEPT !.at = "after", !.stamp = clock, !.safe = ok]]
  BY DEF ReadEnd
<1>2. /\ job'[p] = [job[p] EXCEPT !.at = "after", !.stamp = clock, !.safe = ok]
      /\ \A q \in Procs \ {p} : job'[q] = job[q]
  BY <1>1, OwnChange
<1>3. /\ job'[p].at = "after" /\ job'[p].src = job[p].src /\ job'[p].dst = job[p].dst
      /\ job'[p].data = d /\ job'[p].ver = job[p].ver /\ job'[p].crossed = job[p].crossed
      /\ job'[p].stat = job[p].stat /\ job'[p].blurred = job[p].blurred
  BY <1>0, <1>2 DEF Jobs
<1>4. /\ UNCHANGED <<file, gate>> /\ job[p].at = "read"
      /\ job[p].dst # "number" => Rest(p) = <<>>
  BY DEF ReadEnd
<1>5. job[p].src = "source" /\ job[p].dst # "number" /\ Begins(d, e) => d = e
  <2> SUFFICES ASSUME job[p].src = "source", job[p].dst # "number", Begins(d, e) PROVE d = e
    OBVIOUS
  <2>1. SubSeq(e, Len(d) + 1, Len(e)) = <<>>
    BY <1>4 DEF Rest
  <2>2. Len(d) = Len(e)
    <3>1. Len(d) \in Nat /\ Len(e) \in Nat
      BY <1>0
    <3>2. SubSeq(e, Len(d) + 1, Len(e)) = <<>> <=> Len(e) <= Len(d)
      BY <1>0, <3>1, RestEmpty
    <3>3. Len(d) <= Len(e)
      BY DEF Begins
    <3>4. Len(e) <= Len(d)
      BY <2>1, <3>2
    <3> QED
      BY <3>1, <3>3, <3>4
  <2> QED
    BY <1>0, <2>2 DEF Begins
<1>6. Fresh(p)' /\ Sound(job'[p])
  <2>1. d = file[job[p].src].data => Begins(d, file[job[p].src].data)
    BY <1>8 DEF Begins
  <2> QED
    BY <1>3, <1>4, <1>5, <1>8, <2>1 DEF StoreInv, Fresh, Sound
<1>7. p \in Handlers => Streaming(p)' /\ Cloning(p)' /\ Busy(p) /\ gate
  BY <1>3, <1>4 DEF Streaming, Cloning, StoreInv, Busy, GateHeld
<1> QED
  BY <1>2, <1>4, <1>6, <1>7, Alone

\* What a second look accepts is whole and flushed, or has an excuse.
LEMMA AfterInv ==
    ASSUME StoreInv, StoreTypes', NEW p \in Procs, After(p) PROVE StoreInv'
<1>0. job[p] \in Jobs /\ UNCHANGED file /\ job[p].at = "after"
  BY DEF StoreInv, StoreTypes, After
<1>1. CASE Accept(p) /\ gate' = gate /\ Stat(job[p].src) = job[p].stat
  <2> DEFINE place == IF job[p].dst \in Memory THEN "have" ELSE "swap"
  <2>0. PICK x, j : /\ job' = [job EXCEPT ![p] = j] /\ x = Excuse(p)
                    /\ j = [job[p] EXCEPT !.at = place, !.stat = Idle.stat, !.excuse = x]
    BY <1>1 DEF Accept
  <2>1. job'[p] = j /\ \A q \in Procs \ {p} : job'[q] = job[q]
    BY <2>0, OwnChange
  <2> HIDE DEF Excuse
  <2>2. /\ job'[p].at = place /\ job'[p].src = job[p].src /\ job'[p].dst = job[p].dst
        /\ job'[p].data = job[p].data /\ job'[p].ver = job[p].ver
        /\ job'[p].crossed = job[p].crossed /\ job'[p].safe = job[p].safe
        /\ job'[p].excuse = x
    <3>1. j = [job[p] EXCEPT !.at = place, !.stat = Idle.stat, !.excuse = x]
      BY <2>0
    <3> QED
      BY <1>0, <2>1, <3>1 DEF Jobs
  <2>3. Fresh(p)'
    BY <2>2 DEF Fresh
  <2>4. Sound(job'[p])
    <3>1. job[p].dst # "number" => job[p].blurred \/ job[p].data = file[job[p].src].data
      <4>1. file[job[p].src].mtime = job[p].stat.mtime
        BY <1>1 DEF Stat
      <4> QED
        BY <1>0, <4>1 DEF StoreInv, Fresh
    <3>2. (job[p].dst # "number" => Whole(job[p].data) \/ x) /\ (job[p].safe \/ x)
      <4>1. /\ job[p].dst # "number" => Whole(job[p].data) \/ Excuse(p)
            /\ job[p].safe \/ Excuse(p)
        BY <3>1 DEF Excuse
      <4> QED
        BY <2>0, <4>1, Zenon
    <3>3. job'[p].at = "swap" => job[p].dst \in Shards /\ job[p].dst # "number"
      BY <1>0, <2>2 DEF Jobs, Memory
    <3> QED
      BY <2>2, <3>2, <3>3 DEF Sound
  <2>5. p \in Handlers => Streaming(p)' /\ Cloning(p)' /\ Busy(p) /\ gate
    BY <1>0, <2>2 DEF Streaming, Cloning, StoreInv, Busy, GateHeld
  <2> QED
    BY <1>0, <1>1, <2>1, <2>3, <2>4, <2>5, Alone
<1>2. CASE /\ job' = [job EXCEPT ![p] = [@ EXCEPT !.at = "before", !.try = job[p].try + 1]]
           /\ gate' = gate
  <2>1. /\ job'[p] = [job[p] EXCEPT !.at = "before", !.try = job[p].try + 1]
        /\ \A q \in Procs \ {p} : job'[q] = job[q]
    BY <1>2, OwnChange
  <2>2. /\ job'[p].at = "before" /\ job'[p].src = job[p].src /\ job'[p].dst = job[p].dst
        /\ job'[p].ver = job[p].ver /\ job'[p].crossed = job[p].crossed
    BY <1>0, <2>1 DEF Jobs
  <2>3. Fresh(p)' /\ Sound(job'[p])
    BY <2>2 DEF Fresh, Sound
  <2>4. p \in Handlers => Streaming(p)' /\ Cloning(p)' /\ Busy(p) /\ gate
    BY <1>0, <2>2 DEF Streaming, Cloning, StoreInv, Busy, GateHeld
  <2> QED
    BY <1>0, <1>2, <2>1, <2>3, <2>4, Alone
<1>3. CASE job' = Ended(job, p, FALSE) /\ GateAfter(p, FALSE)
  <2>1. Busy(p)
    BY <1>0 DEF Busy
  <2> QED
    BY <1>0, <1>3, <2>1, FailureAlone
<1> QED
  BY <1>1, <1>2, <1>3 DEF After

LEMMA FailInv ==
    ASSUME StoreInv, StoreTypes', NEW p \in Procs, Fail(p) PROVE StoreInv'
<1>1. Busy(p) /\ UNCHANGED file /\ job' = Ended(job, p, FALSE) /\ GateAfter(p, FALSE)
  BY DEF Fail, Busy
<1> QED
  BY <1>1, FailureAlone

\* The copy that replaces a file is sound; a handler that clones sees that of
\* the main loop as a crossing.
LEMMA SwapInv ==
    ASSUME StoreInv, StoreTypes', NEW p \in Procs, Swap(p) PROVE StoreInv'
<1> DEFINE x == job[p].dst
           blurs == Blur(job, x, job[p].stamp)
           jobs == Cross(blurs, p)
<1>0. /\ job \in [Procs -> Jobs] /\ StoreTypes /\ job[p] \in Jobs /\ job[p].at = "swap"
      /\ Replace(p, x) /\ gate' = gate /\ x \in Shards /\ job' = Ended(jobs, p, TRUE)
  BY DEF StoreInv, StoreTypes, Swap, Sound
<1>1. blurs \in [Procs -> Jobs] /\ jobs \in [Procs -> Jobs]
  BY <1>0, BlurType, CrossType
<1>2. \A q \in Procs : /\ Same(job[q], jobs[q])
                       /\ jobs[q].blurred = blurs[q].blurred
                       /\ p = "main" /\ q \in Handlers /\ job[q].src = "master" => jobs[q].crossed
                       /\ p # "main" => jobs[q].crossed = job[q].crossed
  <2> TAKE q \in Procs
  <2>1. Same(job[q], blurs[q]) /\ blurs[q].crossed = job[q].crossed
    BY <1>0, BlurSame
  <2>2. /\ Same(blurs[q], jobs[q]) /\ jobs[q].blurred = blurs[q].blurred
        /\ p = "main" /\ q \in Handlers /\ blurs[q].src = "master" => jobs[q].crossed
        /\ p # "main" => jobs[q] = blurs[q]
    BY <1>0, <1>1, CrossSame
  <2> QED
    BY <2>1, <2>2 DEF Same
<1>3. /\ \A q \in Procs \ {p} : job'[q] = jobs[q]
      /\ job'[p].at \in {"idle", "before", "ok"}
      /\ p \in Handlers => job'[p] = [jobs[p] EXCEPT !.at = "ok"]
  BY <1>0, <1>1, EndedOwn
<1>4. ASSUME NEW q \in Procs PROVE Fresh(q)' /\ Sound(job'[q])
  <2>1. CASE q = p
    BY <1>3, <2>1 DEF Fresh, Sound
  <2>2. CASE q # p
    <3>1. Same(job[q], job'[q]) /\ job'[q].blurred = blurs[q].blurred
      BY <1>2, <1>3, <2>2
    <3>2. job[q].src \in {"source", "master"} /\ {"source", "master"} \subseteq Paths
      BY <1>0 DEF Jobs, Paths, Shards
    <3>3. \/ file'[job[q].src] = file[job[q].src]
          \/ Between(q, job[q].src) =>
                job'[q].blurred \/ file'[job[q].src].mtime # job[q].stat.mtime
      <4>1. CASE job[q].src # x
        BY <1>0, <3>2, <4>1, ReplaceOthers
      <4>2. CASE job[q].src = x
        <5>1. x = "master"
          BY <1>0, <3>2, <4>2 DEF Shards
        <5>2. Between(q, x) => blurs[q].blurred \/ file'[x].mtime # job[q].stat.mtime
          BY <1>0, <5>1, ReplaceOthers
        <5> QED
          BY <3>1, <4>2, <5>2
      <4> QED
        BY <4>1, <4>2
    <3> QED
      BY <3>1, <3>3, SameOwes DEF StoreInv
  <2> QED
    BY <2>1, <2>2
<1>5. FilesSound'
  <2>1. ASSUME NEW s \in Shards
        PROVE  (Whole(file'[s].data) \/ file'[s].excuse) /\ (file'[s].safe \/ file'[s].excuse)
    <3>1. CASE s = x
      BY <1>0, <3>1, ReplaceOthers DEF StoreInv, Sound
    <3>2. CASE s # x
      <4>1. file'[s] = file[s]
        BY <1>0, <3>2, ReplaceOthers DEF Paths
      <4> QED
        BY <4>1 DEF StoreInv, FilesSound
    <3> QED
      BY <3>1, <3>2
  <2> QED
    BY <2>1 DEF FilesSound
<1>6. CASE p = "main"
  <2>1. ASSUME NEW h \in Handlers
        PROVE  Streaming(h)' /\ Cloning(h)' /\ (Busy(h)' <=> Busy(h))
    <3>1. h \in Procs \ {p}
      BY <1>6, FileStoreAssumption DEF Procs
    <3>2. Same(job[h], job'[h]) /\ (job[h].src = "master" => job'[h].crossed)
      BY <1>2, <1>3, <1>6, <3>1
    <3>3. Streaming(h) /\ Cloning(h)
      BY DEF StoreInv
    <3> QED
      BY <3>2, <3>3, SameClones DEF Same, Busy
  <2> QED
    BY <1>0, <1>4, <1>5, <2>1 DEF StoreInv, GateHeld
<1>7. CASE p # "main"
  <2>0. p \in Handlers /\ Handlers \subseteq Procs
    BY <1>7 DEF Procs
  <2>1. gate /\ \A k \in Handlers \ {p} : ~Busy(k)
    BY <1>0, <2>0 DEF StoreInv, GateHeld, Busy
  <2>2. ASSUME NEW k \in Handlers \ {p} PROVE job'[k].at = "idle"
    BY <1>2, <1>3, <2>0, <2>1, <2>2 DEF Same, Busy
  <2>3. /\ job'[p].at = "ok" /\ job'[p].src = job[p].src /\ job'[p].dst = job[p].dst
        /\ job'[p].ver = job[p].ver /\ job'[p].crossed = job[p].crossed
    <3>1. /\ jobs[p].src = job[p].src /\ jobs[p].dst = job[p].dst /\ jobs[p].ver = job[p].ver
          /\ jobs[p].crossed = job[p].crossed
      BY <1>2, <1>7 DEF Same
    <3>2. jobs[p] \in Jobs
      BY <1>1
    <3> QED
      BY <1>3, <2>0, <3>1, <3>2 DEF Jobs
  <2>4. Streaming(p)' /\ Cloning(p)'
    <3>1. Cloning(p)
      BY <2>0 DEF StoreInv
    <3>2. job[p].src = "master" /\ x = "caves"
      BY <1>0, <3>1 DEF Cloning
    <3>3. file'["master"] = file["master"] /\ file'["caves"].data = job[p].data
      BY <1>0, <3>2, ReplaceOthers DEF Paths, Shards
    <3> QED
      BY <1>0, <2>3, <3>1, <3>2, <3>3 DEF Streaming, Cloning
  <2>5. GateHeld'
    BY <1>0, <2>1, <2>2 DEF GateHeld, Busy
  <2>6. \A h \in Handlers : Streaming(h)' /\ Cloning(h)'
    BY <2>0, <2>2, <2>4, IdleOwes
  <2> QED
    BY <1>4, <1>5, <2>5, <2>6 DEF StoreInv
<1> QED
  BY <1>6, <1>7

LEMMA ReadingInv == ASSUME StoreInv, StoreTypes', NEW p \in Procs, Reading(p) PROVE StoreInv'
BY BeforeInv, OpenInv, ReadChunkInv, ReadEndInv, AfterInv, SwapInv, FailInv DEF Reading

LEMMA MainInv == ASSUME StoreInv, StoreTypes', Main PROVE StoreInv'
<1>1. "main" \in Procs /\ "main" \notin Handlers
  BY FileStoreAssumption DEF Procs
<1>2. PICK j : /\ job' = [job EXCEPT !["main"] = j] /\ j.at \in {"idle", "before"}
               /\ UNCHANGED <<file, gate>>
  <2>1. /\ Idle.at = "idle"
        /\ \A d \in Memory : [Idle EXCEPT !.at = "before", !.dst = d].at = "before"
        /\ [Idle EXCEPT !.at = "before", !.dst = "master"].at = "before"
    BY DEF Idle
  <2> QED
    BY <2>1 DEF Main, BootCopies, Snapshot, Used
<1>3. job'["main"] = j /\ \A q \in Procs \ {"main"} : job'[q] = job[q]
  BY <1>1, <1>2, OwnChange
<1>4. Fresh("main")' /\ Sound(job'["main"])
  BY <1>2, <1>3 DEF Fresh, Sound
<1> QED
  BY <1>1, <1>2, <1>3, <1>4, Alone

\* The rename of a handler begins its clone: the master's file is the body.
LEMMA RenameInv == ASSUME StoreInv, StoreTypes', NEW h \in Handlers, Rename(h) PROVE StoreInv'
<1> DEFINE blurs == Blur(job, "master", job[h].stamp)
           j == [Idle EXCEPT !.at = "before", !.src = "master", !.dst = "caves", !.ver = job[h].ver]
<1>0. /\ h \in Procs /\ Handlers \subseteq Procs /\ StoreTypes /\ job \in [Procs -> Jobs]
      /\ "master" \in Shards /\ Replace(h, "master") /\ gate' = gate /\ job[h].at = "rename"
      /\ job[h].ver \in Versions /\ job[h].data = Content(job[h].ver) /\ job[h].safe
  BY DEF Procs, StoreInv, StoreTypes, Shards, Rename, Streaming
<1>1. blurs \in [Procs -> Jobs]
  BY <1>0, BlurType
<1>2. job'[h] = j /\ \A q \in Procs \ {h} : job'[q] = blurs[q]
  <2>1. job' = [blurs EXCEPT ![h] = j]
    BY DEF Rename
  <2> QED
    BY <1>0, <1>1, <2>1
<1>3. j.at = "before" /\ j.src = "master" /\ j.dst = "caves" /\ j.ver = job[h].ver
  BY DEF Idle
<1>4. gate /\ \A k \in Handlers \ {h} : ~Busy(k)
  BY <1>0 DEF StoreInv, GateHeld, Busy
<1>5. \A k \in Handlers \ {h} : job'[k].at = "idle"
  BY <1>0, <1>2, <1>4, BlurSame DEF Same, Busy
<1>6. ASSUME NEW q \in Procs PROVE Fresh(q)' /\ Sound(job'[q])
  <2>1. CASE q = h
    BY <1>2, <1>3, <2>1 DEF Fresh, Sound
  <2>2. CASE q # h
    <3>1. Same(job[q], job'[q]) /\ job'[q] = blurs[q]
      BY <1>0, <1>2, <2>2, BlurSame
    <3>2. job[q].src \in {"source", "master"} /\ "source" \in Paths \ {"master"}
      BY <1>0 DEF Jobs, Paths, Shards
    <3>3. \/ file'[job[q].src] = file[job[q].src]
          \/ Between(q, job[q].src) =>
                job'[q].blurred \/ file'[job[q].src].mtime # job[q].stat.mtime
      <4>1. CASE job[q].src = "source"
        BY <1>0, <3>2, <4>1, ReplaceOthers
      <4>2. CASE job[q].src = "master"
        <5>1. Between(q, "master") =>
                 blurs[q].blurred \/ file'["master"].mtime # job[q].stat.mtime
          BY <1>0, ReplaceOthers
        <5> QED
          BY <3>1, <4>2, <5>1
      <4> QED
        BY <3>2, <4>1, <4>2
    <3> QED
      BY <3>1, <3>3, SameOwes DEF StoreInv
  <2> QED
    BY <2>1, <2>2
<1>7. file'["master"].data = Content(job[h].ver) /\ file'["master"].safe /\ file'["caves"] = file["caves"]
  BY <1>0, ReplaceOthers DEF Paths, Shards
<1>8. FilesSound'
  <2>1. Whole(file'["master"].data)
    BY <1>0, <1>7 DEF Whole
  <2> QED
    BY <1>7, <2>1 DEF FilesSound, StoreInv, Shards
<1>9. Streaming(h)' /\ Cloning(h)'
  BY <1>2, <1>3, <1>7 DEF Streaming, Cloning
<1>10. \A k \in Handlers : Streaming(k)' /\ Cloning(k)'
  BY <1>0, <1>5, <1>9, IdleOwes
<1>11. GateHeld'
  BY <1>0, <1>4, <1>5 DEF GateHeld, Busy
<1> QED
  BY <1>6, <1>8, <1>10, <1>11 DEF StoreInv

LEMMA HandlerInv == ASSUME StoreInv, StoreTypes', NEW h \in Handlers, Handler(h) PROVE StoreInv'
<1>0. h \in Procs /\ job[h] \in Jobs /\ Idle.at = "idle"
  BY DEF Procs, StoreInv, StoreTypes, Idle
<1>1. CASE Enter(h)
  <2>1. PICK v \in Versions : job' = [job EXCEPT ![h] = [Idle EXCEPT !.at = "stream", !.ver = v]]
    BY <1>1 DEF Enter
  <2>2. /\ job'[h] = [Idle EXCEPT !.at = "stream", !.ver = v]
        /\ \A q \in Procs \ {h} : job'[q] = job[q]
    BY <1>0, <2>1, OwnChange
  <2>3. job'[h].at = "stream" /\ job'[h].ver = v
    BY <2>2 DEF Idle
  <2>4. Fresh(h)' /\ Sound(job'[h]) /\ Streaming(h)' /\ Cloning(h)'
    BY <2>1, <2>3 DEF Fresh, Sound, Streaming, Cloning
  <2>5. UNCHANGED file /\ ~gate /\ gate'
    BY <1>1 DEF Enter
  <2> QED
    BY <1>0, <2>2, <2>4, <2>5, Alone
<1>2. CASE Stream(h)
  <2>1. PICK j : /\ job' = [job EXCEPT ![h] = j]
                 /\ j = [job[h] EXCEPT !.at = "sync", !.stamp = clock, !.data = Content(job[h].ver)]
    BY <1>2 DEF Stream
  <2>2. job'[h] = j /\ \A q \in Procs \ {h} : job'[q] = job[q]
    BY <1>0, <2>1, OwnChange
  <2>3. j.at = "sync" /\ j.ver = job[h].ver /\ j.data = Content(job[h].ver)
    BY <1>0, <2>1 DEF Jobs
  <2>4. UNCHANGED <<file, gate>> /\ job[h].at = "stream"
    BY <1>2 DEF Stream
  <2>5. Fresh(h)' /\ Sound(job'[h]) /\ Streaming(h)' /\ Cloning(h)'
    BY <2>2, <2>3, <2>4 DEF Fresh, Sound, Streaming, Cloning, StoreInv
  <2>6. Busy(h) /\ gate
    BY <2>4 DEF Busy, StoreInv, GateHeld
  <2> QED
    BY <1>0, <2>2, <2>4, <2>5, <2>6, Alone
<1>3. CASE Sync(h)
  <2>1. PICK j : /\ job' = [job EXCEPT ![h] = j]
                 /\ j = [job[h] EXCEPT !.at = "rename", !.safe = TRUE]
    BY <1>3 DEF Sync
  <2>2. job'[h] = j /\ \A q \in Procs \ {h} : job'[q] = job[q]
    BY <1>0, <2>1, OwnChange
  <2>3. j.at = "rename" /\ j.ver = job[h].ver /\ j.data = job[h].data /\ j.safe
    BY <1>0, <2>1 DEF Jobs
  <2>4. UNCHANGED <<file, gate>> /\ job[h].at = "sync"
    BY <1>3 DEF Sync
  <2>5. Fresh(h)' /\ Sound(job'[h]) /\ Streaming(h)' /\ Cloning(h)'
    BY <2>2, <2>3, <2>4 DEF Fresh, Sound, Streaming, Cloning, StoreInv
  <2>6. Busy(h) /\ gate
    BY <2>4 DEF Busy, StoreInv, GateHeld
  <2> QED
    BY <1>0, <2>2, <2>4, <2>5, <2>6, Alone
<1>4. CASE Rename(h)
  BY <1>4, RenameInv
<1>5. CASE Answer(h)
  <2>1. job'[h] = Idle /\ \A q \in Procs \ {h} : job'[q] = job[q]
    BY <1>0, <1>5, OwnChange DEF Answer
  <2>2. UNCHANGED file /\ Busy(h) /\ ~Busy(h)'
    BY <1>0, <1>5, <2>1 DEF Answer, Busy
  <2> QED
    BY <1>0, <2>1, <2>2, IdleOwes, Alone
<1>6. CASE Get(h)
  <2>1. PICK j : /\ job' = [job EXCEPT ![h] = j] /\ UNCHANGED file
                 /\ \/ j.at = "get" /\ ~gate /\ gate'
                    \/ j.at = "idle" /\ Busy(h)
    <3>1. [Idle EXCEPT !.at = "get"].at = "get"
      BY DEF Idle
    <3> QED
      BY <1>0, <1>6, <3>1 DEF Get, Busy
  <2>2. job'[h] = j /\ \A q \in Procs \ {h} : job'[q] = job[q]
    BY <1>0, <2>1, OwnChange
  <2>3. Fresh(h)' /\ Sound(job'[h]) /\ Streaming(h)' /\ Cloning(h)'
    BY <2>1, <2>2 DEF Fresh, Sound, Streaming, Cloning
  <2>4. Busy(h)' => j.at = "get"
    BY <2>1, <2>2 DEF Busy
  <2>5. (Busy(h) \/ ~gate) /\ (Busy(h)' => gate')
    BY <2>1, <2>4
  <2> QED
    BY <1>0, <2>1, <2>2, <2>3, <2>5, Alone
<1> QED
  BY <1>1, <1>2, <1>3, <1>4, <1>5, <1>6 DEF Handler

LEMMA StoreStep == StoreInv /\ [Next]_vars => StoreInv'
<1> SUFFICES ASSUME StoreInv, [Next]_vars PROVE StoreInv'
  OBVIOUS
<1>0. StoreTypes'
  BY StoreTypesStep DEF StoreInv
<1>1. CASE UNCHANGED vars
  BY <1>1 DEF vars, StoreInv, StoreTypes, Fresh, FilesSound, GateHeld, Busy, Streaming, Cloning
<1>2. CASE Next
  BY <1>0, <1>2, OutsideInv, ReadingInv, MainInv, HandlerInv DEF Next
<1> QED
  BY <1>1, <1>2

LEMMA StoreInvariant == Spec => []StoreInv
BY StoreInit, StoreStep, PTL DEF Spec

\* A process leaves the second stat by its own decision.
LEMMA OthersKeepPlace ==
    ASSUME StoreInv, Next, NEW p \in Procs, job[p].at = "after", job'[p].at \in {"swap", "have"}
    PROVE  After(p)
<1>0. job \in [Procs -> Jobs] /\ StoreTypes /\ Idle.at = "idle" /\ job'[p].at # job[p].at
  BY DEF StoreInv, StoreTypes, Idle
<1>1. ~Outside
  <2>1. ASSUME NEW d, WriteSource(d) PROVE job'[p].at = job[p].at
    BY <1>0, <2>1, WriteOthers DEF Same
  <2> QED
    BY <1>0, <2>1 DEF Outside, Tick, EditBegin, EditChunk, PowerCut
<1>2. ~Main
  <2>1. [Idle EXCEPT !.at = "before"].at = "before"
        /\ [Idle EXCEPT !.at = "before", !.dst = "master"].at = "before"
    BY DEF Idle
  <2> QED
    BY <1>0, <2>1 DEF Main, BootCopies, Snapshot, Used
<1>3. ASSUME NEW h \in Handlers PROVE ~Handler(h)
  <2>1. h \in Procs
    BY DEF Procs
  <2>2. ~Rename(h)
    <3>1. Blur(job, "master", job[h].stamp) \in [Procs -> Jobs]
      BY <1>0, BlurType
    <3>2. p # h /\ Rename(h) => job'[p] = Blur(job, "master", job[h].stamp)[p]
      BY <2>1, <3>1 DEF Rename
    <3>3. p = h => ~Rename(h)
      BY DEF Rename
    <3> QED
      BY <1>0, <3>2, <3>3, BlurSame DEF Same
  <2> QED
    BY <1>0, <2>1, <2>2 DEF Handler, Enter, Stream, Sync, Answer, Get
<1>4. ASSUME NEW q \in Procs, Reading(q) PROVE q = p /\ After(p)
  <2>1. ASSUME NEW js \in [Procs -> Jobs], NEW ok \in BOOLEAN, js[p].at = job[p].at,
               job' = Ended(js, q, ok)
        PROVE  FALSE
    <3>1. CASE p = q
      <4>1. job'[p].at \in {"idle", "before", "ok"}
        BY <2>1, <3>1, EndedOwn
      <4> QED
        BY <4>1
    <3>2. CASE p # q
      <4>1. job'[p] = js[p]
        BY <2>1, <3>2 DEF Ended
      <4> QED
        BY <1>0, <2>1, <4>1
    <3> QED
      BY <3>1, <3>2
  <2>2. ~Swap(q)
    <3> DEFINE blurs == Blur(job, job[q].dst, job[q].stamp)
    <3>1. blurs \in [Procs -> Jobs] /\ Cross(blurs, q) \in [Procs -> Jobs]
      BY <1>0, BlurType, CrossType
    <3>2. Cross(blurs, q)[p].at = job[p].at
      BY <1>0, <3>1, BlurSame, CrossSame DEF Same
    <3>3. job' # Ended(Cross(blurs, q), q, TRUE)
      BY <2>1, <3>1, <3>2, TRUE \in BOOLEAN
    <3> QED
      BY <3>3 DEF Swap
  <2>3. ~Fail(q)
    BY <1>0, <2>1, FALSE \in BOOLEAN DEF Fail
  <2>4. q = p
    BY <1>0, <1>4, <2>1, <2>2, <2>3, FALSE \in BOOLEAN
       DEF Reading, Before, Open, ReadChunk, ReadEnd, After, Accept
  <2> QED
    BY <1>4, <2>2, <2>3, <2>4 DEF Reading, Before, Open, ReadChunk, ReadEnd
<1> QED
  BY <1>1, <1>2, <1>3, <1>4 DEF Next

-----------------------------------------------------------------------------
(* The theorems                                                            *)

\* The mod file of a shard is never a part of a body or of a source: a body is
\* flushed before it is renamed, a copy is compared with its source after it.
\* The three excuses are those of copies alone (api.go:1059, update.go:1085-1100).
THEOREM FilesIntact == Spec => []Intact
<1>1. StoreInv => Intact
  BY DEF StoreInv, FilesSound, Intact
<1> QED
  BY <1>1, StoreInvariant, PTL

\* Success of /api/file/write means both shards hold the body: the gate keeps
\* every other handler out from the rename to the answer (api.go:583-690).
THEOREM HandlersMirror == Spec => []Mirrored
<1>1. StoreInv => Mirrored
  <2>1. ASSUME StoreInv, NEW h \in Handlers, job[h].at = "ok", ~job[h].crossed
        PROVE  \A s \in Shards : file[s].data = Content(job[h].ver)
    BY <2>1 DEF StoreInv, Cloning, Shards
  <2> QED
    BY <2>1 DEF Mirrored
<1> QED
  BY <1>1, StoreInvariant, PTL

\* A copy or a snapshot that is accepted is what the file held at one instant,
\* but for writes within the tick of the first stat (update.go:1052-1100).
THEOREM ReadingsAreReal == Spec => ReadingReal
<1> DEFINE Real ==
      \A p \in Procs :
          job[p].at = "after" /\ job'[p].at \in {"swap", "have"} =>
              \/ job[p].data = file[job[p].src].data
              \/ job[p].dst = "number" /\ Begins(job[p].data, file[job[p].src].data)
              \/ job[p].blurred
<1>1. StoreInv /\ [Next]_vars => [Real]_vars
  <2> SUFFICES ASSUME StoreInv, Next, NEW p \in Procs, job[p].at = "after",
                      job'[p].at \in {"swap", "have"}, ~job[p].blurred
               PROVE  \/ job[p].data = file[job[p].src].data
                      \/ job[p].dst = "number" /\ Begins(job[p].data, file[job[p].src].data)
    OBVIOUS
  <2>1. file[job[p].src].mtime = job[p].stat.mtime
    <3>1. After(p)
      BY OthersKeepPlace
    <3>2. job \in [Procs -> Jobs] /\ job[p] \in Jobs
      BY DEF StoreInv, StoreTypes
    <3>3. ~(job' = [job EXCEPT ![p] = [@ EXCEPT !.at = "before", !.try = job[p].try + 1]])
      <4>1. [job[p] EXCEPT !.at = "before", !.try = job[p].try + 1].at = "before"
        BY <3>2 DEF Jobs
      <4> QED
        BY <3>2, <4>1
    <3>4. ~(job' = Ended(job, p, FALSE))
      BY <3>2, EndedOwn, FALSE \in BOOLEAN
    <3>5. Stat(job[p].src) = job[p].stat
      BY <3>1, <3>3, <3>4 DEF After
    <3> QED
      BY <3>5 DEF Stat
  <2> QED
    BY <2>1 DEF StoreInv, Fresh
<1>2. [][StoreInv /\ [Next]_vars => [Real]_vars]_vars => ([]StoreInv /\ [][Next]_vars => [][Real]_vars)
  BY PTL
<1> QED
  BY <1>1, StoreInvariant, PTL DEF Spec, ReadingReal

=============================================================================
