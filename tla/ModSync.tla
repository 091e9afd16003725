------------------------------- MODULE ModSync -------------------------------
(***************************************************************************)
(* Finding and downloading outdated mods (update.go:139-200, 235-318,      *)
(* 642-1050): the list of mods is read from the setup file and from the    *)
(* override files of the two shards, mods the setup file lacks are         *)
(* appended to it, the local and the remote times of the listed mods are   *)
(* compared, and steamcmd downloads what is out of date.                   *)
(*                                                                         *)
(* ModBusyGate keeps it to one probe or update at a time (ModTablesExclusive *)
(* of Supervisor), so there is one program counter; users edit files and   *)
(* authors publish mods at any moment.  Files are sequences of tokens.     *)
(***************************************************************************)
EXTENDS Integers, Sequences, SequencesExt, FiniteSets

CONSTANTS
    Mods,          \* workshop ids, positive numbers
    Removable,     \* mods the workshop may lose
    Configs,       \* override files users write: sequences of entries
    Setups,        \* setup files to begin with: sequences of lines
    MaxTime,       \* bound: publication times
    MaxLines,      \* bound: length to which unreadable setup files are patched
    Faults         \* what may fail: reading and writing a "file", a "query", steamcmd ("kill")

Enablings == {"absent", "true", "false"}     \* what an enabled field may be

ASSUME ModsAssumption == Mods \subseteq Nat \ {0} /\ Removable \subseteq Mods
ASSUME FilesAssumption ==
    /\ Configs \subseteq Seq([id : Mods, enabled : Enablings, nested : Enablings, first : BOOLEAN])
    /\ Setups \subseteq Seq([id : Mods, code : BOOLEAN])
ASSUME BoundsAssumption == MaxTime \in Nat /\ MaxLines \in Nat /\ Faults \subseteq {"file", "query", "kill"}

Files == {"setup", "master", "caves"}

VARIABLES
    setup,         \* dedicated_server_mods_setup.lua: lines [id, code]
    cut,           \* its last line has no newline
    over,          \* modoverrides.lua of each shard: a sequence of entries
    local,         \* time of the installed copy of each mod, 0 if none
    remote,        \* time of the newest published version
    removed,       \* mods the workshop no longer has
    pc,            \* "idle", "lines", "local", "remote", "done", "judged", "fetch"
    op,            \* "probe" or "update"
    unread,        \* files the last reading of the list had to skip
    written,       \* whether it could append to the setup file
    targets,       \* the mods found, in order
    localTime,     \* 全局本地模组时间表, as a function on its keys
    remoteTime,    \* 全局远程模组时间表, as a function on its keys
    failed,        \* queries that failed: a subset of {"local", "remote"}
    plan,          \* mods steamcmd still has to download
    verdict,       \* what the last probe said
    calm,          \* nothing fails any more
    asked          \* history: the remote times when the query was answered

fileVars == <<setup, cut, over>>
timeVars == <<local, remote, removed>>
tableVars == <<localTime, remoteTime, failed, asked>>
vars == <<fileVars, timeVars, pc, op, unread, written, targets, tableVars, plan, verdict, calm>>

-----------------------------------------------------------------------------
(* the parsers                                                             *)

Empty == [k \in {} |-> 0]

\* The elements of s at a set of places, in order.
Nth(I, k) == CHOOSE i \in I : Cardinality({j \in I : j <= i}) = k
At(s, I) == [k \in 1 .. Cardinality(I) |-> s[Nth(I, k)]]

\* 排重字典: of equal elements at these places, the first.
Once(s, I) == At(s, {i \in I : \A j \in I : s[j] = s[i] => i <= j})

\* The elements of s that are in S, in order.
Keep(s, S) == At(s, {i \in DOMAIN s : s[i] \in S})

Merge(list, more) == list \o Keep(more, Range(more) \ Range(list))

\* update.go:642-705: calls of ServerModSetup and bare workshop-N names count,
\* comments do not.  Lines are [id, code]; code is FALSE in a comment.
Ids(lines) == [i \in DOMAIN lines |-> lines[i].id]
SetupIds(lines) == {lines[i].id : i \in {j \in DOMAIN lines : lines[j].code}}
ParseSetup(lines) == Once(Ids(lines), {i \in DOMAIN lines : lines[i].code})

\* An entry of an override file: its id, its enabled field, and a nested table
\* (configuration_options) with an enabled field of its own, before or after.  A
\* field left out is a token that means nothing.
Token(kind, id, on) == [k |-> kind, id |-> id, on |-> on]
Open == Token("open", 0, TRUE)
Close == Token("close", 0, TRUE)
Field(v) == IF v = "absent" THEN Token("space", 0, TRUE) ELSE Token("enabled", 0, v = "true")
EntryTokens(e) ==
    LET id == Token("id", e.id, TRUE)
    IN  IF e.first
        THEN <<id, Open, Open, Field(e.nested), Close, Field(e.enabled), Close>>
        ELSE <<id, Open, Field(e.enabled), Open, Field(e.nested), Close, Close>>

\* The entries, seven tokens each, between two braces.
Tokens(file) ==
    LET end == 7 * Len(file) + 2
    IN  [n \in 1 .. end |->
            IF n = 1 THEN Open
            ELSE IF n = end THEN Close
            ELSE EntryTokens(file[((n - 2) \div 7) + 1])[((n - 2) % 7) + 1]]

\* update.go:749-768: braces move the depth; this is the depth before token i.
Depth(ts, i) ==
    Cardinality({j \in 1 .. i - 1 : ts[j].k = "open"})
      - Cardinality({j \in 1 .. i - 1 : ts[j].k = "close"})

\* update.go:770-795: a bracketed id at depth one opens an entry, which lasts up
\* to the brace that closes depth two.
Opens(ts, i) == ts[i].k = "id" /\ Depth(ts, i) = 1
Within(ts, i, j) ==
    i < j /\ \A c \in i .. j - 1 : ~(ts[c].k = "close" /\ Depth(ts, c) = 2)

\* Mutant: an enabled field counts at any depth.
Disables_AnyDepth(ts, i, j) == Within(ts, i, j) /\ ts[j].k = "enabled" /\ ~ts[j].on

\* update.go:797-836: enabled = false at depth two disables the entry.
Disables(ts, i, j) ==
    Within(ts, i, j) /\ ts[j].k = "enabled" /\ ~ts[j].on /\ Depth(ts, j) = 2

\* update.go:708-840: the mods an override file leaves on, in order.
ParseOverrides(ts) ==
    Once(Ids(ts), {i \in DOMAIN ts : Opens(ts, i) /\ \A j \in DOMAIN ts : ~Disables(ts, i, j)})
Parsed == {<<file, ParseOverrides(Tokens(file))>> : file \in Configs}
ModsOn(file) == (CHOOSE p \in Parsed : p[1] = file)[2]

\* What the Steam API answers: a record for each mod asked for, in order; a mod
\* that was removed has no time_updated.
Answer(list) == [i \in DOMAIN list |-> [id |-> list[i], time |-> remote[list[i]],
                                        timed |-> list[i] \notin removed]]

\* update.go:1007-1047: after an id the parser searches for the next
\* time_updated anywhere behind it, and goes on from there: the records <<i, j>>
\* such that the id of i gets the time of j.
Matches(records) ==
    {p \in (DOMAIN records) \X (DOMAIN records) :
        /\ p[1] <= p[2] /\ records[p[2]].timed
        /\ p[1] = 1 \/ records[p[1] - 1].timed
        /\ \A k \in p[1] .. p[2] - 1 : ~records[k].timed}
ParseAnswer(records) ==
    [id \in {records[p[1]].id : p \in Matches(records)} |->
        records[(CHOOSE p \in Matches(records) : records[p[1]].id = id)[2]].time]

-----------------------------------------------------------------------------
Init ==
    /\ setup \in Setups
    /\ cut \in BOOLEAN
    /\ over \in [{"master", "caves"} -> Configs]
    /\ local \in [Mods -> 0..1]
    /\ remote = [m \in Mods |-> 1]
    /\ removed = {}
    /\ pc = "idle"
    /\ op = "probe"
    /\ unread = {}
    /\ written = TRUE
    /\ targets = <<>>
    /\ localTime = Empty
    /\ remoteTime = Empty
    /\ failed = {}
    /\ plan = <<>>
    /\ verdict = "none"
    /\ calm = FALSE
    /\ asked = [m \in Mods |-> 0]

\* Faults happen until the environment calms down.
Fails(kind) == kind \in Faults /\ ~calm
CalmDown ==
    /\ ~calm
    /\ calm' = TRUE
    /\ UNCHANGED <<fileVars, timeVars, pc, op, unread, written, targets, tableVars, plan, verdict>>

\* A mod author publishes a new version.
Publish(m) ==
    /\ m \notin removed
    /\ remote[m] < MaxTime
    /\ remote' = [remote EXCEPT ![m] = @ + 1]
    /\ UNCHANGED <<fileVars, local, removed, pc, op, unread, written, targets, tableVars, plan, verdict, calm>>

\* A mod is taken off the workshop.
Withdraw(m) ==
    /\ m \in Removable \ removed
    /\ removed' = removed \cup {m}
    /\ UNCHANGED <<fileVars, local, remote, pc, op, unread, written, targets, tableVars, plan, verdict, calm>>

\* A user writes an override file, through the API or by hand.
Edit(s) ==
    /\ \E c \in Configs : over' = [over EXCEPT ![s] = c]
    /\ UNCHANGED <<setup, cut, timeVars, pc, op, unread, written, targets, tableVars, plan, verdict, calm>>

\* update.go:141-146 and 235-242
Start ==
    /\ pc = "idle"
    /\ op' \in (IF verdict = "outdated" THEN {"update"} ELSE {"probe", "update"})
    /\ pc' = "lines"
    /\ verdict' = "none"
    /\ UNCHANGED <<fileVars, timeVars, unread, written, targets, tableVars, plan, calm>>

\* What a reading that skips the files of a set finds (update.go:860-877).
Listed(skipped) ==
    LET fromSetup == IF "setup" \in skipped THEN <<>> ELSE ParseSetup(setup)
        more(s)   == IF s \in skipped THEN <<>> ELSE ModsOn(over[s])
    IN  Merge(Merge(fromSetup, more("master")), more("caves"))

Unlisted(found, known) == Keep(found, Range(found) \ known)
Lines(ids) == [i \in DOMAIN ids |-> [id |-> ids[i], code |-> TRUE]]

\* What appending the lines leaves.  When the file ends in the middle of a
\* comment the first line is swallowed by it.
Appended(added) ==
    IF cut /\ setup # <<>> /\ ~Last(setup).code /\ added # <<>>
    THEN setup \o Tail(added) ELSE setup \o added

\* Mutant: every mod found is appended, whatever the setup file lists.
ReadLines_AddsAll ==
    /\ pc = "lines"
    /\ \E skipped \in (IF Fails("file") THEN SUBSET Files ELSE {{}}) :
           \E found \in {Listed(skipped)} :
               /\ Len(setup) + Len(found) <= MaxLines + 4
               /\ targets' = found
               /\ unread' = skipped
               /\ setup' = Appended(Lines(found))
               /\ cut' = (cut /\ found = <<>>)
               /\ written' = TRUE
               /\ pc' = IF found = <<>> THEN "idle" ELSE "local"
    /\ UNCHANGED <<over, timeVars, op, tableVars, plan, verdict, calm>>

\* update.go:853-900: mods the setup file lacks are appended to it, if it opens.
ReadLines ==
    /\ pc = "lines"
    /\ \E skipped \in (IF Fails("file") THEN SUBSET Files ELSE {{}}) :
           \E found \in {Listed(skipped)} :
           LET missing == Unlisted(found, IF "setup" \in skipped THEN {} ELSE SetupIds(setup))
           IN  /\ "setup" \in skipped => Len(setup) + Len(missing) <= MaxLines
               /\ targets' = found
               /\ unread' = skipped
               /\ \/ /\ setup' = Appended(Lines(missing))
                     /\ cut' = (cut /\ missing = <<>>)
                     /\ written' = TRUE
                  \/ /\ Fails("file")
                     /\ UNCHANGED <<setup, cut>>
                     /\ written' = FALSE
               /\ pc' = IF found = <<>> THEN "idle" ELSE "local"
    /\ UNCHANGED <<over, timeVars, op, tableVars, plan, verdict, calm>>

\* update.go:907-967: the times steamcmd recorded for the mods on the list; when
\* the record cannot be read the table is empty.
ReadLocal ==
    /\ pc = "local"
    /\ \/ /\ localTime' = [m \in {m \in Range(targets) : local[m] > 0} |-> local[m]]
          /\ failed' = {}
       \/ /\ Fails("query")
          /\ localTime' = Empty
          /\ failed' = {"local"}
    /\ pc' = "remote"
    /\ UNCHANGED <<fileVars, timeVars, op, unread, written, targets, remoteTime, asked, plan, verdict, calm>>

\* A missing key reads as time zero.
LocalTime(m) == IF m \in DOMAIN localTime THEN localTime[m] ELSE 0

\* update.go:973-1050
ReadRemote ==
    /\ pc = "remote"
    /\ \/ /\ remoteTime' = ParseAnswer(Answer(targets))
          /\ failed' = failed
       \/ /\ Fails("query")
          /\ remoteTime' = Empty
          /\ failed' = failed \cup {"remote"}
    /\ asked' = remote
    /\ pc' = "done"
    /\ UNCHANGED <<fileVars, timeVars, op, unread, written, targets, localTime, plan, verdict, calm>>

\* Mutant: the comparison the other way round.
Outdated_Reversed == Keep(targets, {m \in DOMAIN remoteTime : LocalTime(m) > remoteTime[m]})

\* update.go:176-182 and 269-275: the mods whose remote time is later.
Outdated == Keep(targets, {m \in DOMAIN remoteTime : remoteTime[m] > LocalTime(m)})

\* update.go:164-199: a failed remote query is a failure, a failed local one is
\* not looked at.
Judge ==
    /\ pc = "done"
    /\ op = "probe"
    /\ verdict' = CASE "remote" \in failed -> "failure"
                    [] "remote" \notin failed /\ Outdated # <<>> -> "outdated"
                    [] OTHER -> "none"
    /\ pc' = "judged"
    /\ UNCHANGED <<fileVars, timeVars, op, unread, written, targets, tableVars, plan, calm>>

\* The return: the locals are gone, and the tables are emptied before they are
\* read again (update.go:908, 974).
Done ==
    /\ pc' = "idle"
    /\ targets' = <<>>
    /\ localTime' = Empty
    /\ remoteTime' = Empty
    /\ failed' = {}
    /\ unread' = {}
    /\ written' = TRUE
    /\ asked' = [m \in Mods |-> 0]
    /\ plan' = <<>>

Return ==
    /\ pc = "judged"
    /\ Done
    /\ UNCHANGED <<fileVars, timeVars, op, verdict, calm>>

\* Mutant: without a difference nothing is downloaded.
Plan_NoFallback ==
    /\ pc = "done"
    /\ op = "update"
    /\ plan' = Outdated
    /\ pc' = "fetch"
    /\ UNCHANGED <<fileVars, timeVars, op, unread, written, targets, tableVars, verdict, calm>>

\* update.go:262-292: the outdated mods, or all of them when a query failed or
\* the comparison found nothing.
Plan ==
    /\ pc = "done"
    /\ op = "update"
    /\ plan' = IF failed = {} /\ Outdated # <<>> THEN Outdated ELSE targets
    /\ pc' = "fetch"
    /\ UNCHANGED <<fileVars, timeVars, op, unread, written, targets, tableVars, verdict, calm>>

\* Mutant: the queue is never worked off.
Fetch_Skips ==
    /\ pc = "fetch"
    /\ plan # <<>>
    /\ plan' = Tail(plan)
    /\ UNCHANGED <<fileVars, timeVars, pc, op, unread, written, targets, tableVars, verdict, calm>>

\* update.go:298-317: steamcmd downloads the mods one by one; it may be killed.
Fetch ==
    /\ pc = "fetch"
    /\ plan # <<>>
    /\ local' = IF Head(plan) \in removed THEN local
                ELSE [local EXCEPT ![Head(plan)] = remote[Head(plan)]]
    /\ plan' = Tail(plan)
    /\ UNCHANGED <<fileVars, remote, removed, pc, op, unread, written, targets, tableVars, verdict, calm>>
Finish ==
    /\ pc = "fetch"
    /\ plan = <<>> \/ Fails("kill")
    /\ Done
    /\ UNCHANGED <<fileVars, timeVars, op, verdict, calm>>

Work == ReadLines \/ ReadLocal \/ ReadRemote \/ Judge \/ Return \/ Plan \/ Fetch \/ Finish

Next ==
    \/ \E m \in Mods : Publish(m) \/ Withdraw(m)
    \/ \E s \in {"master", "caves"} : Edit(s)
    \/ CalmDown
    \/ Start
    \/ Work

\* A probe or update goes on, and the ticker starts the next one.
Fairness ==
    /\ WF_vars(Start)
    /\ WF_vars(ReadLines) /\ WF_vars(ReadLocal) /\ WF_vars(ReadRemote)
    /\ WF_vars(Judge) /\ WF_vars(Return)
    /\ WF_vars(Plan) /\ WF_vars(Fetch) /\ WF_vars(Finish)

Spec == Init /\ [][Next]_vars
FairSpec == Spec /\ Fairness

-----------------------------------------------------------------------------
(* Properties                                                              *)

\* The mods a user has switched on: the reference for the parser.  A missing
\* enabled field counts as on; the nested field means nothing.
Enabled(file) == {file[i].id : i \in {j \in DOMAIN file : file[j].enabled # "false"}}

\* A reading finds exactly the mods of the files it could read: those the setup
\* file calls for and those an override file leaves on, each of them once.
ListExact ==
    [][ReadLines =>
          /\ Range(targets') =
                (IF "setup" \in unread' THEN {} ELSE SetupIds(setup))
                \cup UNION {Enabled(over[s]) : s \in {"master", "caves"} \ unread'}
          /\ Len(targets') = Cardinality(Range(targets'))]_vars

\* Patching settles: a reading of the whole setup file adds no line twice, and
\* leaves no mod unlisted unless it could not be written, or ended in the middle
\* of a comment: that swallows one mod, and the next reading finds it finished
\* (update.go:853-900).
PatchSettles ==
    [][ReadLines /\ "setup" \notin unread' =>
          /\ \A i \in Len(setup) + 1 .. Len(setup') : setup'[i].id \notin SetupIds(setup)
          /\ \/ Range(targets') \subseteq SetupIds(setup')
             \/ /\ cut /\ ~cut' /\ ~Last(setup).code
                /\ \E m \in Range(targets') : Range(targets') \ {m} \subseteq SetupIds(setup')
             \/ ~written']_vars

\* The mods whose times the parser reads right: those that are not removed and
\* do not stand right behind a removed one, which takes their time.
Legible(list) ==
    {list[i] : i \in {j \in DOMAIN list :
                        list[j] \notin removed /\ (j = 1 \/ list[j - 1] \notin removed)}}

\* A probe that finds nothing is right: no mod on the list was out of date when
\* the workshop was asked, but for mods behind a removed one in the answer
\* (update.go:1007-1047).
ProbeSound ==
    pc = "judged" /\ verdict = "none" =>
        \A m \in Legible(targets) : asked[m] <= LocalTime(m)

\* An update downloads every mod that was out of date when the workshop was
\* asked, whichever of the queries failed, but for the same mods.
PlanCovers ==
    [][Plan => \A m \in Legible(targets) :
                   asked[m] > local[m] => m \in Range(plan')]_vars

\* Every mod that stays switched on in the master's file is brought up to date
\* again and again, once nothing fails any more, while no mod is removed.
ModsCatchUp ==
    \A m \in Mods :
        <>[](calm /\ removed = {} /\ m \in Enabled(over["master"]))
            => []<>(local[m] = remote[m])

=============================================================================
