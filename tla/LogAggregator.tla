--------------------------- MODULE LogAggregator ---------------------------
(***************************************************************************)
(* The logs daemon (logs/app/watch.js): a single-threaded Node program     *)
(* that re-reads every Envoy access log whenever chokidar reports a        *)
(* change, counts the lines by hour and replaces the MongoDB collection    *)
(* "stats" with the counts.                                                *)
(*                                                                         *)
(* One action is one callback run by the event loop, or one step of the    *)
(* outside world: Envoy appending to a log, the clock, MongoDB executing a *)
(* request.  A line is its file and its hour; a record is the lines that   *)
(* were counted into it, by file, and its totalQty is their sum.  Every    *)
(* piece of module-level state of the script is a variable, because the    *)
(* callbacks of different runs share it.                                   *)
(***************************************************************************)
EXTENDS Integers, FiniteSets, Functions

CONSTANTS
    Files,         \* names of log files: one per Envoy container
    InitialFiles,  \* the files that exist when the daemon starts
    InitialLines,  \* how many lines each of them holds then
    MaxHour,       \* bound: the clock runs from hour 0 to this hour
    HoursPerDay,   \* hours in one day of the model
    MaxLines,      \* bound: lines a file may hold
    MaxOutruns,    \* bound: times the write timer fires with reads still to come
    MongoFaults    \* may MongoDB refuse a request?

ASSUME ConstantsAssumption ==
    /\ IsFiniteSet(Files) /\ InitialFiles \subseteq Files
    /\ HoursPerDay \in Nat \ {0}
    /\ {MaxHour, MaxLines, InitialLines, MaxOutruns} \subseteq Nat
    /\ MongoFaults \in BOOLEAN

VARIABLES
    log,           \* the lines of each file, by hour; kept after an unlink
    exists,        \* the files in the directory
    changed,       \* files with a change that chokidar has not reported
    time,          \* the current hour
    running, reRunFlag,
    timeout,       \* the re-run timer is armed
    writeTimeout,  \* the write timer is armed
    byHour,        \* every record object still referenced: generation -> hour -> file -> qty
    current,       \* the generation the global byHour points to
    readdirs,      \* readdir requests in flight
    statting, reading, \* stat and readFile requests in flight, per file
    writes,        \* replacements of the collection in flight
    statsColl,         \* the collection "stats" in MongoDB
    daemonCrashed,       \* an exception reached the event loop: the process is gone
    strays,        \* history: by generation, the files an earlier run was still reading at its start
    outrun,        \* history: the write timer fired with reads still to come, and
                   \* something of that is still under way
    outruns        \* how often it did

world == <<log, exists, changed, time>>
flags == <<running, reRunFlag, timeout>>
reads == <<readdirs, statting, reading>>
history == <<strays, outrun, outruns>>
logVars == <<world, flags, writeTimeout, byHour, current, reads, writes, statsColl, daemonCrashed, history>>

Hours == 0..MaxHour
DayOf(h) == h \div HoursPerDay

\* A replacement holds references to record objects, not copies of them, so a
\* generation lives as long as byHour, a replacement or a document names it.
Generations == 1..5
InUse == {current} \cup {writes[w].gen : w \in DOMAIN writes} \cup {d.gen : d \in statsColl}

\* A replacement that has not serialised its records yet still needs them.
Referenced(g) == \E w \in DOMAIN writes : writes[w].gen = g /\ writes[w].state = "removing"

\* At most this many replacements are in flight at once.
WriteIds == 1..2

LinesOf(f) == SumFunction(log[f])
HasLine(f) == \E h \in Hours : log[f][h] > 0

\* Callbacks that will count, or lead to counting, the lines of a file.
ReadsOf(f) == readdirs + statting[f] + reading[f]
ReadsPending == readdirs > 0 \/ \E f \in Files : statting[f] + reading[f] > 0

\* The record of an hour without requests, and the total of a record.
NoLines == [f \in Files |-> 0]
totalQty(qty) == SumFunction(qty)

----------------------------------------------------------------------------
\* fillHourGaps(): add the hours that have begun and have no record.
Filled(records) ==
    [h \in DOMAIN records \cup 0..time |-> IF h \in DOMAIN records THEN records[h] ELSE NoLines]

\* Mutant: aggregateLogs calls fillHourGaps() without reset.
EmptyRecordsNotReset == Filled(byHour[current])

\* fillHourGaps(true): start from nothing.
EmptyRecords == [h \in 0..time |-> NoLines]

\* Mutant: the early return of aggregateLogs is missing.
BusyIgnored == FALSE

\* aggregateLogs returns early.
Busy == running

\* aggregateLogs: one run at a time; a call during a run only asks for another.
aggregateLogs ==
    IF Busy
    THEN /\ reRunFlag' = TRUE
         /\ UNCHANGED <<running, timeout, byHour, current, readdirs, history>>
    ELSE /\ running' = TRUE
         /\ timeout' = FALSE
         /\ \E g \in Generations \ InUse :
              /\ \A k \in Generations \ InUse : g <= k
              /\ current' = g
              /\ byHour' = [k \in Generations |-> IF k = g THEN EmptyRecords
                                               ELSE IF Referenced(k) THEN byHour[k] ELSE <<>>]
              /\ strays' = [k \in Generations |-> IF k = g THEN {f \in Files : ReadsOf(f) > 0}
                                               ELSE IF k \in InUse THEN strays[k] ELSE {}]
         /\ outrun' = (outrun /\ (ReadsPending \/ writeTimeout \/ DOMAIN writes # {}))
         /\ UNCHANGED outruns
         /\ readdirs' = readdirs + 1
         /\ UNCHANGED reRunFlag

\* An exception reaches the event loop: the process is gone, with all it held.
Dies ==
    /\ daemonCrashed' = TRUE
    /\ running' = FALSE /\ reRunFlag' = FALSE /\ timeout' = FALSE /\ writeTimeout' = FALSE
    /\ byHour' = [g \in Generations |-> <<>>]
    /\ readdirs' = 0 /\ statting' = [f \in Files |-> 0] /\ reading' = [f \in Files |-> 0]
    /\ writes' = <<>>
    /\ UNCHANGED <<current, strays, outrun, outruns>>

\* The module body: fill the gaps, install the watcher (which reports every
\* file it finds with 'add'), and start the first run.
LogInit ==
    /\ log = [f \in Files |-> [h \in Hours |->
                 IF f \in InitialFiles /\ h = 0 THEN InitialLines ELSE 0]]
    /\ exists = InitialFiles
    /\ changed = InitialFiles
    /\ time = 0
    /\ running = TRUE /\ reRunFlag = FALSE
    /\ timeout = FALSE /\ writeTimeout = FALSE
    /\ current = 1
    /\ byHour = [g \in Generations |-> IF g = 1 THEN [h \in 0..0 |-> NoLines] ELSE <<>>]
    /\ readdirs = 1
    /\ statting = [f \in Files |-> 0]
    /\ reading = [f \in Files |-> 0]
    /\ writes = <<>>
    /\ statsColl = {}
    /\ daemonCrashed = FALSE
    /\ strays = [g \in Generations |-> {}]
    /\ outrun = FALSE /\ outruns = 0

----------------------------------------------------------------------------
\* The outside world.

\* An Envoy starts and opens its log, which is empty.
Create(f) ==
    /\ f \notin exists /\ ~HasLine(f)
    /\ exists' = exists \cup {f}
    /\ changed' = changed \cup {f}
    /\ UNCHANGED <<log, time, flags, writeTimeout, byHour, current, reads, writes, statsColl, daemonCrashed, history>>

\* Envoy appends a line.
Log(f) ==
    /\ f \in exists /\ LinesOf(f) < MaxLines
    /\ log' = [log EXCEPT ![f][time] = @ + 1]
    /\ changed' = changed \cup {f}
    /\ UNCHANGED <<exists, time, flags, writeTimeout, byHour, current, reads, writes, statsColl, daemonCrashed, history>>

\* Somebody deletes a log that has been used; its name is never used again.
Unlink(f) ==
    /\ f \in exists /\ HasLine(f)
    /\ exists' = exists \ {f}
    /\ changed' = changed \cup {f}
    /\ UNCHANGED <<log, time, flags, writeTimeout, byHour, current, reads, writes, statsColl, daemonCrashed, history>>

Tick ==
    /\ time < MaxHour
    /\ time' = time + 1
    /\ UNCHANGED <<log, exists, changed, flags, writeTimeout, byHour, current, reads, writes, statsColl, daemonCrashed, history>>

----------------------------------------------------------------------------
\* Callbacks.

\* watcher.on('add' | 'change' | 'unlink', aggregateLogs)
WatcherEvent(f) ==
    /\ ~daemonCrashed /\ f \in changed
    /\ changed' = changed \ {f}
    /\ aggregateLogs
    /\ UNCHANGED <<log, exists, time, writeTimeout, statting, reading, writes, statsColl, daemonCrashed>>

\* setTimeout(aggregateLogs, 1000) fires.
RerunTimeout ==
    /\ ~daemonCrashed /\ timeout
    /\ IF Busy
       THEN /\ timeout' = FALSE /\ reRunFlag' = TRUE
            /\ UNCHANGED <<running, byHour, current, readdirs, history>>
       ELSE aggregateLogs
    /\ UNCHANGED <<world, writeTimeout, statting, reading, writes, statsColl, daemonCrashed>>

\* setInterval(fillHourGaps, 2700000) fires.
FillHourGaps ==
    /\ ~daemonCrashed
    /\ byHour' = [byHour EXCEPT ![current] = Filled(@)]
    /\ UNCHANGED <<world, flags, writeTimeout, current, reads, writes, statsColl, daemonCrashed, history>>

\* walk: the readdir callback asks for the stat of every entry.
ReaddirDone ==
    /\ ~daemonCrashed /\ readdirs > 0
    /\ readdirs' = readdirs - 1
    /\ statting' = [f \in Files |-> IF f \in exists THEN statting[f] + 1 ELSE statting[f]]
    /\ UNCHANGED <<world, flags, writeTimeout, byHour, current, reading, writes, statsColl, daemonCrashed, history>>

\* walk: the stat callback starts reading the file.  It does not look at err:
\* for a file that has been deleted, stats is undefined and the call throws.
StatDone(f) ==
    /\ ~daemonCrashed /\ statting[f] > 0
    /\ IF f \in exists
       THEN /\ statting' = [statting EXCEPT ![f] = @ - 1]
            /\ reading' = [reading EXCEPT ![f] = @ + 1]
            /\ UNCHANGED <<flags, writeTimeout, byHour, current, readdirs, writes, daemonCrashed, history>>
       ELSE Dies
    /\ UNCHANGED <<world, statsColl>>

\* The day of every line of the file has an entry in byHour.
DaysKnown(f) ==
    \A h \in Hours : log[f][h] > 0 =>
        \E k \in DOMAIN byHour[current] : DayOf(k) = DayOf(h)

\* Counting the lines of a file: a missing hour gets an empty record first.
Counted(f) ==
    LET hours == {h \in Hours : log[f][h] > 0}
        old   == byHour[current]
    IN  [h \in DOMAIN old \cup hours |->
            [(IF h \in DOMAIN old THEN old[h] ELSE NoLines) EXCEPT ![f] = @ + log[f][h]]]

\* Mutant: the timer is cleared before it is known whether the file has a line.
WriteTimerAfterCleared(f) == HasLine(f)

\* Every line re-arms the write timer; a file without lines does not.
WriteTimerAfter(f) == writeTimeout \/ HasLine(f)

\* The readFile callback.  It counts into whatever byHour is NOW, whichever run
\* asked for the file.  byHour[day] of a day without entry is undefined.
ReadFileDone(f) ==
    /\ ~daemonCrashed /\ reading[f] > 0
    /\ IF f \in exists /\ DaysKnown(f)
       THEN /\ reading' = [reading EXCEPT ![f] = @ - 1]
            /\ byHour' = [byHour EXCEPT ![current] = Counted(f)]
            /\ writeTimeout' = WriteTimerAfter(f)
            /\ UNCHANGED <<flags, current, readdirs, statting, writes, daemonCrashed, history>>
       ELSE Dies
    /\ UNCHANGED <<world, statsColl>>

\* The write timer fires, one second after the last line was counted.  It does
\* not wait for the reads that are still under way.
WriteTimeout ==
    /\ ~daemonCrashed /\ writeTimeout /\ (ReadsPending => outruns < MaxOutruns)
    /\ writeTimeout' = FALSE
    /\ outrun' = (outrun \/ ReadsPending)
    /\ outruns' = IF ReadsPending THEN outruns + 1 ELSE outruns
    /\ \E w \in WriteIds \ DOMAIN writes :
         /\ \A k \in WriteIds \ DOMAIN writes : w <= k
         /\ writes' = [k \in DOMAIN writes \cup {w} |->
                IF k = w THEN [gen |-> current, hours |-> DOMAIN byHour[current],
                               state |-> "removing", docs |-> {}]
                ELSE writes[k]]
    /\ UNCHANGED <<world, flags, byHour, current, reads, statsColl, daemonCrashed, strays>>

\* MongoClient.connect fails: assert.equal(null, err) throws.
ConnectFailed(w) ==
    /\ ~daemonCrashed /\ MongoFaults /\ w \in DOMAIN writes /\ writes[w].state = "removing"
    /\ Dies
    /\ UNCHANGED <<world, statsColl>>

\* Bound: a removal is refused only while one run's documents are there.
RemoveMayFail == MongoFaults /\ Cardinality({d.gen : d \in statsColl}) <= 1

\* stats.remove({}) is executed, or refused: the callback ignores err, calls
\* insertMany, and the records are serialised as they are at that moment.
RemoveDone(w, ok) ==
    /\ ~daemonCrashed /\ w \in DOMAIN writes /\ writes[w].state = "removing"
    /\ ok \/ RemoveMayFail
    /\ statsColl' = IF ok THEN {} ELSE statsColl
    /\ writes' = [writes EXCEPT
            ![w].state = "inserting",
            ![w].docs = {[gen |-> writes[w].gen, hour |-> h, qty |-> byHour[writes[w].gen][h]]
                          : h \in writes[w].hours}]
    /\ UNCHANGED <<world, flags, writeTimeout, byHour, current, reads, daemonCrashed, history>>

\* The driver gives a record object its _id the first time it is inserted: the
\* same object again is a duplicate key.
Duplicate(e) == \E d \in statsColl : d.gen = e.gen /\ d.hour = e.hour
DuplicateKey(w) == \E e \in writes[w].docs : Duplicate(e)

\* Mutant: the request for another run is forgotten.
RerunTimerAfterForgotten == timeout

\* The run ends, and starts again in a second if it was asked to.
RerunTimerAfter == timeout \/ reRunFlag

\* stats.insertMany() has inserted every record.
InsertDone(w) ==
    /\ ~daemonCrashed /\ w \in DOMAIN writes /\ writes[w].state = "inserting" /\ ~DuplicateKey(w)
    /\ statsColl' = statsColl \cup writes[w].docs
    /\ writes' = [k \in DOMAIN writes \ {w} |-> writes[k]]
    /\ running' = FALSE
    /\ timeout' = RerunTimerAfter
    /\ reRunFlag' = FALSE
    /\ UNCHANGED <<world, writeTimeout, byHour, current, reads, daemonCrashed, history>>

\* insertMany is refused, or stops at a duplicate key: some of the records may be
\* there by then, and the assert on err throws.
InsertRefused(w) ==
    /\ ~daemonCrashed /\ w \in DOMAIN writes /\ writes[w].state = "inserting"
    /\ MongoFaults \/ DuplicateKey(w)
    /\ \E some \in SUBSET {e \in writes[w].docs : ~Duplicate(e)} : statsColl' = statsColl \cup some
    /\ Dies
    /\ UNCHANGED world

----------------------------------------------------------------------------
\* Nobody looks any more once the daemon is gone.
World == ~daemonCrashed /\ (Tick \/ \E f \in Files : Create(f) \/ Log(f) \/ Unlink(f))

Daemon ==
    \/ RerunTimeout \/ FillHourGaps \/ ReaddirDone \/ WriteTimeout
    \/ \E f \in Files : WatcherEvent(f) \/ StatDone(f) \/ ReadFileDone(f)
    \/ \E w \in WriteIds : InsertDone(w) \/ InsertRefused(w) \/ ConnectFailed(w) \/ RemoveDone(w, TRUE) \/ RemoveDone(w, FALSE)

LogNext == World \/ Daemon

\* The event loop runs while a callback is due, chokidar polls for ever and MongoDB
\* answers.  Nothing is assumed of the order of callbacks, of Envoy, of the clock or
\* of faults.
Callback ==
    \/ RerunTimeout \/ ReaddirDone \/ WriteTimeout
    \/ \E f \in Files : WatcherEvent(f) \/ StatDone(f) \/ ReadFileDone(f)
    \/ \E w \in WriteIds : InsertDone(w) \/ InsertRefused(w) \/ RemoveDone(w, TRUE)

LogSpec == LogInit /\ [][LogNext]_logVars /\ WF_logVars(Callback)

----------------------------------------------------------------------------
(***************************************************************************)
(* Properties.                                                             *)
(***************************************************************************)

IsRecords(b) == DOMAIN b \subseteq Hours /\ b \in [DOMAIN b -> [Files -> Nat]]

LogTypeOK ==
    /\ log \in [Files -> [Hours -> Nat]]
    /\ exists \subseteq Files /\ changed \subseteq Files
    /\ time \in Hours
    /\ {running, reRunFlag, timeout, writeTimeout, daemonCrashed} \subseteq BOOLEAN
    /\ current \in Generations
    /\ DOMAIN byHour = Generations /\ IsRecords(byHour[current])
    /\ readdirs \in Nat
    /\ statting \in [Files -> Nat] /\ reading \in [Files -> Nat]
    /\ DOMAIN writes \subseteq WriteIds
    /\ strays \in [Generations -> SUBSET Files] /\ outrun \in BOOLEAN /\ outruns \in Nat

\* README.md:141, the figures are got by counting by hour: no document reports
\* more requests for its hour than each Envoy logged.
CountsOnce == \A d \in statsColl : \A f \in Files : d.qty[f] <= log[f][d.hour]

\* What the code keeps of it.  No document reports more requests of a file than
\* were logged, unless an earlier run was still reading that file when the run of
\* the document began: every run re-reads every file, files grow while they are
\* read, reads outlast the write timer, and the records are serialised long after
\* they were counted.
NeverOverCounts ==
    \A d \in statsColl : \A f \in Files \ strays[d.gen] : d.qty[f] <= log[f][d.hour]

WedgedOnlyWithoutLines ==
    running /\ ~daemonCrashed =>
        \/ ReadsPending \/ writeTimeout \/ DOMAIN writes # {}
        \/ \A h \in DOMAIN byHour[current] : byHour[current][h] = NoLines

\* A run that is not over still has a callback to come that will end it, except
\* when it met no line at all (see ChangesPublished).  And unless the write timer
\* has gone off before the reads of its run were over, then while a replacement of
\* the collection is in flight no other one is, and no callback that could change
\* the records being written is still to come.
ReplacementsExclusive ==
    /\ LogTypeOK /\ WedgedOnlyWithoutLines
    /\ outrun \/ Cardinality(DOMAIN writes) <= 1
    /\ outrun \/ DOMAIN writes = {} \/ (running /\ ~ReadsPending)

\* The documents of the last run show exactly what the files hold.
Synced ==
    /\ \A h \in Hours : SumFunction([d \in {e \in statsColl : e.hour = h /\ e.gen = current} |-> totalQty(d.qty)])
                       = SumFunction([f \in exists |-> log[f][h]])
    /\ \E d \in statsColl : d.gen = current

HasLines == \E f \in exists : HasLine(f)

\* If the directory never runs out of lines then, once Envoy stops logging, the
\* collection shows every line (unless the daemon has died, or the last run wrote
\* before its reads were over).
NonEmptyLogsPublished == []HasLines => <>[](daemonCrashed \/ outrun \/ Synced)

\* README.md, "Servicio Logs": as soon as a file of the directory changes it is
\* processed and summarised.
ChangesPublished == <>[](daemonCrashed \/ outrun \/ ~HasLines \/ Synced)
=============================================================================
