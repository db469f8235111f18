--------------------------- MODULE AccessLogFile ---------------------------
(* common/filesystem/filesystem_impl.cc: worker threads append to a buffer, *)
(* a thread of the file's own moves the buffer to about_to_write_buffer_   *)
(* and writes it; flush() does the same on the caller's thread.  Another   *)
(* process (hot restart) writes to the same file under file_lock_.         *)
EXTENDS Integers, Sequences, FiniteSets

CONSTANTS AlMaxWrites,  \* bound: calls of write()
          AlMaxFlushes, \* bound: calls of flush()
          AlMaxReopens, \* bound: calls of reopen()
          AlMaxOther    \* bound: chunks of the other process

ASSUME AlConstants == {AlMaxWrites, AlMaxFlushes, AlMaxReopens, AlMaxOther} \subseteq Nat

VARIABLE al

\* Who may hold a lock; slices of a chunk are written one at a time.
AlFree == "free"
AlThreads == {"flush thread", "caller", "destructor"}
AlChunk == 2

AlInit ==
    al = [writes |-> 0, flushes |-> 0, reopens |-> 0, other |-> 0,
          flushBuffer |-> << >>, aboutToWrite |-> << >>, done |-> 0, disk |-> << >>, chunks |-> 0, buffered |-> 0,
          fd |-> TRUE, reopen |-> FALSE, exit |-> FALSE, failed |-> FALSE, assert |-> FALSE,
          writeLock |-> AlFree, flushLock |-> AlFree, fileLock |-> AlFree, chunk |-> "none",
          thread |-> "none", caller |-> "idle", destructor |-> "none", asked |-> 0, rest |-> 0]

alHas(lock, who) == al[lock] = who
alRest == SubSeq(al.aboutToWrite, al.done + 1, Len(al.aboutToWrite))

\* write(): under write_lock_, which is released before it returns.
AlWrite ==
    /\ al.writes < AlMaxWrites /\ al.destructor = "none" /\ alHas("writeLock", AlFree)
    /\ al' = [al EXCEPT !.writes = @ + 1, !.buffered = @ + 1,
                        !.flushBuffer = Append(@, al.writes + 1),
                        !.thread = IF @ = "none" THEN "starts" ELSE @]

\* flush_event_ is notified by the timer, by a large buffer and by the destructor.
AlNotify == /\ al.thread = "waits"
            /\ al' = [al EXCEPT !.thread = "starts"]

\* flushThreadFunc(), up to the wait.
AlThreadLooks ==
    /\ al.thread = "starts" /\ alHas("writeLock", AlFree)
    /\ al' = IF al.exit THEN [al EXCEPT !.thread = "gone"]
             ELSE IF al.flushBuffer = << >> THEN [al EXCEPT !.thread = "waits"]
             ELSE [al EXCEPT !.thread = "locks", !.writeLock = "flush thread"]

alMove(p, who, pc) ==
    [p EXCEPT !.aboutToWrite = @ \o p.flushBuffer, !.flushBuffer = << >>, !.flushLock = who, !.writeLock = AlFree, ![pc] = "moved"]

AlThreadMoves ==
    /\ al.thread = "locks" /\ alHas("flushLock", AlFree)
    /\ al' = alMove(al, "flush thread", "thread")

\* A failed open() leaves fd_ at -1 for good, and the data where it is.
AlThreadReopens(ok) ==
    /\ al.thread = "moved"
    /\ al' = IF ~al.fd THEN [al EXCEPT !.thread = "starts", !.flushLock = AlFree]
             ELSE IF ~al.reopen THEN [al EXCEPT !.thread = "writes"]
             ELSE IF ok THEN [al EXCEPT !.reopen = FALSE, !.thread = "writes"]
             ELSE [al EXCEPT !.reopen = FALSE, !.fd = FALSE, !.failed = TRUE, !.thread = "starts", !.flushLock = AlFree]

\* Mutant: disk writes are not serialised with the other process.
alWriteSliceUnlocked(who, pc, next) ==
    al' = IF al.done < Len(al.aboutToWrite)
          THEN [al EXCEPT !.disk = Append(@, [of |-> "us", chunk |-> al.chunks + 1, data |-> al.aboutToWrite[al.done + 1]]),
                          !.done = @ + 1]
          ELSE [al EXCEPT !.buffered = @ - Len(al.aboutToWrite), !.aboutToWrite = << >>, !.done = 0, !.chunks = @ + 1,
                          !.flushLock = AlFree, ![pc] = next]

\* doWrite(): slice by slice under file_lock_.
alWriteSlice(who, pc, next) ==
    /\ al.fileLock \in {AlFree, who}
    /\ al' = IF al.done < Len(al.aboutToWrite)
             THEN [al EXCEPT !.disk = IF al.fd
                                      THEN Append(@, [of |-> "us", chunk |-> al.chunks + 1, data |-> al.aboutToWrite[al.done + 1]])
                                      ELSE @,
                             !.assert = @ \/ ~al.fd, !.done = @ + 1, !.fileLock = who]
             ELSE [al EXCEPT !.buffered = @ - Len(al.aboutToWrite), !.aboutToWrite = << >>, !.done = 0, !.chunks = @ + 1,
                             !.fileLock = AlFree, !.flushLock = AlFree, ![pc] = next]

AlThreadWrites == al.thread = "writes" /\ alWriteSlice("flush thread", "thread", "starts")

\* flush() is called, and takes write_lock_.
AlFlush ==
    /\ al.caller = "idle" /\ al.flushes < AlMaxFlushes /\ al.destructor = "none"
    /\ alHas("writeLock", AlFree)
    /\ al' = [al EXCEPT !.caller = "locks", !.flushes = @ + 1, !.writeLock = "caller", !.asked = al.writes]

\* Mutant: the buffer is looked at before flush_lock_ is held.
AlFlushMovesEarly ==
    /\ al.caller = "locks"
    /\ IF al.flushBuffer = << >> THEN al' = [al EXCEPT !.caller = "returned", !.writeLock = AlFree]
       ELSE alHas("flushLock", AlFree) /\ al' = alMove(al, "caller", "caller")

AlFlushMoves ==
    /\ al.caller = "locks" /\ alHas("flushLock", AlFree)
    /\ al' = IF al.flushBuffer = << >> THEN [al EXCEPT !.caller = "returned", !.writeLock = AlFree]
             ELSE alMove(al, "caller", "caller")

AlFlushWrites == al.caller = "moved" /\ alWriteSlice("caller", "caller", "returned")
AlFlushReturned == al.caller = "returned" /\ al' = [al EXCEPT !.caller = "idle"]

\* reopen(), from the admin page or a signal.
AlReopen ==
    /\ al.reopens < AlMaxReopens /\ al.destructor = "none"
    /\ al' = [al EXCEPT !.reopen = TRUE, !.reopens = @ + 1]

\* ~FileImpl(): the users are gone; the thread is told, joined, and what is left is written.
AlDestroy ==
    /\ al.destructor = "none" /\ al.caller = "idle" /\ alHas("writeLock", AlFree)
    /\ al' = [al EXCEPT !.destructor = "joins", !.exit = TRUE, !.thread = IF @ = "waits" THEN "starts" ELSE @]

AlJoin ==
    /\ al.destructor = "joins" /\ al.thread \in {"none", "gone"}
    /\ al' = IF ~al.fd THEN [al EXCEPT !.destructor = "gone"]
             ELSE [al EXCEPT !.destructor = "writes", !.aboutToWrite = @ \o al.flushBuffer, !.flushBuffer = << >>]

AlDestructorWrites == al.destructor = "writes" /\ alWriteSlice("destructor", "destructor", "gone")

\* The other process appends a chunk of its own to the file.
AlOther ==
    /\ al.fileLock \in {AlFree, "other"}
    /\ al.other < AlMaxOther \/ al.rest > 0
    /\ LET left == IF al.rest = 0 THEN AlChunk ELSE al.rest IN
       al' = [al EXCEPT !.other = IF al.rest = 0 THEN @ + 1 ELSE @, !.rest = left - 1,
                        !.fileLock = IF left = 1 THEN AlFree ELSE "other",
                        !.disk = Append(@, [of |-> "other", chunk |-> IF al.rest = 0 THEN al.other + 1 ELSE al.other, data |-> 0])]

AlNext ==
    \/ AlWrite \/ AlNotify \/ AlThreadLooks \/ AlThreadMoves \/ (\E ok \in BOOLEAN : AlThreadReopens(ok)) \/ AlThreadWrites
    \/ AlFlush \/ AlFlushMoves \/ AlFlushWrites \/ AlFlushReturned \/ AlReopen
    \/ AlDestroy \/ AlJoin \/ AlDestructorWrites \/ AlOther

AlSpec == AlInit /\ [][AlNext]_al

(***************************************************************************)
(* Properties                                                              *)
(***************************************************************************)
alOurs == LET us == SelectSeq(al.disk, LAMBDA e : e.of = "us") IN [i \in DOMAIN us |-> us[i].data]

\* Until a file could not be opened again, what workers wrote is on disk or in
\* one of the buffers, once and in order; flush() returns when all that was
\* written before it is on disk; a destroyed file has kept nothing back.
alComplete ==
    /\ ~al.failed => alOurs \o alRest \o al.flushBuffer = [i \in 1..al.writes |-> i]
    /\ ~al.failed /\ al.caller = "returned" => Len(alOurs) >= al.asked
    /\ ~al.failed /\ al.destructor = "gone" => Len(alOurs) = al.writes
    /\ al.buffered = Len(al.aboutToWrite) + Len(al.flushBuffer)

\* "so that we don't intermix chunks from different FileImpl"
alUnmixed ==
    \A i, j \in DOMAIN al.disk :
        i < j /\ al.disk[i].of = al.disk[j].of /\ al.disk[i].chunk = al.disk[j].chunk =>
            \A k \in i..j : al.disk[k].of = al.disk[i].of

\* The three locks never wait for each other in a circle: until the file is gone
\* and nobody writes, something can be done.
alNeverStuck == al.destructor = "gone" \/ ENABLED AlNext

\* The three together: what filesystem_impl.h promises of buffers and locks.
AlSound == alComplete /\ alUnmixed /\ alNeverStuck

\* doWrite() asserts that all of a slice was written: after a failed reopen a
\* flush() writes to descriptor -1.
AlWritesWhole == ~al.assert
=============================================================================
