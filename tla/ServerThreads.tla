------------------------------ MODULE ServerThreads -------------------------
(***************************************************************************)
(* What the server's threads share in two parts: thread local slots (Ts),  *)
(* then the guard dog that watches the threads (Gd).                       *)
(***************************************************************************)

(***************************************************************************)
(* Thread local slots (thread_local/thread_local_impl.cc): the main thread *)
(* allocates, sets and removes slots by posts to the workers; an index is  *)
(* used again.  A worker's data is cleared in reverse order when it shuts  *)
(* down.  An object may use objects of slots allocated before its own.     *)
(***************************************************************************)
EXTENDS Integers, Sequences, FiniteSets

CONSTANTS TsWorkers, TsMaxSlots, TsMaxOwners   \* bounds: indices, slots ever allocated

ASSUME TsAssumption == TsMaxSlots \in Nat /\ TsMaxOwners \in Nat /\ "main" \notin TsWorkers

VARIABLE ts

TsThreads == TsWorkers \cup {"main"}
TsNull == 0

\* slots: which owner has an index; data: a thread's objects, by owner; posts: what
\* the main thread posted to a worker, in order; index: an owner's; ran: TRUE
\* while no closure of an owner found another owner's object, or none.
TsInit ==
    ts = [slots |-> <<>>, index |-> [o \in 1..TsMaxOwners |-> 0], owners |-> 0, set |-> {},
          data |-> [t \in TsThreads |-> <<>>], posts |-> [w \in TsWorkers |-> <<>>],
          shutdown |-> FALSE, down |-> {}, ran |-> TRUE]

tsFreeIndices(p) == {i \in DOMAIN p.slots : p.slots[i] = TsNull}

\* allocateSlot(): the first free index, or a new one.
TsAllocate ==
    LET free == tsFreeIndices(ts)
        i == IF free = {} THEN Len(ts.slots) + 1 ELSE CHOOSE j \in free : \A k \in free : j <= k
        o == ts.owners + 1
    IN  /\ ~ts.shutdown /\ ts.owners < TsMaxOwners /\ i <= TsMaxSlots
        /\ ts' = [ts EXCEPT !.owners = o, !.index[o] = i,
                            !.slots = IF i > Len(@) THEN Append(@, o) ELSE [@ EXCEPT ![i] = o]]

tsLive == {ts.slots[i] : i \in DOMAIN ts.slots} \ {TsNull}

\* setThreadLocal()
tsSetThreadLocal(d, i, o) ==
    [k \in 1..(IF Len(d) < i THEN i ELSE Len(d)) |-> IF k = i THEN o ELSE IF k <= Len(d) THEN d[k] ELSE TsNull]

\* The closure of removeSlot().
tsClear(d, i) == IF i <= Len(d) THEN [d EXCEPT ![i] = TsNull] ELSE d

\* runOnAllThreads(): to the workers by posts, here at once.
tsPost(m) == [w \in TsWorkers |-> Append(ts.posts[w], m)]

TsSet(o) ==
    /\ ~ts.shutdown /\ o \in tsLive \ ts.set
    /\ ts' = [ts EXCEPT !.set = @ \cup {o}, !.posts = tsPost([type |-> "set", index |-> ts.index[o], owner |-> o]),
                        !.data["main"] = tsSetThreadLocal(@, ts.index[o], o)]

\* Mutant: workers are not told.
tsRemovalPostsNone(o) == ts.posts

\* removeSlot() on the workers.
tsRemovalPosts(o) == tsPost([type |-> "clear", index |-> ts.index[o], owner |-> o])

TsRemove(o) ==
    /\ ~ts.shutdown /\ o \in tsLive
    /\ ts' = [ts EXCEPT !.slots[ts.index[o]] = TsNull,
                        !.posts = tsRemovalPosts(o),
                        !.data["main"] = tsClear(@, ts.index[o])]

\* A closure that uses the slot, posted by its owner after set().
TsUse(o) ==
    /\ ~ts.shutdown /\ o \in tsLive \cap ts.set /\ \A w \in TsWorkers : Len(ts.posts[w]) < TsMaxOwners
    /\ ts' = [ts EXCEPT !.posts = tsPost([type |-> "use", index |-> ts.index[o], owner |-> o])]

\* A worker runs the next closure.
TsRun(w) ==
    /\ w \notin ts.down /\ ts.posts[w] # <<>>
    /\ LET m == Head(ts.posts[w])
           d == ts.data[w]
       IN  ts' = [ts EXCEPT !.posts[w] = Tail(@),
                            !.data[w] = CASE m.type = "set" -> tsSetThreadLocal(d, m.index, m.owner)
                                          [] m.type = "clear" -> tsClear(d, m.index)
                                          [] m.type = "use" -> d,
                            !.ran = @ /\ (m.type = "use" => Len(d) >= m.index /\ d[m.index] = m.owner)]

\* shutdownGlobalThreading(), and then each thread's shutdownThread().
TsShutdown ==
    /\ ~ts.shutdown
    /\ ts' = [ts EXCEPT !.shutdown = TRUE]

TsShutdownThread(t) ==
    /\ ts.shutdown /\ t \notin ts.down
    /\ ts' = [ts EXCEPT !.down = @ \cup {t}, !.data[t] = <<>>]

TsNext ==
    \/ TsAllocate \/ TsShutdown
    \/ \E o \in 1..TsMaxOwners : TsSet(o) \/ TsRemove(o) \/ TsUse(o)
    \/ \E w \in TsWorkers : TsRun(w)
    \/ \E t \in TsThreads : TsShutdownThread(t)

TsSpec == TsInit /\ [][TsNext]_ts /\ \A w \in TsWorkers : WF_ts(TsRun(w))

----------------------------------------------------------------------------
(***************************************************************************)
(* Properties.                                                             *)
(***************************************************************************)

\* A closure posted after set() finds its owner's object, though the index was another
\* slot's before; two live slots never share an index; once a worker has run all it was
\* posted it holds the objects of live slots only, as the main thread does.
TsSound ==
    /\ ts.ran
    /\ \A o1, o2 \in tsLive : ts.index[o1] = ts.index[o2] => o1 = o2
    /\ \A t \in TsThreads :
          t \notin ts.down /\ (t \in TsWorkers => ts.posts[t] = <<>>) =>
             \A i \in DOMAIN ts.data[t] : ts.data[t][i] \in (tsLive \cap ts.set) \cup {TsNull}

-----------------------------------------------------------------------------
(***************************************************************************)
(* The guard dog (server/guarddog_impl.cc, watchdog_impl.cc): a thread     *)
(* reads when each watched thread last touched its watchdog, counts misses *)
(* and mega misses, and ends the process for threads that are stuck.       *)
(***************************************************************************)

CONSTANTS GdThreads, GdMiss, GdMegaMiss, GdKill, GdMultiKill,  \* 0: not enabled
          GdMaxTime   \* bound: the clock

ASSUME GdAssumption == {GdMiss, GdMegaMiss, GdKill, GdMultiKill, GdMaxTime} \subseteq Nat

VARIABLE gd

GdNone == -1

\* loop_interval_, and the interval of a watchdog's timer.
gdMin(a, b) == IF a < b THEN a ELSE b
gdLoopInterval ==
    LET nonfatal == gdMin(GdMiss, GdMegaMiss)
    IN  gdMin(gdMin(IF GdKill > 0 THEN GdKill ELSE nonfatal, IF GdMultiKill > 0 THEN GdMultiKill ELSE nonfatal), nonfatal)

GdDog == [watched |-> FALSE, touched |-> 0, alert |-> GdNone, missAlerted |-> FALSE, megaAlerted |-> FALSE, stuck |-> FALSE]

\* now: the time the guard dog has read and not used yet, last: the one it used last;
\* misses, megas: how often a thread was alerted since its last touch.
GdInit ==
    gd = [time |-> 0, dog |-> [t \in GdThreads |-> GdDog], now |-> GdNone, last |-> 0,
          misses |-> [t \in GdThreads |-> 0], megas |-> [t \in GdThreads |-> 0], panic |-> {}]

gdTouched(g, t) == [g EXCEPT !.dog[t].touched = g.time, !.misses[t] = 0, !.megas[t] = 0]

----------------------------------------------------------------------------
\* createWatchDog(), stopWatching()
GdCreateWatchDog(t) ==
    /\ ~gd.dog[t].watched
    /\ gd' = gdTouched([gd EXCEPT !.dog[t] = [GdDog EXCEPT !.watched = TRUE]], t)

GdStopWatching(t) ==
    /\ gd.dog[t].watched
    /\ gd' = [gd EXCEPT !.dog[t].watched = FALSE]

\* WatchDogImpl's timer: a thread whose loop runs touches.
GdTouch(t) ==
    /\ gd.dog[t].watched /\ ~gd.dog[t].stuck /\ gd.dog[t].touched # gd.time
    /\ gd' = gdTouched(gd, t)

\* A handler that does not return; or it does at last.
GdStuck(t) ==
    /\ gd.dog[t].watched
    /\ gd' = [gd EXCEPT !.dog[t].stuck = ~@]

\* Time passes: threads that are not stuck touch at half the interval, and the guard
\* dog looks once in it.
GdTick ==
    /\ gd.time < GdMaxTime /\ gd.time - gd.last < gdLoopInterval
    /\ \A t \in GdThreads : LET d == gd.dog[t] IN d.watched /\ ~d.stuck => 2 * (gd.time - d.touched) < gdLoopInterval
    /\ gd' = [gd EXCEPT !.time = @ + 1]

\* threadRoutine(): the time is read before the lock is taken.
GdReadTime ==
    /\ gd.now = GdNone /\ gd.panic = {}
    /\ gd' = [gd EXCEPT !.now = gd.time]

\* Mutant: alerts are never rearmed.
gdRearmNever(d) == d

\* A touch after the last alert rearms it.
gdRearm(d) ==
    IF d.alert # GdNone /\ d.alert < d.touched THEN [d EXCEPT !.missAlerted = FALSE, !.megaAlerted = FALSE] ELSE d

gdAlert(d, delta) ==
    LET miss == IF delta > GdMiss /\ ~d.missAlerted THEN [d EXCEPT !.alert = d.touched, !.missAlerted = TRUE] ELSE d
    IN  IF delta > GdMegaMiss /\ ~d.megaAlerted THEN [miss EXCEPT !.alert = d.touched, !.megaAlerted = TRUE] ELSE miss

GdCheck ==
    LET watched == {t \in GdThreads : gd.dog[t].watched}
        delta(t) == gd.now - gd.dog[t].touched
        before(t) == gdRearm(gd.dog[t])
        after(t) == gdAlert(before(t), delta(t))
        new(kind, c) == [t \in GdThreads |-> c[t] + IF t \in watched /\ after(t)[kind] /\ ~before(t)[kind] THEN 1 ELSE 0]
        killed == {t \in watched : GdKill > 0 /\ delta(t) > GdKill}
        multi == {t \in watched : GdMultiKill > 0 /\ delta(t) > GdMultiKill}
    IN  /\ gd.now # GdNone
        /\ gd' = [gd EXCEPT !.now = GdNone, !.last = gd.now,
                            !.dog = [t \in GdThreads |-> IF t \in watched THEN after(t) ELSE gd.dog[t]],
                            !.misses = new("missAlerted", @), !.megas = new("megaAlerted", @),
                            !.panic = IF killed # {} THEN killed ELSE IF Cardinality(multi) > 1 THEN multi ELSE {}]

GdNext ==
    /\ gd.panic = {}
    /\ \/ GdTick \/ GdReadTime \/ GdCheck
       \/ \E t \in GdThreads : GdCreateWatchDog(t) \/ GdStopWatching(t) \/ GdTouch(t) \/ GdStuck(t)

GdSpec == GdInit /\ [][GdNext]_gd /\ WF_gd(GdReadTime \/ GdCheck)

----------------------------------------------------------------------------
(***************************************************************************)
(* Properties.                                                             *)
(***************************************************************************)

\* A thread that is silent is alerted once for each kind, and of the longer silence not
\* before the shorter; the process ends only for a
\* thread that was silent too long at the time of the check, never for one that
\* touches in time; and what the guard dog saw silent it alerted: a thread that stalls
\* again after it recovered is counted again.
GdSound ==
    /\ \A t \in GdThreads : gd.misses[t] <= 1 /\ gd.megas[t] <= IF GdMiss <= GdMegaMiss THEN gd.misses[t] ELSE 1
    /\ \A t \in gd.panic : gd.time - gd.dog[t].touched > (IF GdKill > 0 THEN gdMin(GdKill, GdMultiKill) ELSE GdMultiKill)
    /\ \A t \in GdThreads :
          LET d == gd.dog[t]
          IN  d.watched /\ gd.last - d.touched > GdMiss
                 => d.missAlerted /\ (gd.last - d.touched > GdMegaMiss => d.megaAlerted)
=============================================================================
