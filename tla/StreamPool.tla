----------------------------- MODULE StreamPool -----------------------------
(***************************************************************************)
(* What a connection pool promises to the code that asks it for streams    *)
(* (include/envoy/http/conn_pool.h): every request is served, refused or   *)
(* cancelled, and exactly one of these; requests that have to wait are     *)
(* served in the order they came, and none overtakes a waiting one; a pool *)
(* that is asked to drain says so once, when nothing waits or runs.        *)
(* The two pools of HttpConnPools implement it.                            *)
(***************************************************************************)
EXTENDS Naturals, Sequences

CONSTANT Streams

VARIABLES
    phase,    \* per stream: new, waiting, served, ended, failed or cancelled
    waiting,  \* the streams that wait, oldest first
    drain     \* no, asked or done

vars == <<phase, waiting, drain>>

In(p) == {s \in Streams : phase[s] = p}
Elements(q) == {q[i] : i \in DOMAIN q}

Init ==
    /\ phase = [s \in Streams |-> "new"]
    /\ waiting = <<>>
    /\ drain = "no"

\* Any step may also be the one after which a draining pool is empty.
MayDrain ==
    \/ drain' = drain
    \/ /\ drain = "asked" /\ drain' = "done" /\ waiting' = <<>>
       /\ \A s \in Streams : phase'[s] # "served"

\* A stream is asked for: refused, served at once if nothing waits, or queued.
\* To make room for a connection the pool may end streams of an old one.
Ask(s, ended) ==
    /\ phase[s] = "new" /\ drain = "no" /\ UNCHANGED drain
    /\ \E outcome \in {"failed", "served", "waiting"} :
          /\ outcome = "served" => waiting = <<>>
          /\ phase' = [x \in Streams |->
                          IF x = s THEN outcome ELSE IF x \in ended THEN "ended" ELSE phase[x]]
          /\ waiting' = IF outcome = "waiting" THEN Append(waiting, s) ELSE waiting

\* Streams end, and the oldest of those that wait may take their place.
Proceed(ended, k) ==
    /\ phase' = [s \in Streams |->
                    IF s \in ended THEN "ended"
                    ELSE IF s \in Elements(SubSeq(waiting, 1, k)) THEN "served" ELSE phase[s]]
    /\ waiting' = SubSeq(waiting, k + 1, Len(waiting))
    /\ MayDrain

\* Everything that waits fails; the one who is told may ask again, for a
\* stream that is not failed with the others.
Purge(again) ==
    /\ phase' = [s \in Streams |->
                    IF s \in Elements(waiting) THEN "failed"
                    ELSE IF s \in again THEN "waiting" ELSE phase[s]]
    /\ \E q \in [1..(IF again = {} THEN 0 ELSE 1) -> again] : waiting' = q
    /\ \A s \in again : phase[s] = "new" /\ drain = "no"
    /\ MayDrain

Cancel(s) ==
    /\ phase[s] = "waiting"
    /\ phase' = [phase EXCEPT ![s] = "cancelled"]
    /\ \E k \in DOMAIN waiting :
          /\ waiting[k] = s
          /\ waiting' = SubSeq(waiting, 1, k - 1) \o SubSeq(waiting, k + 1, Len(waiting))
    /\ MayDrain

\* The pool is asked to drain, which it may have done at once.
Drain ==
    /\ drain = "no" /\ UNCHANGED <<phase, waiting>>
    /\ \/ drain' = "asked"
       \/ drain' = "done" /\ waiting = <<>> /\ In("served") = {}

Next ==
    \/ \E s \in Streams : Cancel(s)
    \/ \E ended \in SUBSET In("served") :
          \/ \E s \in Streams : Ask(s, ended)
          \/ \E k \in 0..Len(waiting) : Proceed(ended, k)
    \/ \E again \in {{}} \cup {{s} : s \in Streams} : Purge(again)
    \/ Drain

Safety == Init /\ [][Next]_vars
=============================================================================
