----------------------------- MODULE LogRecord -----------------------------
(***************************************************************************)
(* What the logs daemon computes for one hour (logs/app/watch.js): every   *)
(* line of the access logs is counted into a record, one after the other,  *)
(* in an order that depends on which file is read first.                   *)
(*                                                                         *)
(* A line is its response code, its duration and its upstream time, which  *)
(* Envoy writes as "-" (NaN here) for a request that was never sent on,    *)
(* as the ones it answers with 429.  parseInt() may give NaN for the       *)
(* duration too, of a line that is not split as the code expects.  An      *)
(* average is the pair of numbers that the code divides; <<0, 0>> is null. *)
(***************************************************************************)
EXTENDS Integers, Sequences, FiniteSets

CONSTANTS Codes, Durations, UpstreamTimes,  \* what the logs can hold
          NaN,
          MaxRecordLines                          \* bound: lines of the hour

ASSUME RecordAssumption ==
    /\ Codes \subseteq Nat /\ Durations \subseteq Nat /\ UpstreamTimes \subseteq Nat
    /\ NaN \notin Nat /\ MaxRecordLines \in Nat

VARIABLES record, lines
recordVars == <<record, lines>>

Lines == [code : Codes, duration : Durations \cup {NaN}, upstreamTime : UpstreamTimes \cup {NaN}]

\* Mutant: a 429 is counted with the other 4xx.
QtyOfNo429(code) ==
    IF code \in 200..299 THEN "okQty"
    ELSE IF code \in 400..499 THEN "notfoundQty" ELSE "errorQty"

\* Which of the four quantities a line is counted in.
QtyOf(code) ==
    IF code \in 200..299 THEN "okQty"
    ELSE IF code = 429 THEN "ratelimitQty"
    ELSE IF code \in 400..499 THEN "notfoundQty"
    ELSE "errorQty"

\* getEmptyRecord()
RecordInit ==
    /\ record = [totalQty |-> 0, okQty |-> 0, ratelimitQty |-> 0, notfoundQty |-> 0, errorQty |-> 0,
                 durationTotal |-> 0, durationAvg |-> <<0, 0>>,
                 latencyTotal |-> 0, latencyAvg |-> <<0, 0>>]
    /\ lines = <<>>

\* Mutant: the average is taken before the line is counted.
DurationAvgBefore(r) == <<r.durationTotal, r.totalQty - 1>>

DurationAvg(r) == <<r.durationTotal, r.totalQty>>

\* Mutant: every line stands for one in the divisor, timed or not, but the
\* line at hand is not counted yet.
WithLatencyBefore(r, line) ==
    IF line.upstreamTime = NaN THEN r
    ELSE LET total == r.latencyTotal + line.duration - line.upstreamTime
         IN  [r EXCEPT !.latencyTotal = total, !.latencyAvg = <<total, r.totalQty - 1>>]

\* Only a line with an upstream time updates the latency.
WithLatency(r, line) ==
    IF line.upstreamTime = NaN THEN r
    ELSE LET total == r.latencyTotal + line.duration - line.upstreamTime
         IN  [r EXCEPT !.latencyTotal = total, !.latencyAvg = <<total, r.totalQty>>]

\* Only a line with a duration updates the averages, the latency's included.
WithDuration(r, line) ==
    IF line.duration = NaN THEN r
    ELSE LET r1 == [r EXCEPT !.durationTotal = @ + line.duration]
         IN  WithLatency([r1 EXCEPT !.durationAvg = DurationAvg(r1)], line)

\* The turn of the loop over the lines of a file.
WithLine(r, line) ==
    LET r0 == [r EXCEPT !.totalQty = @ + 1]
        r1 == [r0 EXCEPT ![QtyOf(line.code)] = @ + 1]
    IN  WithDuration(r1, line)

\* What Envoy writes: the upstream time is part of the duration, and a response
\* that is ok has come from the upstream.
CountLine(line) ==
    /\ Len(lines) < MaxRecordLines
    /\ NaN \notin {line.duration, line.upstreamTime} => line.upstreamTime <= line.duration
    /\ (line.duration # NaN /\ line.upstreamTime = NaN) => line.code \notin 200..299
    /\ record' = WithLine(record, line)
    /\ lines' = Append(lines, line)

RecordNext == \E line \in Lines : CountLine(line)

RecordSpec == RecordInit /\ [][RecordNext]_recordVars

----------------------------------------------------------------------------
(***************************************************************************)
(* Properties.                                                             *)
(***************************************************************************)

Having(P(_)) == {n \in DOMAIN lines : P(lines[n])}
\* The sum of the numbers of q, as a function of how many are added.
TotalOf(q) ==
    LET upTo[n \in 0..Len(q)] == IF n = 0 THEN 0 ELSE upTo[n - 1] + q[n]
    IN  upTo[Len(q)]

\* README.md:141, "contando": every line is in exactly one of the quantities,
\* the one for its response.
CountsExact ==
    /\ record.totalQty = Len(lines)
    /\ record.okQty = Cardinality(Having(LAMBDA l : l.code \div 100 = 2))
    /\ record.ratelimitQty = Cardinality(Having(LAMBDA l : l.code = 429))
    /\ record.notfoundQty = Cardinality(Having(LAMBDA l : l.code \div 100 = 4 /\ l.code # 429))
    /\ record.errorQty = Cardinality(Having(LAMBDA l : l.code \div 100 \notin {2, 4}))

\* README.md:141, "promediando por hora": durationAvg divides the duration of
\* the lines that have one by the number of all lines up to the last of those.
\* It is the average duration of the lines of the hour, in whatever order they
\* were counted, when every line has one; a line without lowers it at most to
\* the duration spread over all lines.
DurationAverageExact ==
    LET measured == Having(LAMBDA l : l.duration # NaN)
        duration(l) == IF l.duration = NaN THEN 0 ELSE l.duration
    IN  /\ record.durationAvg[1] = TotalOf([n \in DOMAIN lines |-> duration(lines[n])])
        /\ record.durationAvg[2] \in Cardinality(measured)..Len(lines)
        /\ measured = DOMAIN lines => record.durationAvg[2] = Len(lines)

\* latencyAvg does the same with the lines that have an upstream time as well:
\* it is at most the average latency of the timed lines and at least their
\* latency spread over all lines of the hour, in whatever order they were
\* counted.
LatencyAverageBounded ==
    LET timed == Having(LAMBDA l : l.duration # NaN /\ l.upstreamTime # NaN)
        latency(l) == IF l.duration = NaN \/ l.upstreamTime = NaN THEN 0 ELSE l.duration - l.upstreamTime
    IN  /\ record.latencyAvg[1] = TotalOf([n \in DOMAIN lines |-> latency(lines[n])])
        /\ record.latencyAvg[2] \in Cardinality(timed)..Len(lines)

\* The documents the dashboard shows are what README.md:141 says of them, as
\* far as the code keeps it.
RecordExact == CountsExact /\ DurationAverageExact /\ LatencyAverageBounded
=============================================================================
