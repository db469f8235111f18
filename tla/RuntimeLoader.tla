------------------------------ MODULE RuntimeLoader -------------------------
(***************************************************************************)
(* Runtime values in two parts: what a snapshot answers, then how          *)
(* snapshots are loaded from disk and published (Rn).                      *)
(***************************************************************************)

(* common/runtime/runtime_impl.cc, .h: what a snapshot answers.  A snapshot *)
(* is a function from the keys of its files to what the files hold.         *)
EXTENDS Integers, Sequences, FiniteSets

CONSTANT RnBuckets     \* buckets of featureEnabled(), 100 in the code

ASSUME RnBucketsAssumption == RnBuckets \in Nat \ {0}

\* What a file holds: a number, nothing, or text.  fileReadToEnd(), rtrim() and
\* atoul() make a number of the first only: an empty string is refused.
RnNothing == -1
RnText == -2
rnIsNumber(content) == content \in Nat

RnEmpty == [k \in {} |-> 0]

rnMin(a, b) == IF a < b THEN a ELSE b

\* Mutant: an empty file counts as 0.
rnGetIntegerZero(snapshot, key, default) ==
    IF key \in DOMAIN snapshot /\ snapshot[key] # RnText
    THEN IF snapshot[key] = RnNothing THEN 0 ELSE snapshot[key] ELSE default

\* SnapshotImpl::getInteger()
rnGetInteger(snapshot, key, default) ==
    IF key \in DOMAIN snapshot /\ rnIsNumber(snapshot[key]) THEN snapshot[key] ELSE default

\* featureEnabled() for a random value.
rnFeatureEnabled(snapshot, key, default, random) ==
    random % RnBuckets < rnMin(rnGetInteger(snapshot, key, default), RnBuckets)

-----------------------------------------------------------------------------
(* common/runtime/runtime_impl.cc: the runtime is read from a directory     *)
(* tree, with an override tree on top, whenever a symbolic link is swapped; *)
(* the snapshot is posted to the workers.  And the random generator, which  *)
(* hands out bytes it has fetched beforehand.                               *)

CONSTANTS RnTrees,     \* trees on disk: [base, override], file by file; no override directory is an empty one
          RnMaxSwaps,  \* bound: swaps of the link
          RnPrefetch,  \* bytes fetched at once
          RnTake       \* bytes a call takes

ASSUME RnConstants == RnMaxSwaps \in Nat /\ RnTake \in 1..RnPrefetch

VARIABLE rn

\* walkDirectory(): entries come in any order, so those read before one that
\* cannot be read are any of them.
rnWalk(values, layer, read) ==
    [k \in DOMAIN values \cup read |-> IF k \in read THEN layer[k] ELSE values[k]]

\* Mutant: the override tree is read first.
rnSnapshotBelow(tree, fails, read) ==
    rnWalk(rnWalk(RnEmpty, tree.override, DOMAIN tree.override), tree.base, DOMAIN tree.base)

\* SnapshotImpl(): an exception ends the walk; what was read is kept.
rnSnapshot(tree, fails, read) ==
    IF fails = "base" THEN rnWalk(RnEmpty, tree.base, read)
    ELSE rnWalk(rnWalk(RnEmpty, tree.base, DOMAIN tree.base), tree.override,
                IF fails = "override" THEN read ELSE DOMAIN tree.override)

rnLoad(p, tree, fails, read) ==
    LET s == [id |-> p.swaps + 1, values |-> rnSnapshot(tree, fails, read), of |-> tree, whole |-> fails = "no"]
    IN [p EXCEPT !.swaps = @ + 1, !.main = s, !.posts = Append(@, s),
                 !.errors = @ + (IF fails = "no" THEN 0 ELSE 1), !.loads = @ + (IF fails = "no" THEN 1 ELSE 0)]

\* LoaderImpl(): the first snapshot is loaded before there are workers.
rnFirst(tree) ==
    LET none == [swaps |-> 0, main |-> RnEmpty, worker |-> RnEmpty, posts |-> << >>, errors |-> 0, loads |-> 0,
                 index |-> RnPrefetch, fetched |-> 0, used |-> {}, twice |-> FALSE]
        loaded == rnLoad(none, tree, "no", {})
    IN [loaded EXCEPT !.worker = loaded.main, !.posts = << >>]

RnInit == \E tree \in RnTrees : rn = rnFirst(tree)

\* onSymlinkSwap()
RnSwap ==
    /\ rn.swaps < RnMaxSwaps
    /\ \E tree \in RnTrees, fails \in {"no", "base", "override"} :
          LET layer == IF fails = "base" THEN tree.base ELSE tree.override IN
          \E read \in IF fails = "no" THEN {{}} ELSE SUBSET DOMAIN layer \ {DOMAIN layer} :
             rn' = rnLoad(rn, tree, fails, read)

\* tls_->set() is run on a worker.
RnWorker ==
    /\ rn.posts # << >>
    /\ rn' = [rn EXCEPT !.worker = Head(rn.posts), !.posts = Tail(@)]

\* Mutant: the last bytes of the buffer are used although they do not suffice.
rnRefillLate(index) == index >= RnPrefetch

\* random() and uuid(): the buffer is filled again when it has too few bytes left.
rnRefill(index) == index + RnTake > RnPrefetch

RnRandom ==
    /\ rn.fetched < RnMaxSwaps \/ ~rnRefill(rn.index)
    /\ LET at == IF rnRefill(rn.index) THEN 0 ELSE rn.index
           fill == IF rnRefill(rn.index) THEN rn.fetched + 1 ELSE rn.fetched
           taken == {<<fill, i>> : i \in at..(at + RnTake - 1)}
       IN rn' = [rn EXCEPT !.index = at + RnTake, !.fetched = fill,
                           !.twice = @ \/ rn.used \cap taken # {},
                           !.used = IF rnRefill(rn.index) THEN taken ELSE @ \cup taken]

\* uuid(): where the two digits of byte i go.
rnUuidDigit(i) == 2 * i + Cardinality({k \in {4, 6, 8, 10} : k <= i})
RnUuidDashes == {8, 13, 18, 23}

RnNext == RnSwap \/ RnWorker \/ RnRandom

RnSpec == RnInit /\ [][RnNext]_rn

(***************************************************************************)
(* Properties                                                              *)
(***************************************************************************)
\* What the trees say: the override tree wins, file by file; a file that is no
\* number leaves the default.
rnExpected(tree, key, default) ==
    LET file == IF key \in DOMAIN tree.override THEN tree.override[key]
                ELSE IF key \in DOMAIN tree.base THEN tree.base[key] ELSE RnNothing
    IN IF file \in Nat THEN file ELSE default

rnKeys == UNION {DOMAIN t.base \cup DOMAIN t.override : t \in RnTrees}

\* A worker's snapshot is one of the main thread's, never newer and never older
\* than one it had; when the last load did not fail, workers that have run their
\* posts see the tree; a feature is enabled for exactly its share of the buckets;
\* no random byte is handed out twice and none from outside the buffer; the 36
\* characters of a UUID are each written once.
RnSound ==
    /\ rn.worker.id <= rn.main.id
    /\ \A i \in DOMAIN rn.posts : rn.posts[i].id > rn.worker.id
    /\ rn.posts = << >> => rn.worker = rn.main
    /\ rn.worker.whole => \A k \in rnKeys, d \in 0..RnBuckets :
          /\ rnGetInteger(rn.worker.values, k, d) = rnExpected(rn.worker.of, k, d)
          /\ Cardinality({r \in 0..(RnBuckets - 1) : rnFeatureEnabled(rn.worker.values, k, d, r)})
                = rnMin(rnExpected(rn.worker.of, k, d), RnBuckets)
    /\ rn.errors + rn.loads = rn.swaps
    /\ ~rn.twice /\ \A u \in rn.used : u[2] < RnPrefetch
    /\ LET digits == {rnUuidDigit(i) : i \in 0..15} \cup {rnUuidDigit(i) + 1 : i \in 0..15}
       IN digits \cap RnUuidDashes = {} /\ digits \cup RnUuidDashes = 0..35

\* A tree that cannot be read leaves the runtime as it was.
RnAllOrNothing == rn.worker.whole
=============================================================================
