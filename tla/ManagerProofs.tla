--------------------------- MODULE ManagerProofs ---------------------------
(***************************************************************************)
(* Proofs about HostHealth, ClusterHosts, ClusterManager and               *)
(* ListenerManager: for any number of hosts, addresses, clusters,          *)
(* listeners and workers, any thresholds and any length of the queues.     *)
(***************************************************************************)
EXTENDS HostHealth, ClusterManager, ClusterHosts, ListenerManager, TLAPS, FiniteSetTheorems, WellFoundedInduction

(***************************************************************************)
(* The health checker.  HcSound is not inductive: that a host turns        *)
(* healthy only after enough successes in a row needs num_healthy_ to be   *)
(* no more than the successes since the last failure, and that a session   *)
(* waits for one thing needs the sessions of hosts that left to be gone.   *)
(***************************************************************************)

HcSession == [timers : SUBSET {"interval", "timeout"}, client : BOOLEAN, request : BOOLEAN,
              expectReset : BOOLEAN, first : BOOLEAN, good : Nat, bad : Nat, row : Nat]
HcFlags == [HcHosts -> BOOLEAN]
HcSessions == [HcHosts -> HcSession]
HcState == [kind : HcKinds, member : HcFlags, failed : HcFlags, session : HcSessions, healthy : Int,
            posted : SUBSET HcHosts, alive : BOOLEAN, early : BOOLEAN]

\* A host with its session: m and f are its membership and its flag.
HcCountersOK(m, f, s) ==
    /\ s.good <= s.row /\ s.row <= HcHealthy
    /\ f => s.good < HcHealthy
    /\ m /\ ~f => s.bad < HcUnhealthy

HcHostOK(m, f, s) ==
    /\ s.timers = (IF ~m THEN {} ELSE IF s.request THEN {"timeout"} ELSE {"interval"})
    /\ s.request => s.client
    /\ s.client => m /\ ~s.expectReset
    /\ HcCountersOK(m, f, s)

HcGood == {h \in HcHosts : hc.member[h] /\ ~hc.failed[h]}

HcInv ==
    /\ hc \in HcState
    /\ \A h \in HcHosts : HcHostOK(hc.member[h], hc.failed[h], hc.session[h])
    /\ hc.healthy = Cardinality(HcGood)
    /\ ~hc.early

HcOne(b) == IF b THEN 1 ELSE 0

\* p is hc but for the host h, whose membership, flag and session are m, f and s, and
\* for the gauge, which is n.
HcAt(p, h, m, f, s, n) ==
    /\ p \in HcState /\ ~p.early
    /\ p.member = [hc.member EXCEPT ![h] = m]
    /\ p.failed = [hc.failed EXCEPT ![h] = f]
    /\ p.session = [hc.session EXCEPT ![h] = s]
    /\ p.healthy = n

\* A step that touches one host only.
LEMMA HcHostStep ==
    ASSUME HcInv, NEW h \in HcHosts, NEW m \in BOOLEAN, NEW f \in BOOLEAN, NEW s \in HcSession, NEW n \in Int,
           HcAt(hc', h, m, f, s, n), HcHostOK(m, f, s),
           n = hc.healthy + HcOne(m /\ ~f) - HcOne(hc.member[h] /\ ~hc.failed[h])
    PROVE  HcInv'
<1>. DEFINE is == m /\ ~f
            was == hc.member[h] /\ ~hc.failed[h]
<1>1. hc.member \in HcFlags /\ hc.failed \in HcFlags /\ hc.session \in HcSessions
  BY DEF HcInv, HcState
<1>0. /\ hc' \in HcState /\ ~hc'.early
      /\ hc'.healthy = hc.healthy + HcOne(is) - HcOne(was)
  BY DEF HcAt
<1>2. /\ hc'.member[h] = m /\ hc'.failed[h] = f /\ hc'.session[h] = s
      /\ \A g \in HcHosts : g # h => /\ hc'.member[g] = hc.member[g] /\ hc'.failed[g] = hc.failed[g]
                                     /\ hc'.session[g] = hc.session[g]
  BY <1>1 DEF HcFlags, HcSessions, HcAt
<1>3. \A g \in HcHosts : HcHostOK(hc'.member[g], hc'.failed[g], hc'.session[g])
  BY <1>2 DEF HcInv
<1>4. IsFiniteSet(HcGood) /\ Cardinality(HcGood) \in Nat
  BY HcAssumption, FS_Subset, FS_CardinalityType DEF HcGood
<1>5. CASE is /\ was
  <2>1. HcGood' = HcGood
    BY <1>2, <1>5 DEF HcGood
  <2>2. HcOne(is) = 1 /\ HcOne(was) = 1
    BY <1>5 DEF HcOne
  <2>. QED
    BY <2>1, <2>2, <1>0, <1>3, <1>4 DEF HcInv
<1>6. CASE ~is /\ ~was
  <2>1. HcGood' = HcGood
    BY <1>2, <1>6 DEF HcGood
  <2>. QED
    BY <2>1, <1>0, <1>3, <1>4, <1>6 DEF HcInv, HcOne
<1>7. CASE is /\ ~was
  <2>1. HcGood' = HcGood \cup {h} /\ h \notin HcGood
    BY <1>2, <1>7 DEF HcGood
  <2>2. Cardinality(HcGood') = Cardinality(HcGood) + 1
    BY <2>1, <1>4, FS_AddElement
  <2>3. HcOne(is) = 1 /\ HcOne(was) = 0
    BY <1>7 DEF HcOne
  <2>. QED
    BY <2>2, <2>3, <1>0, <1>3, <1>4 DEF HcInv
<1>8. CASE ~is /\ was
  <2>1. HcGood' = HcGood \ {h} /\ h \in HcGood
    BY <1>2, <1>8 DEF HcGood
  <2>2. Cardinality(HcGood') = Cardinality(HcGood) - 1
    BY <2>1, <1>4, FS_RemoveElement
  <2>3. HcOne(is) = 0 /\ HcOne(was) = 1
    BY <1>8 DEF HcOne
  <2>. QED
    BY <2>2, <2>3, <1>0, <1>3, <1>4 DEF HcInv
<1>. QED
  BY <1>5, <1>6, <1>7, <1>8

LEMMA HcInitInv == HcInit => HcInv
<1>. SUFFICES ASSUME HcInit PROVE HcInv
  OBVIOUS
<1>1. HcNoSession \in HcSession
  BY DEF HcNoSession, HcSession
<1>2. hc \in HcState
  BY <1>1 DEF HcInit, HcState, HcFlags, HcSessions
<1>3. \A h \in HcHosts : hc.member[h] = FALSE /\ hc.failed[h] = TRUE /\ hc.session[h] = HcNoSession
  BY DEF HcInit
<1>4. HcHostOK(FALSE, TRUE, HcNoSession)
  BY HcAssumption DEF HcHostOK, HcCountersOK, HcNoSession
<1>5. HcGood = {} /\ hc.healthy = 0 /\ ~hc.early
  BY <1>3 DEF HcGood, HcInit
<1>. QED
  BY <1>2, <1>3, <1>4, <1>5, FS_EmptySet DEF HcInv

LEMMA HcTypes ==
    ASSUME NEW p \in HcState, NEW h \in HcHosts
    PROVE  /\ p.member[h] \in BOOLEAN /\ p.failed[h] \in BOOLEAN /\ p.session[h] \in HcSession
           /\ p.healthy \in Int /\ p.alive \in BOOLEAN
           /\ p.session[h].timers \subseteq {"interval", "timeout"}
           /\ p.session[h].good \in Nat /\ p.session[h].bad \in Nat /\ p.session[h].row \in Nat
           /\ p.session[h].client \in BOOLEAN /\ p.session[h].request \in BOOLEAN
           /\ p.session[h].expectReset \in BOOLEAN /\ p.session[h].first \in BOOLEAN
<1>1. p.member \in HcFlags /\ p.failed \in HcFlags /\ p.session \in HcSessions /\ p.healthy \in Int /\ p.alive \in BOOLEAN
  BY DEF HcState
<1>2. p.member[h] \in BOOLEAN /\ p.failed[h] \in BOOLEAN /\ p.session[h] \in HcSession
  BY <1>1 DEF HcFlags, HcSessions
<1>. QED
  BY <1>1, <1>2 DEF HcSession

LEMMA HcAtSelf ==
    ASSUME HcInv, NEW h \in HcHosts
    PROVE  HcAt(hc, h, hc.member[h], hc.failed[h], hc.session[h], hc.healthy)
<1>1. hc.member \in HcFlags /\ hc.failed \in HcFlags /\ hc.session \in HcSessions /\ hc \in HcState /\ ~hc.early
  BY DEF HcInv, HcState
<1>. QED
  BY <1>1 DEF HcAt, HcFlags, HcSessions

\* What is at a host.
LEMMA HcAtFields ==
    ASSUME HcInv, NEW h \in HcHosts, NEW m, NEW f, NEW s, NEW n, NEW p, HcAt(p, h, m, f, s, n)
    PROVE  p \in HcState /\ p.member[h] = m /\ p.failed[h] = f /\ p.session[h] = s /\ p.healthy = n /\ ~p.early
<1>1. hc.member \in HcFlags /\ hc.failed \in HcFlags /\ hc.session \in HcSessions
  BY DEF HcInv, HcState
<1>. QED
  BY <1>1 DEF HcAt, HcFlags, HcSessions

\* A step on the session of the host alone.
LEMMA HcAtSession ==
    ASSUME HcInv, NEW h \in HcHosts, NEW m, NEW f, NEW s, NEW n, NEW p, HcAt(p, h, m, f, s, n), NEW t \in HcSession
    PROVE  HcAt([p EXCEPT !.session[h] = t], h, m, f, t, n)
<1>1. p.session \in HcSessions /\ hc.session \in HcSessions /\ p \in HcState
  BY DEF HcAt, HcState, HcInv
<1>2. p.session = [hc.session EXCEPT ![h] = s]
  BY DEF HcAt
<1>3. [p.session EXCEPT ![h] = t] = [hc.session EXCEPT ![h] = t] /\ [p.session EXCEPT ![h] = t] \in HcSessions
  BY <1>1, <1>2 DEF HcSessions
<1>4. [p EXCEPT !.session[h] = t] = [p EXCEPT !.session = [p.session EXCEPT ![h] = t]]
  OBVIOUS
<1>. DEFINE q == [p EXCEPT !.session = [hc.session EXCEPT ![h] = t]]
<1>5. q \in HcState
  BY <1>1, <1>3 DEF HcState
<1>6. /\ q.session = [hc.session EXCEPT ![h] = t] /\ q.member = p.member /\ q.failed = p.failed
      /\ q.healthy = p.healthy /\ q.early = p.early
  BY <1>1 DEF HcState
<1>. QED
  BY <1>3, <1>4, <1>5, <1>6 DEF HcAt

\* handleSuccess(): the session waits for its next check.
HcAfterSuccess(f, s) ==
    [s EXCEPT !.bad = 0, !.first = FALSE, !.good = IF f /\ ~s.first THEN @ + 1 ELSE @,
              !.row = IF @ < HcHealthy THEN @ + 1 ELSE @, !.timers = {"interval"}]

LEMMA HcAtSuccess ==
    ASSUME HcInv, NEW h \in HcHosts, NEW m \in BOOLEAN, NEW f \in BOOLEAN, NEW s \in HcSession, NEW n \in Int, NEW p,
           HcAt(p, h, m, f, s, n), s.good <= s.row
    PROVE  LET turns == f /\ hcTurnsHealthy(s)
           IN  HcAt(hcHandleSuccess(p, h), h, m, f /\ ~turns, HcAfterSuccess(f, s), IF turns THEN n + 1 ELSE n)
<1>. DEFINE turns == f /\ hcTurnsHealthy(s)
            e == p.early \/ (turns /\ ~s.first /\ s.row + 1 < HcHealthy)
            t == [s EXCEPT !.bad = 0, !.first = FALSE, !.good = IF f /\ ~s.first THEN @ + 1 ELSE @,
                           !.row = IF @ < HcHealthy THEN @ + 1 ELSE @]
            u == [t EXCEPT !.timers = {"interval"}]
            q == [p EXCEPT !.failed[h] = f /\ ~turns, !.healthy = IF turns THEN n + 1 ELSE n, !.session[h] = t, !.early = e]
<1>1. p \in HcState /\ p.member[h] = m /\ p.failed[h] = f /\ p.session[h] = s /\ p.healthy = n /\ ~p.early
  BY HcAtFields
<1>2. turns \in BOOLEAN
  BY DEF hcTurnsHealthy
<1>3. s.good \in Nat /\ s.row \in Nat /\ s.first \in BOOLEAN
  BY DEF HcSession
<1>4. t \in HcSession /\ u \in HcSession /\ u = HcAfterSuccess(f, s)
  <2>. DEFINE x == IF f /\ ~s.first THEN s.good + 1 ELSE s.good
              y == IF s.row < HcHealthy THEN s.row + 1 ELSE s.row
  <2>1. x \in Nat /\ y \in Nat
    BY <1>3, HcAssumption
  <2>2. t = [s EXCEPT !.bad = 0, !.first = FALSE, !.good = x, !.row = y]
    OBVIOUS
  <2>. HIDE DEF x, y, t
  <2>3. t \in HcSession
    BY <2>1, <2>2 DEF HcSession
  <2>4. u \in HcSession
    BY <2>3 DEF HcSession
  <2>5. u = HcAfterSuccess(f, s)
    BY DEF HcAfterSuccess, HcSession, t
  <2>. QED
    BY <2>3, <2>4, <2>5
<1>5. e = FALSE
  BY <1>1, <1>3, HcAssumption DEF hcTurnsHealthy
<1>6. hcHandleSuccess(p, h) = [q EXCEPT !.session[h] = [q.session[h] EXCEPT !.timers = {"interval"}]]
  BY <1>1 DEF hcHandleSuccess, hcArmInterval
<1>7. HcAt(q, h, m, f /\ ~turns, t, IF turns THEN n + 1 ELSE n)
  <2>1. p.session \in HcSessions /\ hc.session \in HcSessions /\ p.failed \in HcFlags /\ hc.failed \in HcFlags
    BY <1>1 DEF HcState, HcInv
  <2>2. [p.session EXCEPT ![h] = t] = [hc.session EXCEPT ![h] = t] /\ [p.session EXCEPT ![h] = t] \in HcSessions
    BY <1>4, <2>1 DEF HcSessions, HcAt
  <2>. DEFINE g == f /\ ~turns
  <2>3. g \in BOOLEAN
    OBVIOUS
  <2>. HIDE DEF t, g
  <2>4. [p.failed EXCEPT ![h] = g] = [hc.failed EXCEPT ![h] = g] /\ [p.failed EXCEPT ![h] = g] \in HcFlags
    BY <2>1, <2>3 DEF HcFlags, HcAt
  <2>. DEFINE k == IF turns THEN n + 1 ELSE n
  <2>5. k \in Int
    OBVIOUS
  <2>. HIDE DEF k
  <2>6. q = [p EXCEPT !.failed = [p.failed EXCEPT ![h] = g], !.healthy = k, !.session = [p.session EXCEPT ![h] = t], !.early = e]
    BY DEF g, k
  <2>. HIDE DEF q, e
  <2>7. /\ q \in HcState /\ q.member = p.member /\ q.failed = [p.failed EXCEPT ![h] = g] /\ q.healthy = k
        /\ q.session = [p.session EXCEPT ![h] = t] /\ q.early = e
    BY <1>1, <1>5, <2>2, <2>4, <2>5, <2>6 DEF HcState
  <2>8. HcAt(q, h, m, g, t, k)
    BY <1>5, <2>2, <2>4, <2>7 DEF HcAt
  <2>. QED
    BY <2>8 DEF g, k
<1>8. q.session[h] = t
  <2>. HIDE DEF q, t, turns
  <2>. QED
    BY <1>7, HcAtFields
<1>. HIDE DEF q, t, e
<1>9. HcAt([q EXCEPT !.session[h] = u], h, m, f /\ ~turns, u, IF turns THEN n + 1 ELSE n)
  BY <1>4, <1>7, HcAtSession
<1>. QED
  BY <1>4, <1>6, <1>8, <1>9

\* setUnhealthy()
HcAfterFailure(f, s, type) ==
    [s EXCEPT !.good = 0, !.first = FALSE, !.bad = IF ~f /\ type = "Network" THEN @ + 1 ELSE @, !.row = 0]

LEMMA HcAfterFailureType ==
    ASSUME NEW f \in BOOLEAN, NEW s \in HcSession, NEW type
    PROVE  HcAfterFailure(f, s, type) \in HcSession
<1>. DEFINE x == IF ~f /\ type = "Network" THEN s.bad + 1 ELSE s.bad
<1>1. s.bad \in Nat
  BY DEF HcSession
<1>2. x \in Nat
  BY <1>1
<1>3. HcAfterFailure(f, s, type) = [s EXCEPT !.good = 0, !.first = FALSE, !.bad = x, !.row = 0]
  BY DEF HcAfterFailure
<1>. HIDE DEF x
<1>4. [s EXCEPT !.good = 0, !.first = FALSE, !.bad = x, !.row = 0] \in HcSession
  BY <1>2 DEF HcSession
<1>. QED
  BY <1>3, <1>4

LEMMA HcAtUnhealthy ==
    ASSUME HcInv, NEW h \in HcHosts, NEW m \in BOOLEAN, NEW f \in BOOLEAN, NEW s \in HcSession, NEW n \in Int, NEW p,
           HcAt(p, h, m, f, s, n), NEW type
    PROVE  LET turns == ~f /\ (type # "Network" \/ s.bad + 1 = HcUnhealthy)
           IN  HcAt(hcSetUnhealthy(p, h, type), h, m, f \/ turns, HcAfterFailure(f, s, type), IF turns THEN n - 1 ELSE n)
<1>. DEFINE turns == ~f /\ (type # "Network" \/ s.bad + 1 = HcUnhealthy)
            t == HcAfterFailure(f, s, type)
            g == f \/ turns
            k == IF turns THEN n - 1 ELSE n
            q == [p EXCEPT !.failed = [p.failed EXCEPT ![h] = g], !.healthy = k, !.session = [p.session EXCEPT ![h] = t]]
<1>1. p \in HcState /\ p.member[h] = m /\ p.failed[h] = f /\ p.session[h] = s /\ p.healthy = n /\ ~p.early
  BY HcAtFields
<1>2. g \in BOOLEAN /\ k \in Int
  OBVIOUS
<1>3. t \in HcSession
  BY HcAfterFailureType
<1>4. hcSetUnhealthy(p, h, type) = q
  BY <1>1 DEF hcSetUnhealthy, hcDecHealthy, HcAfterFailure
<1>. HIDE DEF t, g, k
<1>5. p.session \in HcSessions /\ hc.session \in HcSessions /\ p.failed \in HcFlags /\ hc.failed \in HcFlags
  BY <1>1 DEF HcState, HcInv
<1>6. [p.session EXCEPT ![h] = t] = [hc.session EXCEPT ![h] = t] /\ [p.session EXCEPT ![h] = t] \in HcSessions
  BY <1>3, <1>5 DEF HcSessions, HcAt
<1>7. [p.failed EXCEPT ![h] = g] = [hc.failed EXCEPT ![h] = g] /\ [p.failed EXCEPT ![h] = g] \in HcFlags
  BY <1>2, <1>5 DEF HcFlags, HcAt
<1>8. /\ q \in HcState /\ q.member = p.member /\ q.failed = [p.failed EXCEPT ![h] = g] /\ q.healthy = k
      /\ q.session = [p.session EXCEPT ![h] = t] /\ q.early = p.early
  BY <1>1, <1>2, <1>6, <1>7 DEF HcState
<1>9. HcAt(q, h, m, g, t, k)
  BY <1>1, <1>6, <1>7, <1>8 DEF HcAt
<1>. QED
  BY <1>4, <1>9 DEF g, k, t

\* handleFailure(): the session waits for its next check.
LEMMA HcAtFailure ==
    ASSUME HcInv, NEW h \in HcHosts, NEW m \in BOOLEAN, NEW f \in BOOLEAN, NEW s \in HcSession, NEW n \in Int, NEW p,
           HcAt(p, h, m, f, s, n), NEW type
    PROVE  LET turns == ~f /\ (type # "Network" \/ s.bad + 1 = HcUnhealthy)
           IN  HcAt(hcHandleFailure(p, h, type), h, m, f \/ turns,
                    [HcAfterFailure(f, s, type) EXCEPT !.timers = {"interval"}], IF turns THEN n - 1 ELSE n)
<1>. DEFINE turns == ~f /\ (type # "Network" \/ s.bad + 1 = HcUnhealthy)
            t == HcAfterFailure(f, s, type)
            u == [t EXCEPT !.timers = {"interval"}]
            q == hcSetUnhealthy(p, h, type)
            g == f \/ turns
            k == IF turns THEN n - 1 ELSE n
<1>1. HcAt(q, h, m, g, t, k)
  BY HcAtUnhealthy
<1>2. u \in HcSession
  <2>1. t \in HcSession
    BY HcAfterFailureType
  <2>. HIDE DEF t
  <2>. QED
    BY <2>1 DEF HcSession
<1>. HIDE DEF q, g, k, t, u
<1>3. q.session[h] = t
  BY <1>1, HcAtFields
<1>4. HcAt([q EXCEPT !.session[h] = u], h, m, g, u, k)
  BY <1>1, <1>2, HcAtSession
<1>5. hcHandleFailure(p, h, type) = [q EXCEPT !.session[h] = u]
  BY <1>3 DEF hcHandleFailure, hcArmInterval, q, u
<1>. QED
  BY <1>4, <1>5 DEF g, k, t, u

\* The gauge, when the host's membership and flag become m and f.
HcGauge(h, m, f) == hc.healthy + HcOne(m /\ ~f) - HcOne(hc.member[h] /\ ~hc.failed[h])

\* q keeps the invariant, as far as the host h is concerned.
HcFits(q, h) ==
    \E m \in BOOLEAN, f \in BOOLEAN, s \in HcSession, n \in Int :
        HcAt(q, h, m, f, s, n) /\ HcHostOK(m, f, s) /\ n = HcGauge(h, m, f)

\* A check was judged: q keeps the invariant once its request is known to be over.
HcJudged(q, h, client, request, expectReset) ==
    \E f \in BOOLEAN, s \in HcSession, n \in Int :
        /\ HcAt(q, h, TRUE, f, s, n) /\ n = HcGauge(h, TRUE, f)
        /\ s.timers = {"interval"} /\ HcCountersOK(TRUE, f, s)
        /\ s.client = client /\ s.request = request /\ s.expectReset = expectReset

LEMMA HcFitsStep ==
    ASSUME HcInv, NEW h \in HcHosts, HcFits(hc', h)
    PROVE  HcInv'
  BY HcHostStep DEF HcFits, HcGauge

LEMMA HcJudgedFits ==
    ASSUME HcInv, NEW h \in HcHosts, NEW q, NEW client \in BOOLEAN, NEW expectReset \in BOOLEAN,
           HcJudged(q, h, client, FALSE, expectReset), ~(client /\ expectReset)
    PROVE  HcFits(q, h)
<1>1. PICK f \in BOOLEAN, s \in HcSession, n \in Int :
        /\ HcAt(q, h, TRUE, f, s, n) /\ n = HcGauge(h, TRUE, f)
        /\ s.timers = {"interval"} /\ HcCountersOK(TRUE, f, s)
        /\ s.client = client /\ s.request = FALSE /\ s.expectReset = expectReset
  BY DEF HcJudged
<1>2. HcHostOK(TRUE, f, s)
  BY <1>1 DEF HcHostOK
<1>. QED
  BY <1>1, <1>2 DEF HcFits

LEMMA HcJudgedCloses ==
    ASSUME HcInv, NEW h \in HcHosts, NEW q, NEW client \in BOOLEAN, NEW request \in BOOLEAN, NEW expectReset \in BOOLEAN,
           HcJudged(q, h, client, request, expectReset)
    PROVE  HcFits(hcCloseClient(q, h), h)
<1>1. PICK f \in BOOLEAN, s \in HcSession, n \in Int :
        /\ HcAt(q, h, TRUE, f, s, n) /\ n = HcGauge(h, TRUE, f)
        /\ s.timers = {"interval"} /\ HcCountersOK(TRUE, f, s)
  BY DEF HcJudged
<1>. DEFINE t == [s EXCEPT !.client = FALSE, !.request = FALSE]
<1>2. t \in HcSession /\ ~t.client /\ ~t.request /\ t.timers = {"interval"} /\ HcCountersOK(TRUE, f, t)
  BY <1>1 DEF HcSession, HcCountersOK
<1>. DEFINE yes == TRUE
<1>0. HcAt(q, h, yes, f, s, n)
  BY <1>1
<1>. HIDE DEF yes, t
<1>3. q.session[h] = s
  BY <1>0, HcAtFields
<1>. USE DEF t
<1>4. hcCloseClient(q, h) = [q EXCEPT !.session[h] = t]
  <2>1. hcCloseClient(q, h) = [q EXCEPT !.session[h] = [q.session[h] EXCEPT !.client = FALSE, !.request = FALSE]]
    BY <1>1 DEF hcCloseClient, HcAt, HcState, HcSessions
  <2>. QED
    BY <2>1, <1>3
<1>. HIDE DEF t
<1>5. HcAt(hcCloseClient(q, h), h, TRUE, f, t, n)
  <2>1. HcAt([q EXCEPT !.session[h] = t], h, yes, f, t, n)
    BY <1>0, <1>2, HcAtSession
  <2>. QED
    BY <2>1, <1>4 DEF yes
<1>6. HcHostOK(TRUE, f, t)
  BY <1>2 DEF HcHostOK
<1>. QED
  BY <1>1, <1>2, <1>5, <1>6 DEF HcFits

\* Handling a success, or a failure, of a session with the counters of the host's.
HcCounts(s, h) ==
    /\ s.good = hc.session[h].good /\ s.bad = hc.session[h].bad /\ s.row = hc.session[h].row
    /\ s.first = hc.session[h].first

LEMMA HcSuccessJudged ==
    ASSUME HcInv, NEW h \in HcHosts, hc.member[h], NEW s \in HcSession, NEW p,
           HcAt(p, h, hc.member[h], hc.failed[h], s, hc.healthy), HcCounts(s, h)
    PROVE  HcJudged(hcHandleSuccess(p, h), h, s.client, s.request, s.expectReset)
<1>. DEFINE f == hc.failed[h]
            turns == f /\ hcTurnsHealthy(s)
            g == f /\ ~turns
            t == HcAfterSuccess(f, s)
            n == hc.healthy
            k == IF turns THEN n + 1 ELSE n
            q == hcHandleSuccess(p, h)
<1>1. hc \in HcState /\ HcHostOK(hc.member[h], f, hc.session[h])
  BY DEF HcInv
<1>2. hc.member[h] = TRUE /\ f \in BOOLEAN /\ n \in Int
  BY <1>1, HcTypes
<1>3. s.good \in Nat /\ s.row \in Nat /\ s.first \in BOOLEAN /\ s.bad \in Nat
  BY DEF HcSession
<1>4. s.good <= s.row /\ s.row <= HcHealthy /\ (f => s.good < HcHealthy)
  BY <1>1 DEF HcHostOK, HcCountersOK, HcCounts
<1>5. HcAt(q, h, TRUE, g, t, k)
  BY <1>2, <1>4, HcAtSuccess
<1>6. t \in HcSession
  <2>1. q \in HcState /\ q.session[h] = t
    <3>. DEFINE yes == TRUE
    <3>1. HcAt(q, h, yes, g, t, k)
      BY <1>5
    <3>. HIDE DEF g, t, k, yes, q
    <3>. QED
      BY <3>1, HcAtFields
  <2>. HIDE DEF t
  <2>. QED
    BY <2>1, HcTypes
<1>7. /\ t.timers = {"interval"} /\ t.client = s.client /\ t.request = s.request /\ t.expectReset = s.expectReset
      /\ t.bad = 0 /\ t.good = (IF f /\ ~s.first THEN s.good + 1 ELSE s.good)
      /\ t.row = (IF s.row < HcHealthy THEN s.row + 1 ELSE s.row)
  BY DEF HcAfterSuccess, HcSession
<1>. HIDE DEF t
<1>8. HcCountersOK(TRUE, g, t)
  BY <1>2, <1>3, <1>4, <1>7, HcAssumption DEF HcCountersOK, hcTurnsHealthy
<1>9. g \in BOOLEAN /\ k \in Int /\ k = HcGauge(h, TRUE, g)
  BY <1>2 DEF HcGauge, HcOne
<1>. HIDE DEF g, k, q
<1>10. HcJudged(q, h, s.client, s.request, s.expectReset)
  BY <1>5, <1>6, <1>7, <1>8, <1>9 DEF HcJudged
<1>. QED
  BY <1>10 DEF q

LEMMA HcFailureJudged ==
    ASSUME HcInv, NEW h \in HcHosts, hc.member[h], NEW s \in HcSession, NEW p, NEW type,
           HcAt(p, h, hc.member[h], hc.failed[h], s, hc.healthy), HcCounts(s, h)
    PROVE  HcJudged(hcHandleFailure(p, h, type), h, s.client, s.request, s.expectReset)
<1>. DEFINE f == hc.failed[h]
            turns == ~f /\ (type # "Network" \/ s.bad + 1 = HcUnhealthy)
            g == f \/ turns
            t == [HcAfterFailure(f, s, type) EXCEPT !.timers = {"interval"}]
            n == hc.healthy
            k == IF turns THEN n - 1 ELSE n
            q == hcHandleFailure(p, h, type)
<1>1. hc \in HcState /\ HcHostOK(hc.member[h], f, hc.session[h])
  BY DEF HcInv
<1>2. hc.member[h] = TRUE /\ f \in BOOLEAN /\ n \in Int
  BY <1>1, HcTypes
<1>3. s.bad \in Nat
  BY DEF HcSession
<1>4. ~f => s.bad < HcUnhealthy
  BY <1>1 DEF HcHostOK, HcCountersOK, HcCounts
<1>5. HcAt(q, h, TRUE, g, t, k)
  BY <1>2, HcAtFailure
<1>6. t \in HcSession
  <2>1. q \in HcState /\ q.session[h] = t
    <3>. DEFINE yes == TRUE
    <3>1. HcAt(q, h, yes, g, t, k)
      BY <1>5
    <3>. HIDE DEF g, t, k, yes, q
    <3>. QED
      BY <3>1, HcAtFields
  <2>. HIDE DEF t
  <2>. QED
    BY <2>1, HcTypes
<1>7. /\ t.timers = {"interval"} /\ t.client = s.client /\ t.request = s.request /\ t.expectReset = s.expectReset
      /\ t.good = 0 /\ t.row = 0 /\ t.bad = (IF ~f /\ type = "Network" THEN s.bad + 1 ELSE s.bad)
  BY DEF HcAfterFailure, HcSession
<1>. HIDE DEF t
<1>8. HcCountersOK(TRUE, g, t)
  BY <1>2, <1>3, <1>4, <1>7, HcAssumption DEF HcCountersOK
<1>9. g \in BOOLEAN /\ k \in Int /\ k = HcGauge(h, TRUE, g)
  BY <1>2 DEF HcGauge, HcOne
<1>. HIDE DEF g, k, q
<1>10. HcJudged(q, h, s.client, s.request, s.expectReset)
  BY <1>5, <1>6, <1>7, <1>8, <1>9 DEF HcJudged
<1>. QED
  BY <1>10 DEF q

\* The session of the host alone is touched, and not its counters.
LEMMA HcTouch ==
    ASSUME HcInv, NEW h \in HcHosts, NEW t \in HcSession
    PROVE  HcAt([hc EXCEPT !.session[h] = t], h, hc.member[h], hc.failed[h], t, hc.healthy)
  BY HcAtSelf, HcAtSession

\* What a session that waits for nothing but its next check looks like.
LEMMA HcIdleJudged ==
    ASSUME HcInv, NEW h \in HcHosts, hc.member[h], ~hc.session[h].request
    PROVE  HcJudged(hc, h, hc.session[h].client, hc.session[h].request, hc.session[h].expectReset)
<1>1. hc \in HcState /\ HcHostOK(hc.member[h], hc.failed[h], hc.session[h])
  BY DEF HcInv
<1>2. hc.member[h] = TRUE /\ hc.failed[h] \in BOOLEAN /\ hc.session[h] \in HcSession /\ hc.healthy \in Int
  BY <1>1, HcTypes
<1>3. HcAt(hc, h, TRUE, hc.failed[h], hc.session[h], hc.healthy)
  BY <1>2, HcAtSelf
<1>4. hc.session[h].timers = {"interval"} /\ HcCountersOK(TRUE, hc.failed[h], hc.session[h])
  BY <1>1, <1>2 DEF HcHostOK
<1>5. hc.healthy = HcGauge(h, TRUE, hc.failed[h])
  BY <1>2 DEF HcGauge, HcOne
<1>. QED
  BY <1>2, <1>3, <1>4, <1>5 DEF HcJudged

\* A connection is only there with the session of a member, and no reset is expected on it.
LEMMA HcClientOK ==
    ASSUME HcInv, NEW h \in HcHosts
    PROVE  /\ hc.session[h].client => hc.member[h] /\ ~hc.session[h].expectReset
           /\ hc.session[h].request => hc.session[h].client
           /\ hc.session[h] \in HcSession /\ hc.session[h].expectReset \in BOOLEAN
           /\ hc.session[h].client \in BOOLEAN /\ hc.session[h].request \in BOOLEAN
           /\ HcCounts(hc.session[h], h)
  BY HcTypes DEF HcInv, HcHostOK, HcCounts

LEMMA HcClosePreserves ==
    ASSUME HcInv, NEW h \in HcHosts, HcHttpClose(h) \/ HcRedisClose(h) \/ HcTcpClose(h)
    PROVE  HcInv'
<1>. DEFINE s == hc.session[h]
            q == hcHandleFailure(hc, h, "Network")
<1>1. s.client /\ hc.member[h] /\ ~s.expectReset /\ s \in HcSession /\ HcCounts(s, h)
  BY HcClientOK DEF HcHttpClose, HcRedisClose, HcTcpClose
<1>2. s.client \in BOOLEAN /\ s.request \in BOOLEAN /\ s.expectReset \in BOOLEAN
  BY HcClientOK
<1>3. HcJudged(q, h, s.client, s.request, s.expectReset)
  BY <1>1, HcAtSelf, HcFailureJudged
<1>4. HcFits(hcCloseClient(q, h), h)
  <2>. HIDE DEF q
  <2>. QED
    BY <1>2, <1>3, HcJudgedCloses
<1>5. ASSUME ~s.request PROVE HcFits(hcCloseClient(hc, h), h)
  BY <1>1, <1>2, <1>5, HcIdleJudged, HcJudgedCloses
<1>6. hc' = hcCloseClient(q, h) \/ (~s.request /\ hc' = hcCloseClient(hc, h))
  BY <1>1 DEF HcHttpClose, HcRedisClose, HcTcpClose
<1>. HIDE DEF q
<1>7. HcFits(hc', h)
  BY <1>4, <1>5, <1>6
<1>. QED
  BY <1>7, HcFitsStep

LEMMA HcAnswerPreserves ==
    ASSUME HcInv, NEW h \in HcHosts,
           \/ \E good \in BOOLEAN : HcRedisResponse(h, good) \/ \E close \in BOOLEAN : HcHttpResponse(h, good, close)
           \/ HcTcpData(h)
    PROVE  HcInv'
<1>. DEFINE s == hc.session[h]
            t == [s EXCEPT !.request = FALSE]
            p == [hc EXCEPT !.session[h] = t]
<1>1. s.client /\ hc.member[h] /\ ~s.expectReset /\ s \in HcSession /\ HcCounts(s, h)
  BY HcClientOK DEF HcHttpResponse, HcRedisResponse, HcTcpData
<1>2. /\ t \in HcSession /\ t.client = s.client /\ t.request = FALSE /\ t.expectReset = s.expectReset
      /\ HcCounts(t, h)
  BY <1>1 DEF HcSession, HcCounts
<1>3. s.client \in BOOLEAN /\ s.expectReset \in BOOLEAN
  BY HcClientOK
<1>4. [hc EXCEPT !.session[h].request = FALSE] = p
  OBVIOUS
<1>. HIDE DEF t
<1>5. HcAt(p, h, hc.member[h], hc.failed[h], t, hc.healthy)
  BY <1>2, HcTouch
<1>. HIDE DEF p
<1>6. HcJudged(hcHandleSuccess(p, h), h, t.client, t.request, t.expectReset)
  BY <1>1, <1>2, <1>5, HcSuccessJudged
<1>7. HcJudged(hcHandleFailure(p, h, "Active"), h, t.client, t.request, t.expectReset)
  BY <1>1, <1>2, <1>5, HcFailureJudged
<1>8. PICK q \in {hcHandleSuccess(p, h), hcHandleFailure(p, h, "Active")} : hc' = q \/ hc' = hcCloseClient(q, h)
  BY <1>4 DEF HcHttpResponse, HcRedisResponse, HcTcpData, hcJudge
<1>9. HcJudged(q, h, t.client, FALSE, t.expectReset)
  BY <1>2, <1>6, <1>7, <1>8
<1>10. HcFits(q, h)
  BY <1>1, <1>2, <1>3, <1>9, HcJudgedFits
<1>11. HcFits(hcCloseClient(q, h), h)
  <2>. DEFINE no == FALSE
  <2>1. HcJudged(q, h, t.client, no, t.expectReset) /\ no \in BOOLEAN
    BY <1>9
  <2>. HIDE DEF no
  <2>. QED
    BY <1>2, <1>3, <2>1, HcJudgedCloses
<1>. QED
  BY <1>8, <1>10, <1>11, HcFitsStep

LEMMA HcConnectedPreserves ==
    ASSUME HcInv, NEW h \in HcHosts, HcTcpConnected(h)
    PROVE  HcInv'
<1>. DEFINE s == hc.session[h]
            t == [s EXCEPT !.client = FALSE, !.request = FALSE]
            p == [hc EXCEPT !.session[h] = t]
<1>1. s.client /\ hc.member[h] /\ ~s.expectReset /\ s \in HcSession /\ HcCounts(s, h) /\ s.expectReset \in BOOLEAN
  BY HcClientOK DEF HcTcpConnected
<1>2. /\ t \in HcSession /\ t.client = FALSE /\ t.request = FALSE /\ t.expectReset = s.expectReset
      /\ HcCounts(t, h)
  BY <1>1 DEF HcSession, HcCounts
<1>3. hc' = hcHandleSuccess(p, h)
  <2>1. hcCloseClient(hc, h) = p
    BY DEF hcCloseClient, HcInv, HcState, HcSessions
  <2>. QED
    BY <2>1 DEF HcTcpConnected
<1>. HIDE DEF t
<1>4. HcAt(p, h, hc.member[h], hc.failed[h], t, hc.healthy)
  BY <1>2, HcTouch
<1>. HIDE DEF p
<1>5. HcJudged(hcHandleSuccess(p, h), h, t.client, t.request, t.expectReset)
  BY <1>1, <1>2, <1>4, HcSuccessJudged
<1>6. HcJudged(hc', h, t.client, FALSE, t.expectReset) /\ t.client \in BOOLEAN /\ t.expectReset \in BOOLEAN
  BY <1>1, <1>2, <1>3, <1>5
<1>7. HcFits(hc', h)
  BY <1>2, <1>6, HcJudgedFits
<1>. QED
  BY <1>7, HcFitsStep

LEMMA HcTimeoutPreserves ==
    ASSUME HcInv, NEW h \in HcHosts, HcTimeout(h)
    PROVE  HcInv'
<1>. DEFINE s == hc.session[h]
            ts == s.timers \ {"timeout"}
            t == [s EXCEPT !.timers = ts, !.expectReset = TRUE, !.client = FALSE, !.request = FALSE]
            p == [hc EXCEPT !.session[h] = t]
<1>1. s \in HcSession /\ hc \in HcState /\ HcCounts(s, h) /\ hc.session \in HcSessions
  BY HcClientOK DEF HcInv, HcState
<1>2. hc.member[h]
  BY DEF HcTimeout, HcInv, HcHostOK
<1>3. ts \subseteq {"interval", "timeout"}
  BY <1>1 DEF HcSession
<1>4. hcOnTimeout([hc EXCEPT !.session[h].timers = @ \ {"timeout"}], h) = p
  <2>. DEFINE s1 == [s EXCEPT !.timers = ts]
              s2 == [s1 EXCEPT !.expectReset = TRUE]
              s3 == [s2 EXCEPT !.client = FALSE, !.request = FALSE]
              p1 == [hc EXCEPT !.session = [@ EXCEPT ![h] = s1]]
              p2 == [hc EXCEPT !.session = [@ EXCEPT ![h] = s2]]
              p3 == [hc EXCEPT !.session = [@ EXCEPT ![h] = s3]]
  <2>1. [hc EXCEPT !.session[h].timers = @ \ {"timeout"}] = p1
    OBVIOUS
  <2>2. p1.session[h] = s1 /\ p2.session[h] = s2
    BY <1>1 DEF HcState, HcSessions
  <2>3. [p1 EXCEPT !.session[h].expectReset = TRUE] = p2
    <3>1. [p1 EXCEPT !.session[h].expectReset = TRUE] = [p1 EXCEPT !.session[h] = s2]
      BY <2>2
    <3>. HIDE DEF s1, s2
    <3>. QED
      BY <3>1, <1>1 DEF HcState, HcSessions
  <2>4. hcCloseClient(p2, h) = p3
    <3>1. hcCloseClient(p2, h) = [p2 EXCEPT !.session[h] = s3]
      <4>1. p2 \in [kind : HcKinds, member : HcFlags, failed : HcFlags, session : {p2.session}, healthy : Int,
                    posted : SUBSET HcHosts, alive : BOOLEAN, early : BOOLEAN]
        BY <1>1 DEF HcState
      <4>2. h \in DOMAIN p2.session
        BY <1>1 DEF HcState, HcSessions
      <4>. HIDE DEF p2, s2
      <4>. QED
        BY <2>2, <4>1, <4>2 DEF hcCloseClient
    <3>. HIDE DEF s1, s2, s3
    <3>. QED
      BY <3>1, <1>1 DEF HcState, HcSessions
  <2>5. s3 = t
    BY <1>1 DEF HcSession
  <2>. HIDE DEF s1, s2, s3, p1, p2
  <2>. QED
    BY <2>1, <2>3, <2>4, <2>5 DEF hcOnTimeout
<1>5. hc' = hcHandleFailure(p, h, "Network")
  BY <1>4 DEF HcTimeout
<1>. HIDE DEF ts
<1>6. /\ t \in HcSession /\ t.client = FALSE /\ t.request = FALSE /\ t.expectReset = TRUE
      /\ HcCounts(t, h)
  BY <1>1, <1>3 DEF HcSession, HcCounts
<1>. HIDE DEF t
<1>7. HcAt(p, h, hc.member[h], hc.failed[h], t, hc.healthy)
  BY <1>6, HcTouch
<1>. HIDE DEF p
<1>8. HcJudged(hcHandleFailure(p, h, "Network"), h, t.client, t.request, t.expectReset)
  BY <1>1, <1>2, <1>6, <1>7, HcFailureJudged
<1>9. HcJudged(hc', h, t.client, FALSE, t.expectReset) /\ t.client \in BOOLEAN /\ t.expectReset \in BOOLEAN
  BY <1>5, <1>6, <1>8
<1>10. HcFits(hc', h)
  BY <1>6, <1>9, HcJudgedFits
<1>. QED
  BY <1>10, HcFitsStep

LEMMA HcIntervalPreserves ==
    ASSUME HcInv, NEW h \in HcHosts, HcInterval(h)
    PROVE  HcInv'
<1>. DEFINE s == hc.session[h]
            x == s.client /\ s.expectReset
            ts == (s.timers \ {"interval"}) \cup {"timeout"}
            t == [s EXCEPT !.expectReset = x, !.client = TRUE, !.request = TRUE, !.timers = ts]
<1>1. s \in HcSession /\ HcHostOK(hc.member[h], hc.failed[h], s)
  BY HcClientOK DEF HcInv
<1>2. hc.member[h] = TRUE /\ s.timers = {"interval"} /\ HcCountersOK(hc.member[h], hc.failed[h], s)
  BY <1>1, HcTypes DEF HcInterval, HcInv, HcHostOK
<1>3. ts = {"timeout"} /\ x = FALSE
  BY <1>2, HcClientOK
<1>4. hc' = [hc EXCEPT !.session[h] = t]
  BY DEF HcInterval, hcOnInterval
<1>. HIDE DEF ts, x
<1>5. t \in HcSession /\ t.client = TRUE /\ t.request = TRUE /\ t.expectReset = FALSE /\ t.timers = {"timeout"}
  BY <1>1, <1>3 DEF HcSession
<1>6. HcCountersOK(hc.member[h], hc.failed[h], t)
  BY <1>1, <1>2 DEF HcSession, HcCountersOK
<1>. HIDE DEF t
<1>7. HcHostOK(hc.member[h], hc.failed[h], t)
  BY <1>2, <1>5, <1>6 DEF HcHostOK
<1>8. HcAt(hc', h, hc.member[h], hc.failed[h], t, hc.healthy)
  BY <1>4, <1>5, HcTouch
<1>9. hc.member[h] \in BOOLEAN /\ hc.failed[h] \in BOOLEAN /\ hc.healthy \in Int
  BY HcTypes DEF HcInv
<1>10. hc.healthy = HcGauge(h, hc.member[h], hc.failed[h])
  BY <1>9 DEF HcGauge, HcOne
<1>11. HcFits(hc', h)
  BY <1>5, <1>7, <1>8, <1>9, <1>10 DEF HcFits
<1>. QED
  BY <1>11, HcFitsStep

\* The host comes or goes.
LEMMA HcAtNew ==
    ASSUME HcInv, NEW h \in HcHosts, NEW m \in BOOLEAN, NEW f \in BOOLEAN, NEW s \in HcSession, NEW n \in Int
    PROVE  HcAt([hc EXCEPT !.member[h] = m, !.failed[h] = f, !.session[h] = s, !.healthy = n], h, m, f, s, n)
<1>. DEFINE ms == [hc.member EXCEPT ![h] = m]
            fs == [hc.failed EXCEPT ![h] = f]
            ss == [hc.session EXCEPT ![h] = s]
            q == [hc EXCEPT !.member = ms, !.failed = fs, !.session = ss, !.healthy = n]
<1>1. hc.member \in HcFlags /\ hc.failed \in HcFlags /\ hc.session \in HcSessions /\ hc \in HcState /\ ~hc.early
  BY DEF HcInv, HcState
<1>2. ms \in HcFlags /\ fs \in HcFlags /\ ss \in HcSessions
  BY <1>1 DEF HcFlags, HcSessions
<1>3. [hc EXCEPT !.member[h] = m, !.failed[h] = f, !.session[h] = s, !.healthy = n] = q
  OBVIOUS
<1>. HIDE DEF ms, fs, ss
<1>4. q \in HcState /\ q.member = ms /\ q.failed = fs /\ q.session = ss /\ q.healthy = n /\ q.early = hc.early
  BY <1>1, <1>2 DEF HcState
<1>5. HcAt(q, h, m, f, s, n)
  BY <1>1, <1>4 DEF HcAt, ms, fs, ss
<1>. QED
  BY <1>3, <1>5

LEMMA HcAddPreserves ==
    ASSUME HcInv, NEW h \in HcHosts, NEW failed \in BOOLEAN, HcAddHost(h, failed)
    PROVE  HcInv'
<1>. DEFINE yes == TRUE
            n == IF failed THEN hc.healthy ELSE hc.healthy + 1
            p == [hc EXCEPT !.member[h] = yes, !.failed[h] = failed, !.session[h] = HcNoSession, !.healthy = n]
            x == HcNoSession.client /\ HcNoSession.expectReset
            ts == (HcNoSession.timers \ {"interval"}) \cup {"timeout"}
            t == [HcNoSession EXCEPT !.expectReset = x, !.client = TRUE, !.request = TRUE, !.timers = ts]
<1>1. hc.healthy \in Int /\ hc.member[h] = FALSE /\ hc.failed[h] \in BOOLEAN
  BY HcTypes DEF HcAddHost, HcInv
<1>2. n \in Int /\ n = HcGauge(h, TRUE, failed)
  BY <1>1 DEF HcGauge, HcOne
<1>3. HcNoSession \in HcSession
  BY DEF HcNoSession, HcSession
<1>4. x = FALSE /\ ts = {"timeout"}
  BY DEF HcNoSession
<1>5. hc' = hcOnInterval(p, h)
  BY DEF HcAddHost
<1>6. t \in HcSession /\ HcHostOK(TRUE, failed, t)
  <2>. HIDE DEF x, ts
  <2>1. t \in HcSession
    BY <1>3, <1>4 DEF HcSession
  <2>2. /\ t.timers = {"timeout"} /\ t.client = TRUE /\ t.request = TRUE /\ t.expectReset = FALSE
        /\ t.good = 0 /\ t.bad = 0 /\ t.row = 0
    BY <1>4 DEF HcNoSession
  <2>. HIDE DEF t
  <2>. QED
    BY <2>1, <2>2, HcAssumption DEF HcHostOK, HcCountersOK
<1>7. yes \in BOOLEAN
  OBVIOUS
<1>. HIDE DEF yes, n
<1>8. HcAt(p, h, yes, failed, HcNoSession, n)
  BY <1>2, <1>3, <1>7, HcAtNew
<1>9. p.session[h] = HcNoSession
  <2>. HIDE DEF p
  <2>. QED
    BY <1>8, HcAtFields
<1>10. hc' = [p EXCEPT !.session[h] = t]
  <2>. HIDE DEF p
  <2>. QED
    BY <1>5, <1>9 DEF hcOnInterval
<1>. HIDE DEF t, p
<1>11. HcAt([p EXCEPT !.session[h] = t], h, yes, failed, t, n)
  BY <1>6, <1>8, HcAtSession
<1>12. HcFits(hc', h)
  BY <1>2, <1>6, <1>10, <1>11 DEF HcFits, yes
<1>. QED
  BY <1>12, HcFitsStep

LEMMA HcRemovePreserves ==
    ASSUME HcInv, NEW h \in HcHosts, HcRemoveHost(h)
    PROVE  HcInv'
<1>. DEFINE no == FALSE
            n == IF hc.failed[h] THEN hc.healthy ELSE hc.healthy - 1
            p == [hc EXCEPT !.member[h] = no, !.failed[h] = hc.failed[h], !.session[h] = HcNoSession, !.healthy = n]
<1>1. hc.healthy \in Int /\ hc.member[h] = TRUE /\ hc.failed[h] \in BOOLEAN /\ hc.failed \in HcFlags
  BY HcTypes DEF HcRemoveHost, HcInv, HcState
<1>2. n \in Int /\ n = HcGauge(h, FALSE, hc.failed[h])
  BY <1>1 DEF HcGauge, HcOne
<1>3. HcNoSession \in HcSession
  BY DEF HcNoSession, HcSession
<1>4. hc' = p
  <2>1. [hc.failed EXCEPT ![h] = hc.failed[h]] = hc.failed
    BY <1>1 DEF HcFlags
  <2>. QED
    BY <2>1 DEF HcRemoveHost, HcInv, HcState
<1>5. HcHostOK(FALSE, hc.failed[h], HcNoSession)
  BY HcAssumption DEF HcHostOK, HcCountersOK, HcNoSession
<1>6. no \in BOOLEAN
  OBVIOUS
<1>. HIDE DEF no, n
<1>7. HcAt(p, h, no, hc.failed[h], HcNoSession, n)
  BY <1>1, <1>2, <1>3, <1>6, HcAtNew
<1>. HIDE DEF p
<1>8. HcFits(hc', h)
  BY <1>1, <1>2, <1>3, <1>4, <1>5, <1>7 DEF HcFits, no
<1>. QED
  BY <1>8, HcFitsStep

LEMMA HcDestroyPreserves ==
    ASSUME HcInv, HcDestroy
    PROVE  HcInv'
<1>1. hc \in HcState /\ ~hc.early
  BY DEF HcInv
<1>2. HcNoSession \in HcSession
  BY DEF HcNoSession, HcSession
<1>. DEFINE ms == [h \in HcHosts |-> FALSE]
            ss == [h \in HcHosts |-> HcNoSession]
            no == FALSE
<1>3. no \in BOOLEAN /\ ms \in HcFlags /\ ss \in HcSessions
  BY <1>2 DEF HcFlags, HcSessions
<1>4. \A h \in HcHosts : ms[h] = FALSE /\ ss[h] = HcNoSession
  OBVIOUS
<1>5. hc' = [hc EXCEPT !.alive = no, !.member = ms, !.healthy = 0, !.session = ss]
  BY DEF HcDestroy
<1>. HIDE DEF ms, ss, no
<1>6. /\ hc' \in HcState /\ hc'.member = ms /\ hc'.failed = hc.failed /\ hc'.session = ss /\ hc'.healthy = 0
      /\ hc'.early = hc.early
  <2>. DEFINE q == [hc EXCEPT !.alive = no, !.member = ms, !.healthy = 0, !.session = ss]
  <2>1. q \in HcState
    <3>. DEFINE zero == 0
                r == [hc EXCEPT !.alive = no, !.member = ms, !.healthy = zero, !.session = ss]
    <3>1. zero \in Int /\ q = r
      OBVIOUS
    <3>. HIDE DEF zero, q
    <3>2. r \in HcState
      BY <1>1, <1>3, <3>1 DEF HcState
    <3>. QED
      BY <3>1, <3>2
  <2>2. q.member = ms /\ q.failed = hc.failed /\ q.session = ss /\ q.healthy = 0 /\ q.early = hc.early
    BY <1>1 DEF HcState
  <2>. QED
    BY <2>1, <2>2, <1>5
<1>7. \A h \in HcHosts : HcHostOK(hc'.member[h], hc'.failed[h], hc'.session[h])
  <2>. TAKE h \in HcHosts
  <2>1. HcHostOK(FALSE, hc.failed[h], HcNoSession)
    BY HcAssumption DEF HcHostOK, HcCountersOK, HcNoSession
  <2>. QED
    BY <2>1, <1>4, <1>6
<1>8. HcGood' = {}
  BY <1>4, <1>6 DEF HcGood
<1>. QED
  BY <1>1, <1>6, <1>7, <1>8, FS_EmptySet DEF HcInv

LEMMA HcReportPreserves ==
    ASSUME HcInv, NEW h \in HcHosts, HcReport(h)
    PROVE  HcInv'
<1>1. hc \in HcState /\ ~hc.early
  BY DEF HcInv
<1>2. /\ hc' \in HcState /\ hc'.member = hc.member /\ hc'.failed = hc.failed /\ hc'.session = hc.session
      /\ hc'.healthy = hc.healthy /\ hc'.early = hc.early
  BY <1>1 DEF HcReport, HcState
<1>3. HcGood' = HcGood
  BY <1>2 DEF HcGood
<1>. QED
  BY <1>2, <1>3 DEF HcInv

LEMMA HcReportedPreserves ==
    ASSUME HcInv, NEW h \in HcHosts, HcReported(h)
    PROVE  HcInv'
<1>. DEFINE p == [hc EXCEPT !.posted = @ \ {h}]
            m == hc.member[h]
            f == hc.failed[h]
            s == hc.session[h]
            n == hc.healthy
            t == HcAfterFailure(f, s, "Passive")
            k == IF ~f THEN n - 1 ELSE n
            yes == TRUE
<1>1. /\ hc \in HcState /\ m \in BOOLEAN /\ f \in BOOLEAN /\ s \in HcSession /\ n \in Int
      /\ HcHostOK(m, f, s)
  BY HcTypes DEF HcInv
<1>2. /\ p \in HcState /\ p.member = hc.member /\ p.failed = hc.failed /\ p.session = hc.session
      /\ p.healthy = hc.healthy /\ p.early = hc.early
  BY <1>1 DEF HcState
<1>. HIDE DEF p
<1>3. HcAt(p, h, m, f, s, n)
  BY <1>2, HcAtSelf DEF HcAt
<1>4. CASE hc' = p
  <2>1. n = HcGauge(h, m, f)
    BY <1>1 DEF HcGauge, HcOne
  <2>2. HcFits(hc', h)
    BY <1>1, <1>3, <1>4, <2>1 DEF HcFits
  <2>. QED
    BY <2>2, HcFitsStep
<1>5. CASE m /\ hc' = hcSetUnhealthy(p, h, "Passive")
  <2>1. HcAt(hc', h, m, TRUE, t, k)
    <3>. DEFINE turns == ~f /\ ("Passive" # "Network" \/ s.bad + 1 = HcUnhealthy)
    <3>1. HcAt(hcSetUnhealthy(p, h, "Passive"), h, m, f \/ turns, t, IF turns THEN n - 1 ELSE n)
      BY <1>1, <1>3, HcAtUnhealthy
    <3>2. turns = ~f
      OBVIOUS
    <3>3. (f \/ turns) = TRUE /\ (IF turns THEN n - 1 ELSE n) = k
      BY <3>2
    <3>. QED
      BY <1>5, <3>1, <3>3
  <2>2. t \in HcSession
    BY <1>1, HcAfterFailureType
  <2>3. /\ t.timers = s.timers /\ t.client = s.client /\ t.request = s.request /\ t.expectReset = s.expectReset
        /\ t.good = 0 /\ t.row = 0
    BY <1>1 DEF HcAfterFailure, HcSession
  <2>. HIDE DEF t
  <2>4. HcHostOK(m, TRUE, t)
    BY <1>1, <2>3, HcAssumption DEF HcHostOK, HcCountersOK
  <2>5. k \in Int /\ k = HcGauge(h, m, TRUE)
    BY <1>1, <1>5 DEF HcGauge, HcOne
  <2>. HIDE DEF k
  <2>6. HcFits(hc', h)
    BY <1>1, <2>1, <2>2, <2>4, <2>5 DEF HcFits
  <2>. QED
    BY <2>6, HcFitsStep
<1>. QED
  BY <1>4, <1>5 DEF HcReported, p

LEMMA HcNextInv == HcInv /\ [HcNext]_hc => HcInv'
<1>. SUFFICES ASSUME HcInv, [HcNext]_hc PROVE HcInv'
  OBVIOUS
<1>1. CASE UNCHANGED hc
  BY <1>1 DEF HcInv, HcGood
<1>2. CASE HcDestroy
  BY <1>2, HcDestroyPreserves
<1>3. ASSUME NEW h \in HcHosts, HcReport(h) \/ HcReported(h) PROVE HcInv'
  BY <1>3, HcReportPreserves, HcReportedPreserves
<1>4. ASSUME NEW h \in HcHosts, HcRemoveHost(h) \/ (\E failed \in BOOLEAN : HcAddHost(h, failed)) PROVE HcInv'
  BY <1>4, HcRemovePreserves, HcAddPreserves
<1>5. ASSUME NEW h \in HcHosts, HcTimer(h) PROVE HcInv'
  BY <1>5, HcIntervalPreserves, HcTimeoutPreserves DEF HcTimer
<1>6. ASSUME NEW h \in HcHosts, HcTcpConnected(h) \/ HcHttpClose(h) \/ HcRedisClose(h) \/ HcTcpClose(h) PROVE HcInv'
  BY <1>6, HcConnectedPreserves, HcClosePreserves
<1>7. ASSUME NEW h \in HcHosts,
             \/ \E good \in BOOLEAN : HcRedisResponse(h, good) \/ \E close \in BOOLEAN : HcHttpResponse(h, good, close)
             \/ HcTcpData(h)
      PROVE  HcInv'
  BY <1>7, HcAnswerPreserves
<1>. QED
  BY <1>1, <1>2, <1>3, <1>4, <1>5, <1>6, <1>7 DEF HcNext

LEMMA HcInvSound == HcInv => HcSound
<1>. SUFFICES ASSUME HcInv PROVE HcSound
  OBVIOUS
<1>1. hc.healthy = Cardinality({h \in HcHosts : hc.member[h] /\ ~hc.failed[h]}) /\ ~hc.early
  BY DEF HcInv, HcGood
<1>2. ASSUME NEW h \in HcHosts
      PROVE  LET s == hc.session[h]
             IN  /\ Cardinality(s.timers) = IF hc.member[h] THEN 1 ELSE 0
                 /\ "timeout" \in s.timers <=> s.request
                 /\ s.request => s.client
                 /\ hc.failed[h] => s.good < HcHealthy
                 /\ hc.member[h] /\ ~hc.failed[h] => s.bad < HcUnhealthy
  <2>. DEFINE s == hc.session[h]
  <2>1. HcHostOK(hc.member[h], hc.failed[h], s)
    BY DEF HcInv
  <2>2. /\ Cardinality({}) = 0
        /\ Cardinality({"timeout"}) = 1 /\ Cardinality({"interval"}) = 1
    BY FS_EmptySet, FS_Singleton
  <2>3. Cardinality(s.timers) = IF hc.member[h] THEN 1 ELSE 0
    BY <2>1, <2>2 DEF HcHostOK
  <2>4. s.client \in BOOLEAN /\ s.request \in BOOLEAN
    BY HcClientOK
  <2>5. "timeout" \in s.timers <=> s.request
    BY <2>1, <2>4 DEF HcHostOK
  <2>. QED
    BY <2>1, <2>3, <2>5 DEF HcHostOK, HcCountersOK
<1>. QED
  BY <1>1, <1>2 DEF HcSound

\* The health checker, for any number of hosts and any thresholds: whatever the order of
\* answers, closes, timeouts, reports of workers and updates of the host set, the gauge is
\* the number of healthy members, every session waits for exactly one thing, no counter
\* passes its threshold unnoticed, and no host turns healthy too soon.
THEOREM HcSoundHolds == HcSpec => []HcSound
<1>1. HcSpec => []HcInv
  BY HcInitInv, HcNextInv, PTL DEF HcSpec
<1>. QED
  BY <1>1, HcInvSound, PTL

(***************************************************************************)
(* Outlier detection.  That the gauge is exact needs hosts that were never *)
(* added to be neither ejected nor waiting, and that as an inductive       *)
(* invariant needs the types.                                              *)
(***************************************************************************)

OdNats == [OdHosts -> Nat]
OdState == [member : SUBSET OdHosts, left : SUBSET OdHosts, ejected : SUBSET OdHosts, count : OdNats,
            posted : OdNats, ejections : OdNats, wait : OdNats, active : Int, alive : BOOLEAN]

OdOK(p) ==
    /\ p \in OdState
    /\ p.active = Cardinality(p.ejected \cap p.member)
    /\ \A h \in p.ejected : p.ejections[h] > 0
    /\ \A h \in p.member : h \in p.ejected <=> p.wait[h] > 0
    /\ p.ejected \subseteq p.member \cup p.left
    /\ \A h \in OdHosts \ (p.member \cup p.left) : p.wait[h] = 0

OdInv == OdOK(od)

\* Counters of bad responses and posts do not matter.
LEMMA OdFrame ==
    ASSUME NEW p, NEW q \in OdState, OdOK(p), q.member = p.member, q.left = p.left, q.ejected = p.ejected,
           q.ejections = p.ejections, q.wait = p.wait, q.active = p.active
    PROVE  OdOK(q)
  BY DEF OdOK

LEMMA OdFinite ==
    ASSUME NEW s, s \subseteq OdHosts
    PROVE  IsFiniteSet(s) /\ Cardinality(s) \in Nat
  BY OdAssumption, FS_Subset, FS_CardinalityType

\* What an ejection and a return leave of the fields.
LEMMA OdEjectOK ==
    ASSUME NEW p, OdOK(p), NEW hosts, hosts \subseteq p.member \ p.ejected
    PROVE  OdOK(odEject(p, hosts))
<1>. DEFINE n == p.active + Cardinality(hosts)
            ej == p.ejected \cup hosts
            es == [h \in OdHosts |-> IF h \in hosts THEN p.ejections[h] + 1 ELSE p.ejections[h]]
            ws == [h \in OdHosts |-> IF h \in hosts THEN p.ejections[h] + 1 ELSE p.wait[h]]
            q == [p EXCEPT !.active = n, !.ejected = ej, !.ejections = es, !.wait = ws]
<1>1. odEject(p, hosts) = q
  BY DEF odEject
<1>2. /\ p \in OdState /\ p.member \subseteq OdHosts /\ p.left \subseteq OdHosts /\ p.ejected \subseteq OdHosts
      /\ p.ejections \in OdNats /\ p.wait \in OdNats /\ p.active \in Int
  BY DEF OdOK, OdState
<1>3. hosts \subseteq OdHosts /\ IsFiniteSet(hosts) /\ Cardinality(hosts) \in Nat
  BY <1>2, OdFinite
<1>4. n \in Int /\ ej \subseteq OdHosts /\ es \in OdNats /\ ws \in OdNats
  BY <1>2, <1>3 DEF OdNats
<1>5. \A h \in OdHosts : /\ h \in hosts => es[h] > 0 /\ ws[h] > 0
                         /\ h \notin hosts => es[h] = p.ejections[h] /\ ws[h] = p.wait[h]
  BY <1>2 DEF OdNats
<1>6. Cardinality(ej \cap p.member) = n
  <2>. DEFINE a == p.ejected \cap p.member
  <2>1. ej \cap p.member = a \cup hosts /\ a \cap hosts = {}
    OBVIOUS
  <2>2. IsFiniteSet(a) /\ Cardinality(a) = p.active
    BY <1>2, OdFinite DEF OdOK
  <2>. HIDE DEF a
  <2>3. Cardinality(a \cup hosts) = Cardinality(a) + Cardinality(hosts) - Cardinality(a \cap hosts)
    BY <1>3, <2>2, FS_Union
  <2>4. Cardinality(a \cap hosts) = 0
    BY <2>1, FS_EmptySet
  <2>5. Cardinality(a \cup hosts) = n
    BY <1>2, <1>3, <2>2, <2>3, <2>4
  <2>. QED
    BY <2>1, <2>5
<1>. HIDE DEF n, es, ws, ej
<1>7. /\ q \in OdState /\ q.member = p.member /\ q.left = p.left /\ q.ejected = ej /\ q.ejections = es /\ q.wait = ws
      /\ q.active = n
  BY <1>2, <1>4 DEF OdState
<1>. HIDE DEF q
<1>. USE DEF ej
<1>8. \A h \in q.ejected : q.ejections[h] > 0
  BY <1>2, <1>3, <1>5, <1>7 DEF OdOK
<1>9. \A h \in q.member : h \in q.ejected <=> q.wait[h] > 0
  BY <1>2, <1>5, <1>7 DEF OdOK
<1>10. q.ejected \subseteq q.member \cup q.left /\ \A h \in OdHosts \ (q.member \cup q.left) : q.wait[h] = 0
  BY <1>2, <1>5, <1>7 DEF OdOK
<1>. QED
  BY <1>1, <1>6, <1>7, <1>8, <1>9, <1>10 DEF OdOK

LEMMA OdUnejectOK ==
    ASSUME NEW p, OdOK(p)
    PROVE  OdOK(odUneject(p))
<1>. DEFINE waiting == p.ejected \cap p.member
            back == {h \in waiting : p.wait[h] = 1}
            n == p.active - Cardinality(back)
            ej == p.ejected \ back
            ws == [h \in OdHosts |-> IF h \in waiting THEN p.wait[h] - 1 ELSE p.wait[h]]
            q == [p EXCEPT !.ejected = ej, !.active = n, !.wait = ws]
<1>1. odUneject(p) = q
  BY DEF odUneject
<1>2. /\ p \in OdState /\ p.member \subseteq OdHosts /\ p.left \subseteq OdHosts /\ p.ejected \subseteq OdHosts
      /\ p.wait \in OdNats /\ p.active \in Int
  BY DEF OdOK, OdState
<1>3. IsFiniteSet(waiting) /\ IsFiniteSet(back) /\ Cardinality(waiting) = p.active /\ Cardinality(back) \in Nat
  BY <1>2, OdFinite DEF OdOK
<1>4. \A h \in waiting : p.wait[h] \in Nat /\ p.wait[h] > 0
  BY <1>2 DEF OdOK, OdNats
<1>5. n \in Int /\ ej \subseteq OdHosts /\ ws \in OdNats
  BY <1>2, <1>3, <1>4 DEF OdNats
<1>6. Cardinality(ej \cap p.member) = n
  <2>1. ej \cap p.member = waiting \ back /\ waiting \cap back = back
    OBVIOUS
  <2>2. Cardinality(waiting \ back) = Cardinality(waiting) - Cardinality(waiting \cap back)
    BY <1>3, FS_Difference
  <2>. QED
    BY <1>3, <2>1, <2>2
<1>7. \A h \in OdHosts : ws[h] = IF h \in waiting THEN p.wait[h] - 1 ELSE p.wait[h]
  OBVIOUS
<1>. HIDE DEF n, ws, ej
<1>8. /\ q \in OdState /\ q.member = p.member /\ q.left = p.left /\ q.ejected = ej /\ q.ejections = p.ejections
      /\ q.wait = ws /\ q.active = n
  BY <1>2, <1>5 DEF OdState
<1>. HIDE DEF q
<1>. USE DEF ej
<1>9. \A h \in q.member : h \in q.ejected <=> q.wait[h] > 0
  <2>. SUFFICES ASSUME NEW h \in q.member PROVE h \in q.ejected <=> q.wait[h] > 0
    OBVIOUS
  <2>1. CASE h \in waiting
    BY <2>1, <1>2, <1>4, <1>7, <1>8
  <2>2. CASE h \notin waiting
    BY <2>2, <1>2, <1>7, <1>8 DEF OdOK
  <2>. QED
    BY <2>1, <2>2
<1>10. \A h \in q.ejected : q.ejections[h] > 0
  BY <1>8 DEF OdOK
<1>11. q.ejected \subseteq q.member \cup q.left /\ \A h \in OdHosts \ (q.member \cup q.left) : q.wait[h] = 0
  BY <1>2, <1>7, <1>8 DEF OdOK
<1>. QED
  BY <1>1, <1>6, <1>8, <1>9, <1>10, <1>11 DEF OdOK

LEMMA OdInitInv == OdInit => OdInv
<1>. SUFFICES ASSUME OdInit PROVE OdInv
  OBVIOUS
<1>. DEFINE z == [h \in OdHosts |-> 0]
<1>1. z \in OdNats /\ \A h \in OdHosts : z[h] = 0
  BY DEF OdNats
<1>2. od = [member |-> {}, left |-> {}, ejected |-> {}, count |-> z, posted |-> z, ejections |-> z, wait |-> z,
            active |-> 0, alive |-> TRUE]
  BY DEF OdInit
<1>. HIDE DEF z
<1>3. od \in OdState
  BY <1>1, <1>2 DEF OdState
<1>4. od.member = {} /\ od.left = {} /\ od.ejected = {} /\ od.wait = z /\ od.active = 0
  BY <1>2
<1>. QED
  BY <1>1, <1>3, <1>4, FS_EmptySet DEF OdInv, OdOK

LEMMA OdResponsePreserves ==
    ASSUME OdInv, NEW h \in OdHosts, OdBadResponse(h) \/ OdGoodResponse(h)
    PROVE  OdInv'
<1>. DEFINE cs == od'.count
            ps == od'.posted
<1>1. od \in OdState /\ od.count \in OdNats /\ od.posted \in OdNats
  BY DEF OdInv, OdOK, OdState
<1>2. PICK c \in Nat, x \in Nat : od' = [od EXCEPT !.count = [od.count EXCEPT ![h] = c], !.posted = [od.posted EXCEPT ![h] = x]]
  <2>1. od.count[h] \in Nat /\ od.posted[h] \in Nat
    BY <1>1 DEF OdNats
  <2>2. CASE OdBadResponse(h)
    <3>. DEFINE c == od.count[h] + 1
                x == IF od.count[h] + 1 = OdConsecutive THEN od.posted[h] + 1 ELSE od.posted[h]
    <3>1. c \in Nat /\ x \in Nat
      BY <2>1
    <3>2. od' = [od EXCEPT !.count[h] = c, !.posted[h] = x]
      BY <2>2 DEF OdBadResponse
    <3>. HIDE DEF c, x
    <3>. QED
      BY <3>1, <3>2
  <2>3. CASE OdGoodResponse(h)
    <3>1. [od.posted EXCEPT ![h] = od.posted[h]] = od.posted
      BY <1>1 DEF OdNats
    <3>2. od' = [od EXCEPT !.count = [od.count EXCEPT ![h] = 0]]
      BY <2>3 DEF OdGoodResponse
    <3>3. od' = [od EXCEPT !.count = [od.count EXCEPT ![h] = 0], !.posted = [od.posted EXCEPT ![h] = od.posted[h]]]
      BY <1>1, <3>1, <3>2 DEF OdState
    <3>. QED
      BY <2>1, <3>3
  <2>. QED
    BY <2>2, <2>3
<1>. DEFINE ca == [od.count EXCEPT ![h] = c]
            pa == [od.posted EXCEPT ![h] = x]
<1>3. ca \in OdNats /\ pa \in OdNats
  BY <1>1 DEF OdNats
<1>. HIDE DEF ca, pa
<1>4. /\ od' \in OdState /\ od'.member = od.member /\ od'.left = od.left /\ od'.ejected = od.ejected
      /\ od'.ejections = od.ejections /\ od'.wait = od.wait /\ od'.active = od.active
  <2>1. od' = [od EXCEPT !.count = ca, !.posted = pa]
    BY <1>2 DEF ca, pa
  <2>. QED
    BY <1>1, <1>3, <2>1 DEF OdState
<1>. QED
  BY <1>4, OdFrame DEF OdInv

LEMMA OdConsecutivePreserves ==
    ASSUME OdInv, NEW h \in OdHosts, NEW enforced \in BOOLEAN, OdConsecutive5xx(h, enforced)
    PROVE  OdInv'
<1>. DEFINE x == od.posted[h] - 1
            pa == [od.posted EXCEPT ![h] = x]
            p == [od EXCEPT !.posted = pa]
<1>1. od \in OdState /\ od.posted \in OdNats
  BY DEF OdInv, OdOK, OdState
<1>2. pa \in OdNats
  BY <1>1 DEF OdNats, OdConsecutive5xx
<1>3. [od EXCEPT !.posted[h] = @ - 1] = p
  OBVIOUS
<1>. HIDE DEF pa
<1>4. OdOK(p) /\ p.member = od.member /\ p.ejected = od.ejected
  <2>1. /\ p \in OdState /\ p.member = od.member /\ p.left = od.left /\ p.ejected = od.ejected
        /\ p.ejections = od.ejections /\ p.wait = od.wait /\ p.active = od.active
    BY <1>1, <1>2 DEF OdState
  <2>. HIDE DEF p
  <2>. QED
    BY <2>1, OdFrame DEF OdInv
<1>. HIDE DEF p
<1>5. CASE od' = p
  BY <1>4, <1>5 DEF OdInv
<1>6. CASE h \in od.member /\ h \notin od.ejected /\ od' = [odEjectHost(p, h, enforced) EXCEPT !.count[h] = 0]
  <2>. DEFINE q == odEjectHost(p, h, enforced)
              ca == [q.count EXCEPT ![h] = 0]
  <2>1. OdOK(q)
    BY <1>4, <1>6, OdEjectOK DEF odEjectHost
  <2>2. q \in OdState /\ q.count \in OdNats
    BY <2>1 DEF OdOK, OdState
  <2>3. ca \in OdNats
    BY <2>2 DEF OdNats
  <2>4. od' = [q EXCEPT !.count = ca]
    BY <1>6
  <2>. HIDE DEF q, ca
  <2>5. /\ od' \in OdState /\ od'.member = q.member /\ od'.left = q.left /\ od'.ejected = q.ejected
        /\ od'.ejections = q.ejections /\ od'.wait = q.wait /\ od'.active = q.active
    BY <2>2, <2>3, <2>4 DEF OdState
  <2>. QED
    BY <2>1, <2>5, OdFrame DEF OdInv
<1>. QED
  BY <1>3, <1>5, <1>6 DEF OdConsecutive5xx

LEMMA OdIntervalPreserves ==
    ASSUME OdInv, NEW rate, OdInterval(rate)
    PROVE  OdInv'
<1>. DEFINE p == odUneject(od)
<1>1. OdOK(p)
  BY OdUnejectOK DEF OdInv
<1>2. PICK hosts \in SUBSET odOutliers(p, rate) : od' = odEject(p, hosts)
  BY DEF OdInterval
<1>3. hosts \subseteq p.member \ p.ejected
  BY DEF odOutliers
<1>. HIDE DEF p
<1>. QED
  BY <1>1, <1>2, <1>3, OdEjectOK DEF OdInv

LEMMA OdAddPreserves ==
    ASSUME OdInv, NEW h \in OdHosts, OdAddHost(h)
    PROVE  OdInv'
<1>1. /\ od \in OdState /\ od.member \subseteq OdHosts /\ od.left \subseteq OdHosts /\ od.ejected \subseteq OdHosts
      /\ h \notin od.member \cup od.left
  BY DEF OdInv, OdOK, OdState, OdAddHost
<1>2. /\ od' \in OdState /\ od'.member = od.member \cup {h} /\ od'.left = od.left /\ od'.ejected = od.ejected
      /\ od'.ejections = od.ejections /\ od'.wait = od.wait /\ od'.active = od.active
  BY <1>1 DEF OdAddHost, OdState
<1>3. h \notin od.ejected /\ od.wait[h] = 0
  BY <1>1 DEF OdInv, OdOK
<1>4. od'.ejected \cap od'.member = od.ejected \cap od.member
  BY <1>2, <1>3
<1>. QED
  BY <1>1, <1>2, <1>3, <1>4 DEF OdInv, OdOK

\* Hosts leave, all of them if the detector goes.
LEMMA OdLeavePreserves ==
    ASSUME OdInv, NEW hosts, hosts \subseteq od.member, NEW alive \in BOOLEAN,
           od' = [od EXCEPT !.alive = alive, !.member = @ \ hosts, !.left = @ \cup hosts,
                            !.active = odActiveWithout(od, hosts)]
    PROVE  OdInv'
<1>1. /\ od \in OdState /\ od.member \subseteq OdHosts /\ od.left \subseteq OdHosts /\ od.ejected \subseteq OdHosts
      /\ od.active \in Int
  BY DEF OdInv, OdOK, OdState
<1>. DEFINE n == odActiveWithout(od, hosts)
<1>2. n \in Int /\ n = Cardinality(od.ejected \cap (od.member \ hosts))
  <2>. DEFINE all == od.ejected \cap od.member
              gone == hosts \cap od.ejected
  <2>1. IsFiniteSet(all) /\ IsFiniteSet(gone) /\ Cardinality(gone) \in Nat /\ Cardinality(all) = od.active
    BY <1>1, OdFinite DEF OdInv, OdOK
  <2>2. od.ejected \cap (od.member \ hosts) = all \ gone /\ all \cap gone = gone
    OBVIOUS
  <2>. HIDE DEF all
  <2>3. Cardinality(all \ gone) = Cardinality(all) - Cardinality(all \cap gone)
    BY <2>1, FS_Difference
  <2>4. n = od.active - Cardinality(gone)
    BY DEF odActiveWithout
  <2>. HIDE DEF n, gone
  <2>5. n = Cardinality(all \ gone) /\ n \in Int
    BY <1>1, <2>1, <2>2, <2>3, <2>4
  <2>. QED
    BY <2>2, <2>5
<1>. DEFINE ms == od.member \ hosts
            ls == od.left \cup hosts
            q == [od EXCEPT !.alive = alive, !.member = ms, !.left = ls, !.active = n]
<1>3. od' = q /\ ms \subseteq OdHosts /\ ls \subseteq OdHosts
  BY <1>1
<1>. HIDE DEF n, ms, ls
<1>4. q \in OdState
  BY <1>1, <1>2, <1>3 DEF OdState
<1>5. /\ q.member = ms /\ q.left = ls /\ q.ejected = od.ejected
      /\ q.ejections = od.ejections /\ q.wait = od.wait /\ q.active = n
  BY <1>1 DEF OdState
<1>. HIDE DEF q
<1>. QED
  BY <1>1, <1>2, <1>3, <1>4, <1>5 DEF OdInv, OdOK, ms, ls

LEMMA OdNextInv == OdInv /\ [OdNext]_od => OdInv'
<1>. SUFFICES ASSUME OdInv, [OdNext]_od PROVE OdInv'
  OBVIOUS
<1>1. CASE UNCHANGED od
  BY <1>1 DEF OdInv
<1>2. CASE OdDestroy
  <2>. DEFINE no == FALSE
  <2>1. od \in OdState
    BY DEF OdInv, OdOK
  <2>2. od.member \ od.member = {} /\ no \in BOOLEAN
    OBVIOUS
  <2>3. od' = [od EXCEPT !.alive = no, !.member = @ \ od.member, !.left = @ \cup od.member,
                         !.active = odActiveWithout(od, od.member)]
    BY <1>2, <2>2 DEF OdDestroy
  <2>. HIDE DEF no
  <2>. QED
    BY <2>2, <2>3, OdLeavePreserves
<1>3. ASSUME NEW h \in OdHosts, OdRemoveHost(h) PROVE OdInv'
  <2>1. od \in OdState /\ od.alive \in BOOLEAN /\ h \in od.member
    BY <1>3 DEF OdInv, OdOK, OdState, OdRemoveHost
  <2>2. od' = [od EXCEPT !.alive = od.alive, !.member = @ \ {h}, !.left = @ \cup {h}, !.active = odActiveWithout(od, {h})]
    BY <1>3, <2>1 DEF OdRemoveHost, OdState
  <2>. QED
    BY <2>1, <2>2, OdLeavePreserves
<1>4. ASSUME NEW h \in OdHosts, OdBadResponse(h) \/ OdGoodResponse(h) \/ OdAddHost(h) PROVE OdInv'
  BY <1>4, OdResponsePreserves, OdAddPreserves
<1>5. ASSUME NEW h \in OdHosts, NEW enforced \in BOOLEAN, OdConsecutive5xx(h, enforced) PROVE OdInv'
  BY <1>5, OdConsecutivePreserves
<1>6. ASSUME NEW rate, OdInterval(rate) PROVE OdInv'
  BY <1>6, OdIntervalPreserves
<1>. QED
  BY <1>1, <1>2, <1>3, <1>4, <1>5, <1>6 DEF OdNext

\* Outlier detection, for any number of hosts, any rates and any limits: the gauge that the
\* ejection limit is computed from is exactly the number of members that are ejected, and a
\* member is ejected exactly as long as it has a time to wait.
THEOREM OdSoundHolds == OdSpec => []OdSound
<1>1. OdSpec => []OdInv
  BY OdInitInv, OdNextInv, PTL DEF OdSpec
<1>2. OdInv => OdSound
  BY DEF OdInv, OdOK, OdSound
<1>. QED
  BY <1>1, <1>2, PTL

(***************************************************************************)
(* The hosts of a cluster.  That updates are blocked exactly while checks  *)
(* are pending needs hosts of an EDS cluster that is still initializing to *)
(* be waited for; that a worker with the logical host has an address needs *)
(* one to be ahead of the host in its queue.                               *)
(***************************************************************************)

ChHost == ChAddresses \cup {"logical"}
ChPairs == (ChNames \cup {"eds"}) \X ChHost
ChHostMaps == [ChNames -> SUBSET ChHost] \cup [{"eds"} -> SUBSET ChHost]
ChAsks == [ChNames -> {"query", "timer"}] \cup [{"eds"} -> {"query", "timer"}]
ChPost == [what : {"address", "host"}, address : ChAddresses]
ChQueues == Seq(ChPost)
ChWorkers == [address : SUBSET ChAddresses, host : BOOLEAN]
ChState == [kind : ChKinds, hosts : ChHostMaps, failed : SUBSET ChPairs, checked : SUBSET ChPairs,
            healthy : SUBSET ChPairs, published : SUBSET ChPairs, initCb : BOOLEAN, pending : Nat, blocked : BOOLEAN,
            asking : ChAsks, resolved : SUBSET ChAddresses, queue : ChQueues, worker : ChWorkers]

ChListed(p) == p \in ChState /\ DOMAIN p.hosts = ChLists(p.kind) /\ DOMAIN p.asking = ChLists(p.kind)

\* The address is ahead of the host.
ChAhead(resolved, queue, worker) ==
    /\ worker.host => worker.address # {}
    /\ resolved # {} => worker.address # {} \/ \E j \in 1..Len(queue) : queue[j].what = "address"
    /\ \A i \in 1..Len(queue) : queue[i].what = "host" =>
          worker.address # {} \/ \E j \in 1..Len(queue) : j < i /\ queue[j].what = "address"

ChListsExact(p) ==
    /\ p.published = chHosts(p)
    /\ ~p.blocked => p.healthy = chHosts(p) \ p.failed

ChWaits(p) ==
    /\ p.blocked <=> p.pending > 0
    /\ p.pending > 0 => p.initCb /\ p.kind = "eds+hc"

ChMost(p) == ChListed(p) /\ ChListsExact(p) /\ ChWaits(p) /\ ChAhead(p.resolved, p.queue, p.worker)

ChOK(p) == ChMost(p) /\ (p.kind = "eds+hc" /\ p.initCb => p.hosts["eds"] = {} \/ p.pending > 0)

ChInv == ChOK(ch)

LEMMA ChTypes ==
    ASSUME NEW p, ChListed(p)
    PROVE  /\ p \in ChState /\ p.kind \in ChKinds /\ p.hosts \in ChHostMaps /\ p.failed \subseteq ChPairs
           /\ p.checked \subseteq ChPairs /\ p.healthy \subseteq ChPairs /\ p.published \subseteq ChPairs
           /\ p.initCb \in BOOLEAN /\ p.pending \in Nat /\ p.blocked \in BOOLEAN /\ p.asking \in ChAsks
           /\ p.resolved \subseteq ChAddresses /\ p.queue \in ChQueues /\ p.worker \in ChWorkers
           /\ \A n \in DOMAIN p.hosts : p.hosts[n] \subseteq ChHost /\ n \in ChNames \cup {"eds"}
           /\ chHosts(p) \subseteq ChPairs
<1>1. /\ p \in ChState /\ p.kind \in ChKinds /\ p.hosts \in ChHostMaps /\ p.failed \subseteq ChPairs
      /\ p.checked \subseteq ChPairs /\ p.healthy \subseteq ChPairs /\ p.published \subseteq ChPairs
      /\ p.initCb \in BOOLEAN /\ p.pending \in Nat /\ p.blocked \in BOOLEAN /\ p.asking \in ChAsks
      /\ p.resolved \subseteq ChAddresses /\ p.queue \in ChQueues /\ p.worker \in ChWorkers
  BY DEF ChListed, ChState
<1>2. \A n \in DOMAIN p.hosts : p.hosts[n] \subseteq ChHost /\ n \in ChNames \cup {"eds"}
  BY <1>1 DEF ChHostMaps
<1>3. chHosts(p) \subseteq ChPairs
  BY <1>2 DEF chHosts, ChPairs
<1>. QED
  BY <1>1, <1>2, <1>3

LEMMA ChUpdateFields ==
    ASSUME NEW p, ChListed(p)
    PROVE  LET q == chUpdateHosts(p)
           IN  /\ ChListed(q) /\ ChListsExact(q) /\ q.hosts = p.hosts /\ q.kind = p.kind /\ q.failed = p.failed
               /\ q.initCb = p.initCb /\ q.pending = p.pending /\ q.blocked = p.blocked /\ q.asking = p.asking
               /\ q.resolved = p.resolved /\ q.queue = p.queue /\ q.worker = p.worker
<1>. DEFINE hs == chHosts(p)
            ok == chHosts(p) \ p.failed
            q == [p EXCEPT !.published = hs, !.healthy = ok]
<1>1. p \in ChState /\ hs \subseteq ChPairs /\ ok \subseteq ChPairs
  BY ChTypes
<1>2. chUpdateHosts(p) = q
  BY DEF chUpdateHosts
<1>. HIDE DEF hs, ok
<1>3. q \in ChState
  BY <1>1 DEF ChState
<1>4. /\ q.hosts = p.hosts /\ q.kind = p.kind /\ q.failed = p.failed /\ q.published = hs /\ q.healthy = ok
      /\ q.initCb = p.initCb /\ q.pending = p.pending /\ q.blocked = p.blocked /\ q.asking = p.asking
      /\ q.resolved = p.resolved /\ q.queue = p.queue /\ q.worker = p.worker
  BY <1>1 DEF ChState
<1>. HIDE DEF q
<1>5. chHosts(q) = chHosts(p)
  BY <1>4 DEF chHosts
<1>. QED
  BY <1>2, <1>3, <1>4, <1>5 DEF ChListed, ChListsExact, hs, ok

LEMMA ChRunInitOK ==
    ASSUME NEW p, ChMost(p)
    PROVE  LET q == chRunInit(p)
           IN  /\ ChOK(q) /\ q.hosts = p.hosts /\ q.kind = p.kind /\ q.asking = p.asking
<1>1. p \in ChState /\ ChListed(p) /\ ChListsExact(p) /\ ChWaits(p) /\ p.pending \in Nat
  BY ChTypes DEF ChMost
<1>2. CASE p.initCb /\ p.pending = 0
  <2>. DEFINE no == FALSE
              q == [p EXCEPT !.initCb = no]
  <2>1. chRunInit(p) = q /\ no \in BOOLEAN /\ ~no
    BY <1>2 DEF chRunInit
  <2>. HIDE DEF no
  <2>2. q \in ChState
    BY <1>1, <2>1 DEF ChState
  <2>3. /\ q.hosts = p.hosts /\ q.kind = p.kind /\ q.failed = p.failed /\ q.published = p.published /\ q.healthy = p.healthy
        /\ q.initCb = no /\ q.pending = p.pending /\ q.blocked = p.blocked /\ q.asking = p.asking
        /\ q.resolved = p.resolved /\ q.queue = p.queue /\ q.worker = p.worker
    BY <1>1 DEF ChState
  <2>. HIDE DEF q
  <2>4. chHosts(q) = chHosts(p)
    BY <2>3 DEF chHosts
  <2>. QED
    BY <1>1, <1>2, <2>1, <2>2, <2>3, <2>4 DEF ChOK, ChMost, ChListed, ChListsExact, ChWaits
<1>3. CASE ~(p.initCb /\ p.pending = 0)
  BY <1>1, <1>3 DEF chRunInit, ChOK
<1>. QED
  BY <1>2, <1>3

\* updateDynamicHostList()
LEMMA ChListFields ==
    ASSUME NEW p, ChListed(p), NEW n, n \in DOMAIN p.hosts, NEW new \in SUBSET ChAddresses, NEW hc1 \in BOOLEAN
    PROVE  LET q == chUpdateList(p, n, new, hc1)
           IN  /\ ChListed(q) /\ q.hosts = [p.hosts EXCEPT ![n] = new \cup chKept(p, n, new, hc1)] /\ q.kind = p.kind
               /\ q.published = p.published /\ q.healthy = p.healthy
               /\ q.initCb = p.initCb /\ q.pending = p.pending /\ q.blocked = p.blocked /\ q.asking = p.asking
               /\ q.resolved = p.resolved /\ q.queue = p.queue /\ q.worker = p.worker
               /\ q.hosts = p.hosts => q.failed = p.failed
<1>. DEFINE final == new \cup chKept(p, n, new, hc1)
            added == new \ p.hosts[n]
            gone == {n} \X (p.hosts[n] \ final)
            hs == [p.hosts EXCEPT ![n] = final]
            cs == p.checked \ gone
            fs == (p.failed \ gone) \cup IF hc1 THEN {n} \X added ELSE {}
            q == [p EXCEPT !.hosts = hs, !.checked = cs, !.failed = fs]
<1>1. /\ p \in ChState /\ p.hosts \in ChHostMaps /\ p.failed \subseteq ChPairs /\ p.checked \subseteq ChPairs
      /\ p.hosts[n] \subseteq ChHost /\ n \in ChNames \cup {"eds"}
  BY ChTypes
<1>2. chUpdateList(p, n, new, hc1) = q
  BY DEF chUpdateList
<1>3. final \subseteq ChHost
  BY <1>1 DEF chKept, ChHost
<1>4. hs \in ChHostMaps /\ DOMAIN hs = DOMAIN p.hosts /\ hs[n] = final
  BY <1>1, <1>3 DEF ChHostMaps
<1>5. cs \subseteq ChPairs /\ fs \subseteq ChPairs
  <2>1. {n} \X added \subseteq ChPairs
    BY <1>1 DEF ChPairs, ChHost
  <2>. QED
    BY <1>1, <2>1
<1>6. hs = p.hosts => fs = p.failed
  <2>. SUFFICES ASSUME hs = p.hosts PROVE fs = p.failed
    OBVIOUS
  <2>1. final = p.hosts[n]
    BY <1>4
  <2>2. p.hosts[n] \ final = {} /\ added = {}
    BY <2>1
  <2>3. gone = {} /\ {n} \X added = {}
    BY <2>2
  <2>. QED
    BY <2>3
<1>. HIDE DEF hs, cs, fs
<1>7. q \in ChState
  BY <1>1, <1>4, <1>5 DEF ChState
<1>8. /\ q.hosts = hs /\ q.failed = fs /\ q.kind = p.kind /\ q.published = p.published /\ q.healthy = p.healthy
      /\ q.initCb = p.initCb /\ q.pending = p.pending /\ q.blocked = p.blocked /\ q.asking = p.asking
      /\ q.resolved = p.resolved /\ q.queue = p.queue /\ q.worker = p.worker
  BY <1>1 DEF ChState
<1>. HIDE DEF q
<1>9. ChListed(q)
  BY <1>4, <1>7, <1>8 DEF ChListed
<1>. QED
  BY <1>2, <1>6, <1>8, <1>9 DEF hs

\* Either nothing changed or the lists are made again.
LEMMA ChPublish ==
    ASSUME NEW p, ChMost(p), NEW q, ChListed(q), q.published = p.published, q.healthy = p.healthy,
           q.hosts = p.hosts => q.failed = p.failed /\ q.blocked = p.blocked
    PROVE  LET r == IF q.hosts # p.hosts THEN chUpdateHosts(q) ELSE q
           IN  /\ ChListed(r) /\ ChListsExact(r) /\ r.hosts = q.hosts /\ r.kind = q.kind
               /\ r.initCb = q.initCb /\ r.pending = q.pending /\ r.blocked = q.blocked /\ r.asking = q.asking
               /\ r.resolved = q.resolved /\ r.queue = q.queue /\ r.worker = q.worker
<1>1. CASE q.hosts # p.hosts
  BY <1>1, ChUpdateFields
<1>2. CASE q.hosts = p.hosts
  <2>1. chHosts(q) = chHosts(p)
    BY <1>2 DEF chHosts
  <2>2. ChListsExact(q)
    BY <1>2, <2>1 DEF ChMost, ChListsExact
  <2>. QED
    BY <1>2, <2>2
<1>. QED
  BY <1>1, <1>2

\* What a step does to the hosts of an EDS cluster with a health checker.
ChHostsKept(p, q) == p.kind = "eds+hc" => chHosts(p) \ chHosts(q) \subseteq p.failed

LEMMA ChSameHosts ==
    ASSUME NEW p, NEW q, q.hosts = p.hosts
    PROVE  ChHostsKept(p, q)
<1>1. chHosts(q) = chHosts(p)
  BY DEF chHosts
<1>. QED
  BY <1>1 DEF ChHostsKept

LEMMA ChEdsUpdateOK ==
    ASSUME ChInv, NEW new \in SUBSET ChAddresses, ChEdsUpdate(new)
    PROVE  ChInv' /\ ChHostsKept(ch, ch')
<1>. DEFINE checks == ch.kind = "eds+hc"
            p == chUpdateList(ch, "eds", new, checks)
            changed == p.hosts # ch.hosts
            waits == changed /\ p.initCb /\ p.kind = "eds+hc" /\ p.pending = 0
            n == IF waits THEN Cardinality(p.hosts["eds"]) ELSE p.pending
            b == p.blocked \/ waits
            q == [p EXCEPT !.pending = n, !.blocked = b]
            r == IF changed THEN chUpdateHosts(q) ELSE q
            kept == chKept(ch, "eds", new, checks)
<1>1. ch' = chRunInit(r)
  BY DEF ChEdsUpdate
<1>2. /\ ChMost(ch) /\ ChListed(ch) /\ ChListsExact(ch) /\ ChWaits(ch) /\ ChAhead(ch.resolved, ch.queue, ch.worker)
      /\ (ch.kind = "eds+hc" /\ ch.initCb => ch.hosts["eds"] = {} \/ ch.pending > 0)
      /\ DOMAIN ch.hosts = {"eds"} /\ ch.pending \in Nat /\ ch.hosts \in ChHostMaps
  BY ChTypes DEF ChInv, ChOK, ChMost, ChListed, ChLists, ChEdsUpdate
<1>3. checks \in BOOLEAN
  OBVIOUS
<1>. HIDE DEF checks
<1>4. /\ ChListed(p) /\ p.hosts = [ch.hosts EXCEPT !["eds"] = new \cup kept] /\ p.kind = ch.kind
      /\ p.published = ch.published /\ p.healthy = ch.healthy
      /\ p.initCb = ch.initCb /\ p.pending = ch.pending /\ p.blocked = ch.blocked /\ p.asking = ch.asking
      /\ p.resolved = ch.resolved /\ p.queue = ch.queue /\ p.worker = ch.worker
      /\ p.hosts = ch.hosts => p.failed = ch.failed
  BY <1>2, <1>3, ChListFields
<1>. HIDE DEF p
<1>5. p \in ChState /\ p.hosts["eds"] \subseteq ChHost /\ p.blocked \in BOOLEAN
  BY <1>2, <1>4, ChTypes DEF ChListed, ChLists
<1>6. waits => n \in Nat /\ n > 0
  <2>. SUFFICES ASSUME waits PROVE Cardinality(p.hosts["eds"]) \in Nat /\ Cardinality(p.hosts["eds"]) > 0
    OBVIOUS
  <2>1. ch.hosts["eds"] = {}
    BY <1>2, <1>4
  <2>2. p.hosts["eds"] # {}
    <3>1. \A x \in DOMAIN ch.hosts : x = "eds"
      BY <1>2
    <3>2. ch.hosts = [x \in {"eds"} |-> ch.hosts[x]]
      BY <1>2 DEF ChHostMaps
    <3>. QED
      BY <1>2, <1>4, <2>1, <3>2
  <2>3. IsFiniteSet(ChHost)
    BY ChAssumption, FS_AddElement DEF ChHost
  <2>4. IsFiniteSet(p.hosts["eds"])
    BY <1>5, <2>3, FS_Subset
  <2>. QED
    BY <2>2, <2>4, FS_CardinalityType, FS_EmptySet
<1>7. n \in Nat /\ b \in BOOLEAN /\ (n > 0 <=> b) /\ (n > 0 => ch.initCb /\ ch.kind = "eds+hc") /\ (~changed => b = p.blocked)
  BY <1>2, <1>4, <1>5, <1>6 DEF ChWaits
<1>. HIDE DEF n, b
<1>8. /\ q \in ChState /\ q.pending = n /\ q.blocked = b /\ q.hosts = p.hosts /\ q.kind = p.kind /\ q.failed = p.failed
      /\ q.published = p.published /\ q.healthy = p.healthy /\ q.initCb = p.initCb /\ q.asking = p.asking
      /\ q.resolved = p.resolved /\ q.queue = p.queue /\ q.worker = p.worker
  BY <1>5, <1>7 DEF ChState
<1>. HIDE DEF q
<1>9. ChListed(q)
  BY <1>4, <1>8 DEF ChListed
<1>10. q.hosts = ch.hosts => q.failed = ch.failed /\ q.blocked = ch.blocked
  BY <1>4, <1>7, <1>8
<1>11. r = IF q.hosts # ch.hosts THEN chUpdateHosts(q) ELSE q
  BY <1>8
<1>. HIDE DEF r
<1>12. /\ ChListed(r) /\ ChListsExact(r) /\ r.hosts = q.hosts /\ r.kind = q.kind
       /\ r.initCb = q.initCb /\ r.pending = q.pending /\ r.blocked = q.blocked
       /\ r.resolved = q.resolved /\ r.queue = q.queue /\ r.worker = q.worker
  BY <1>2, <1>4, <1>8, <1>9, <1>10, <1>11, ChPublish
<1>13. ChMost(r)
  BY <1>2, <1>4, <1>7, <1>8, <1>12 DEF ChMost, ChWaits
<1>14. ChOK(ch') /\ ch'.hosts = r.hosts
  BY <1>1, <1>13, ChRunInitOK
<1>15. ch'.hosts = [ch.hosts EXCEPT !["eds"] = new \cup kept]
  BY <1>4, <1>8, <1>12, <1>14
<1>16. ChHostsKept(ch, ch')
  <2>. SUFFICES ASSUME ch.kind = "eds+hc" PROVE chHosts(ch) \ chHosts(ch') \subseteq ch.failed
    BY DEF ChHostsKept
  <2>1. kept = {a \in ch.hosts["eds"] \ new : <<"eds", a>> \notin ch.failed}
    BY DEF chKept, checks
  <2>2. chHosts(ch) = {"eds"} \X ch.hosts["eds"]
    BY <1>2 DEF chHosts
  <2>3. chHosts(ch') = {"eds"} \X (new \cup kept)
    <3>1. DOMAIN ch'.hosts = {"eds"} /\ ch'.hosts["eds"] = new \cup kept
      BY <1>2, <1>15
    <3>. QED
      BY <3>1 DEF chHosts
  <2>. HIDE DEF kept
  <2>. SUFFICES ASSUME NEW a \in ch.hosts["eds"], a \notin new \cup kept PROVE <<"eds", a>> \in ch.failed
    BY <2>2, <2>3
  <2>. QED
    BY <2>1
<1>. QED
  BY <1>14, <1>16 DEF ChInv

LEMMA ChEdsNothingOK ==
    ASSUME ChInv, ChEdsNothing
    PROVE  ChInv' /\ ChHostsKept(ch, ch')
  BY ChRunInitOK, ChSameHosts DEF ChInv, ChOK, ChEdsNothing

\* The checks of an EDS cluster.
LEMMA ChCheckedOK ==
    ASSUME ChInv, NEW a \in ChAddresses, NEW failed \in BOOLEAN, ChChecked(a, failed)
    PROVE  ChInv' /\ ChHostsKept(ch, ch')
<1>. DEFINE h == <<"eds", a>>
            changed == failed # (h \in ch.failed)
            left == ch.pending - 1
            fs == IF failed THEN ch.failed \cup {h} ELSE ch.failed \ {h}
            cs == ch.checked \cup {h}
            p == [ch EXCEPT !.failed = fs, !.checked = cs]
            q == IF changed /\ ~ch.blocked THEN chUpdateHosts(p) ELSE p
<1>1. /\ ChListed(ch) /\ ch \in ChState /\ ChListsExact(ch) /\ ChWaits(ch) /\ ChAhead(ch.resolved, ch.queue, ch.worker)
      /\ (ch.kind = "eds+hc" /\ ch.initCb => ch.hosts["eds"] = {} \/ ch.pending > 0)
      /\ ch.pending \in Nat /\ ch.failed \subseteq ChPairs /\ ch.checked \subseteq ChPairs /\ ch.kind = "eds+hc"
      /\ ch.blocked \in BOOLEAN
  BY ChTypes DEF ChInv, ChOK, ChMost, ChListed, ChChecked
<1>2. ch' = IF ch.pending = 0 THEN q
            ELSE IF left > 0 THEN [q EXCEPT !.pending = left]
            ELSE [chUpdateHosts(q) EXCEPT !.pending = 0, !.blocked = FALSE, !.initCb = FALSE]
  BY DEF ChChecked
<1>3. h \in ChPairs
  BY DEF ChPairs, ChHost
<1>4. fs \subseteq ChPairs /\ cs \subseteq ChPairs /\ (~changed => fs = ch.failed)
  BY <1>1, <1>3
<1>. HIDE DEF fs, cs, changed, h
<1>5. /\ p \in ChState /\ p.failed = fs /\ p.hosts = ch.hosts /\ p.kind = ch.kind /\ p.published = ch.published
      /\ p.healthy = ch.healthy /\ p.initCb = ch.initCb /\ p.pending = ch.pending /\ p.blocked = ch.blocked
      /\ p.asking = ch.asking /\ p.resolved = ch.resolved /\ p.queue = ch.queue /\ p.worker = ch.worker
  BY <1>1, <1>4 DEF ChState
<1>. HIDE DEF p
<1>6. ChListed(p) /\ chHosts(p) = chHosts(ch)
  BY <1>1, <1>5 DEF ChListed, chHosts
<1>7. /\ ChListed(q) /\ ChListsExact(q) /\ q.hosts = ch.hosts /\ q.kind = ch.kind
      /\ q.initCb = ch.initCb /\ q.pending = ch.pending /\ q.blocked = ch.blocked /\ q.asking = ch.asking
      /\ q.resolved = ch.resolved /\ q.queue = ch.queue /\ q.worker = ch.worker
  <2>1. CASE changed /\ ~ch.blocked
    BY <1>5, <1>6, <2>1, ChUpdateFields
  <2>2. CASE ~(changed /\ ~ch.blocked)
    <3>1. q = p
      BY <2>2
    <3>2. ChListsExact(p)
      BY <1>1, <1>4, <1>5, <1>6, <2>2 DEF ChListsExact
    <3>. QED
      BY <1>5, <1>6, <3>1, <3>2
  <2>. QED
    BY <2>1, <2>2
<1>. HIDE DEF q
<1>8. CASE ch.pending = 0
  <2>1. ch' = q
    BY <1>2, <1>8
  <2>2. ChOK(q)
    BY <1>1, <1>7 DEF ChOK, ChMost, ChWaits
  <2>. QED
    BY <1>7, <2>1, <2>2, ChSameHosts DEF ChInv
<1>9. CASE ch.pending # 0 /\ left > 0
  <2>1. ch' = [q EXCEPT !.pending = left] /\ left \in Nat
    BY <1>1, <1>2, <1>9
  <2>. HIDE DEF left
  <2>2. q \in ChState
    BY <1>7 DEF ChListed
  <2>3. /\ ch' \in ChState /\ ch'.pending = left /\ ch'.hosts = q.hosts /\ ch'.kind = q.kind /\ ch'.failed = q.failed
        /\ ch'.published = q.published /\ ch'.healthy = q.healthy /\ ch'.initCb = q.initCb /\ ch'.blocked = q.blocked
        /\ ch'.asking = q.asking /\ ch'.resolved = q.resolved /\ ch'.queue = q.queue /\ ch'.worker = q.worker
    BY <2>1, <2>2 DEF ChState
  <2>4. chHosts(ch') = chHosts(q)
    BY <2>3 DEF chHosts
  <2>5. ch.blocked /\ ch.initCb
    BY <1>1, <1>9 DEF ChWaits
  <2>6. ChOK(ch')
    BY <1>1, <1>7, <1>9, <2>3, <2>4, <2>5 DEF ChOK, ChMost, ChListed, ChListsExact, ChWaits
  <2>. QED
    BY <1>7, <2>3, <2>6, ChSameHosts DEF ChInv
<1>10. CASE ch.pending # 0 /\ ~(left > 0)
  <2>. DEFINE r == chUpdateHosts(q)
              no == FALSE
              zero == 0
  <2>1. /\ ChListed(r) /\ ChListsExact(r) /\ r.hosts = q.hosts /\ r.kind = q.kind /\ r.failed = q.failed
        /\ r.asking = q.asking /\ r.resolved = q.resolved /\ r.queue = q.queue /\ r.worker = q.worker
    BY <1>7, ChUpdateFields
  <2>2. ch' = [r EXCEPT !.pending = zero, !.blocked = no, !.initCb = no] /\ no \in BOOLEAN /\ ~no /\ zero \in Nat /\ zero = 0
    BY <1>2, <1>10
  <2>. HIDE DEF r, no, zero
  <2>3. r \in ChState
    BY <2>1 DEF ChListed
  <2>4. /\ ch' \in ChState /\ ch'.pending = zero /\ ch'.hosts = r.hosts /\ ch'.kind = r.kind /\ ch'.failed = r.failed
        /\ ch'.published = r.published /\ ch'.healthy = r.healthy /\ ch'.initCb = no /\ ch'.blocked = no
        /\ ch'.asking = r.asking /\ ch'.resolved = r.resolved /\ ch'.queue = r.queue /\ ch'.worker = r.worker
    BY <2>2, <2>3 DEF ChState
  <2>5. chHosts(ch') = chHosts(r)
    BY <2>4 DEF chHosts
  <2>6. r.healthy = chHosts(r) \ r.failed
    <3>1. r.healthy = chHosts(q) \ q.failed
      BY <1>7 DEF r, chUpdateHosts, ChListed, ChState
    <3>2. chHosts(r) = chHosts(q)
      BY <2>1 DEF chHosts
    <3>. QED
      BY <2>1, <3>1, <3>2
  <2>7. ChOK(ch')
    BY <1>1, <1>7, <2>1, <2>2, <2>4, <2>5, <2>6 DEF ChOK, ChMost, ChListed, ChListsExact, ChWaits
  <2>. QED
    BY <1>7, <2>1, <2>4, <2>7, ChSameHosts DEF ChInv
<1>. QED
  BY <1>8, <1>9, <1>10

LEMMA ChInitInv == ChInit => ChInv
<1>. SUFFICES ASSUME ChInit PROVE ChInv
  OBVIOUS
<1>1. PICK kind \in ChKinds :
      ch = [kind |-> kind, hosts |-> [n \in ChLists(kind) |-> {}], failed |-> {}, checked |-> {}, healthy |-> {},
            published |-> {}, initCb |-> TRUE, pending |-> 0, blocked |-> FALSE,
            asking |-> [n \in ChLists(kind) |-> "query"], resolved |-> {}, queue |-> <<>>,
            worker |-> [address |-> {}, host |-> FALSE]]
  BY DEF ChInit
<1>. DEFINE hs == [n \in ChLists(kind) |-> {}]
            as == [n \in ChLists(kind) |-> "query"]
            w == [address |-> {}, host |-> FALSE]
<1>2. hs \in ChHostMaps /\ DOMAIN hs = ChLists(kind)
  BY DEF ChHostMaps, ChLists
<1>3. as \in ChAsks /\ DOMAIN as = ChLists(kind)
  BY DEF ChAsks, ChLists
<1>4. w \in ChWorkers /\ ~w.host
  BY DEF ChWorkers
<1>5. UNION {{n} \X hs[n] : n \in DOMAIN hs} = {}
  BY <1>2
<1>6. kind = "eds+hc" => hs["eds"] = {}
  BY DEF ChLists
<1>. HIDE DEF hs, as, w
<1>7. <<>> \in ChQueues /\ Len(<<>>) = 0
  BY DEF ChQueues
<1>8. ch = [kind |-> kind, hosts |-> hs, failed |-> {}, checked |-> {}, healthy |-> {},
            published |-> {}, initCb |-> TRUE, pending |-> 0, blocked |-> FALSE,
            asking |-> as, resolved |-> {}, queue |-> <<>>, worker |-> w]
  BY <1>1 DEF hs, as, w
<1>9. ch \in ChState
  BY <1>2, <1>3, <1>4, <1>7, <1>8 DEF ChState
<1>10. /\ ch.kind = kind /\ ch.hosts = hs /\ ch.failed = {} /\ ch.healthy = {} /\ ch.published = {} /\ ch.pending = 0
       /\ ch.asking = as /\ ch.resolved = {} /\ ch.queue = <<>> /\ ch.worker = w /\ ~ch.blocked
  BY <1>8
<1>11. chHosts(ch) = {}
  BY <1>5, <1>10 DEF chHosts
<1>12. ChListed(ch) /\ ChListsExact(ch) /\ ChWaits(ch)
  BY <1>2, <1>3, <1>9, <1>10, <1>11 DEF ChListed, ChListsExact, ChWaits
<1>13. ChAhead(ch.resolved, ch.queue, ch.worker)
  BY <1>4, <1>7, <1>10 DEF ChAhead
<1>. QED
  BY <1>6, <1>10, <1>12, <1>13 DEF ChInv, ChOK, ChMost

\* A change of nothing but what is asked of the resolver.
LEMMA ChAskOK ==
    ASSUME NEW p, ChOK(p), NEW n \in DOMAIN p.asking, NEW s \in {"query", "timer"}
    PROVE  LET q == [p EXCEPT !.asking[n] = s]
           IN  ChOK(q) /\ q.hosts = p.hosts /\ q.kind = p.kind
<1>. DEFINE as == [p.asking EXCEPT ![n] = s]
            q == [p EXCEPT !.asking = as]
<1>1. p \in ChState /\ ChListed(p) /\ p.asking \in ChAsks
  BY ChTypes DEF ChOK, ChMost
<1>2. as \in ChAsks /\ DOMAIN as = DOMAIN p.asking
  BY <1>1 DEF ChAsks
<1>. HIDE DEF as
<1>3. q \in ChState
  BY <1>1, <1>2 DEF ChState
<1>4. /\ q.hosts = p.hosts /\ q.kind = p.kind /\ q.failed = p.failed /\ q.published = p.published /\ q.healthy = p.healthy
      /\ q.initCb = p.initCb /\ q.pending = p.pending /\ q.blocked = p.blocked /\ q.asking = as
      /\ q.resolved = p.resolved /\ q.queue = p.queue /\ q.worker = p.worker
  BY <1>1 DEF ChState
<1>5. q = [p EXCEPT !.asking[n] = s]
  BY DEF as
<1>. HIDE DEF q
<1>6. chHosts(q) = chHosts(p)
  BY <1>4 DEF chHosts
<1>7. ChListed(q)
  BY <1>1, <1>2, <1>3, <1>4 DEF ChListed
<1>8. ChOK(q)
  BY <1>4, <1>6, <1>7 DEF ChOK, ChMost, ChListsExact, ChWaits
<1>. QED
  BY <1>4, <1>5, <1>8

LEMMA ChResolvedOK ==
    ASSUME NEW p, ChMost(p), NEW n \in DOMAIN p.asking
    PROVE  ChOK(chResolved(p, n)) /\ chResolved(p, n).hosts = p.hosts /\ chResolved(p, n).kind = p.kind
<1>. DEFINE q == chRunInit(p)
            s == "timer"
<1>1. ChOK(q) /\ q.hosts = p.hosts /\ q.kind = p.kind /\ q.asking = p.asking
  BY ChRunInitOK
<1>2. chResolved(p, n) = [q EXCEPT !.asking[n] = s] /\ s \in {"query", "timer"}
  BY DEF chResolved
<1>. HIDE DEF q, s
<1>3. n \in DOMAIN q.asking
  BY <1>1
<1>4. LET r == [q EXCEPT !.asking[n] = s] IN ChOK(r) /\ r.hosts = q.hosts /\ r.kind = q.kind
  BY <1>1, <1>2, <1>3, ChAskOK
<1>. QED
  BY <1>1, <1>2, <1>4

LEMMA ChResolveTimerOK ==
    ASSUME ChInv, NEW n \in DOMAIN ch.asking, ChResolveTimer(n)
    PROVE  ChInv' /\ ChHostsKept(ch, ch')
<1>. DEFINE s == "query"
<1>1. ch' = [ch EXCEPT !.asking[n] = s] /\ s \in {"query", "timer"}
  BY DEF ChResolveTimer
<1>. HIDE DEF s
<1>2. ChOK(ch') /\ ch'.hosts = ch.hosts
  BY <1>1, ChAskOK DEF ChInv
<1>. QED
  BY <1>2, ChSameHosts DEF ChInv

LEMMA ChStrictResolvedOK ==
    ASSUME ChInv, NEW n \in DOMAIN ch.asking, NEW new \in SUBSET ChAddresses, ChStrictResolved(n, new)
    PROVE  ChInv' /\ ChHostsKept(ch, ch')
<1>. DEFINE no == FALSE
            p == chUpdateList(ch, n, new, no)
            r == IF p.hosts # ch.hosts THEN chUpdateHosts(p) ELSE p
<1>0. no \in BOOLEAN
  OBVIOUS
<1>1. ch' = chResolved(r, n) /\ ch.kind = "strict dns"
  BY DEF ChStrictResolved
<1>. HIDE DEF no
<1>2. ChMost(ch) /\ ChListed(ch) /\ ChWaits(ch) /\ ChAhead(ch.resolved, ch.queue, ch.worker) /\ n \in DOMAIN ch.hosts
  BY DEF ChInv, ChOK, ChMost, ChListed
<1>3. /\ ChListed(p) /\ p.hosts = [ch.hosts EXCEPT ![n] = new \cup chKept(ch, n, new, no)] /\ p.kind = ch.kind
      /\ p.published = ch.published /\ p.healthy = ch.healthy
      /\ p.initCb = ch.initCb /\ p.pending = ch.pending /\ p.blocked = ch.blocked /\ p.asking = ch.asking
      /\ p.resolved = ch.resolved /\ p.queue = ch.queue /\ p.worker = ch.worker
      /\ p.hosts = ch.hosts => p.failed = ch.failed
  <2>1. ChListed(ch) /\ n \in DOMAIN ch.hosts
    BY <1>2
  <2>. QED
    BY <1>0, <2>1, ChListFields
<1>. HIDE DEF p
<1>4. /\ ChListed(r) /\ ChListsExact(r) /\ r.kind = p.kind
      /\ r.initCb = p.initCb /\ r.pending = p.pending /\ r.blocked = p.blocked /\ r.asking = p.asking
      /\ r.resolved = p.resolved /\ r.queue = p.queue /\ r.worker = p.worker
  BY <1>2, <1>3, ChPublish
<1>. HIDE DEF r
<1>5. ChMost(r) /\ n \in DOMAIN r.asking
  BY <1>2, <1>3, <1>4 DEF ChMost, ChWaits
<1>6. ChOK(ch')
  BY <1>1, <1>5, ChResolvedOK
<1>. QED
  BY <1>1, <1>6 DEF ChInv, ChHostsKept

LEMMA ChAheadAddress ==
    ASSUME NEW resolved, NEW queue \in ChQueues, NEW worker, ChAhead(resolved, queue, worker),
           NEW a \in ChAddresses, NEW now
    PROVE  LET q == Append(queue, [what |-> "address", address |-> a])
           IN  ChAhead(now, q, worker) /\ q \in ChQueues
<1>. DEFINE m == [what |-> "address", address |-> a]
            q == Append(queue, m)
<1>1. m \in ChPost /\ m.what = "address"
  BY DEF ChPost
<1>. HIDE DEF m
<1>2. /\ q \in ChQueues /\ Len(q) = Len(queue) + 1 /\ Len(queue) \in Nat
      /\ \A i \in 1..Len(queue) : q[i] = queue[i]
      /\ q[Len(queue) + 1] = m
  BY <1>1 DEF ChQueues
<1>. HIDE DEF q
<1>3. \E j \in 1..Len(q) : q[j].what = "address"
  BY <1>1, <1>2
<1>4. ASSUME NEW i \in 1..Len(q), q[i].what = "host"
      PROVE  worker.address # {} \/ \E j \in 1..Len(q) : j < i /\ q[j].what = "address"
  <2>1. i \in 1..Len(queue)
    BY <1>1, <1>2, <1>4
  <2>2. worker.address # {} \/ \E j \in 1..Len(queue) : j < i /\ queue[j].what = "address"
    BY <1>2, <1>4, <2>1 DEF ChAhead
  <2>. QED
    BY <1>2, <2>2
<1>. QED
  BY <1>2, <1>3, <1>4 DEF ChAhead, q, m

LEMMA ChAheadHost ==
    ASSUME NEW resolved, NEW queue \in ChQueues, NEW worker, ChAhead(resolved, queue, worker), resolved # {},
           NEW a \in ChAddresses
    PROVE  LET q == Append(queue, [what |-> "host", address |-> a])
           IN  ChAhead(resolved, q, worker) /\ q \in ChQueues
<1>. DEFINE m == [what |-> "host", address |-> a]
            q == Append(queue, m)
<1>1. m \in ChPost
  BY DEF ChPost
<1>. HIDE DEF m
<1>2. /\ q \in ChQueues /\ Len(q) = Len(queue) + 1 /\ Len(queue) \in Nat
      /\ \A i \in 1..Len(queue) : q[i] = queue[i]
  BY <1>1 DEF ChQueues
<1>. HIDE DEF q
<1>3. worker.address # {} \/ \E j \in 1..Len(queue) : queue[j].what = "address"
  BY DEF ChAhead
<1>4. ASSUME NEW i \in 1..Len(q), q[i].what = "host"
      PROVE  worker.address # {} \/ \E j \in 1..Len(q) : j < i /\ q[j].what = "address"
  <2>1. CASE i \in 1..Len(queue)
    <3>1. worker.address # {} \/ \E j \in 1..Len(queue) : j < i /\ queue[j].what = "address"
      BY <1>2, <1>4, <2>1 DEF ChAhead
    <3>. QED
      BY <1>2, <3>1
  <2>2. CASE i = Len(queue) + 1
    BY <1>2, <1>3, <2>2
  <2>. QED
    BY <1>2, <2>1, <2>2
<1>5. worker.address # {} \/ \E j \in 1..Len(q) : q[j].what = "address"
  BY <1>2, <1>3
<1>. QED
  BY <1>2, <1>4, <1>5 DEF ChAhead, q, m

LEMMA ChLogicalPostsOK ==
    ASSUME NEW p, ChMost(p), NEW a \in ChAddresses
    PROVE  chLogicalPosts(p, a) \in ChQueues /\ ChAhead({a}, chLogicalPosts(p, a), p.worker)
<1>1. p.queue \in ChQueues /\ ChAhead(p.resolved, p.queue, p.worker)
  BY ChTypes DEF ChMost
<1>. DEFINE q == chPostAddress(p, a, p.queue)
<1>2. q \in ChQueues /\ ChAhead({a}, q, p.worker)
  <2>1. CASE p.resolved # {a}
    BY <1>1, <2>1, ChAheadAddress DEF chPostAddress
  <2>2. CASE p.resolved = {a}
    BY <1>1, <2>2 DEF chPostAddress
  <2>. QED
    BY <2>1, <2>2
<1>. HIDE DEF q
<1>3. chPostHost(p, a, q) \in ChQueues /\ ChAhead({a}, chPostHost(p, a, q), p.worker)
  <2>1. {a} # {}
    OBVIOUS
  <2>2. CASE p.published = {}
    BY <1>2, <2>1, <2>2, ChAheadHost DEF chPostHost
  <2>3. CASE p.published # {}
    BY <1>2, <2>3 DEF chPostHost
  <2>. QED
    BY <2>2, <2>3
<1>. QED
  BY <1>3 DEF chLogicalPosts, q

LEMMA ChLogicalResolvedOK ==
    ASSUME ChInv, "eds" \in DOMAIN ch.asking, NEW addresses \in SUBSET ChAddresses, ChLogicalResolved(addresses)
    PROVE  ChInv' /\ ChHostsKept(ch, ch')
<1>1. ChMost(ch) /\ ChListed(ch) /\ ChWaits(ch) /\ ch.kind = "logical dns" /\ ch \in ChState /\ ch.hosts \in ChHostMaps
  BY ChTypes DEF ChInv, ChOK, ChMost, ChLogicalResolved
<1>2. ASSUME NEW a \in addresses, ch' = chResolved(chLogicalHost(ch, a), "eds")
      PROVE  ChOK(ch')
  <2>. DEFINE one == {a}
              hs == [ch.hosts EXCEPT !["eds"] = {"logical"}]
              posts == chLogicalPosts(ch, a)
              p == [ch EXCEPT !.resolved = one, !.hosts = hs, !.queue = posts]
  <2>1. a \in ChAddresses /\ one \subseteq ChAddresses /\ posts \in ChQueues /\ ChAhead(one, posts, ch.worker)
    BY <1>1, ChLogicalPostsOK
  <2>2. hs \in ChHostMaps /\ DOMAIN hs = DOMAIN ch.hosts
    BY <1>1 DEF ChHostMaps, ChHost
  <2>3. chLogicalHost(ch, a) = chUpdateHosts(p)
    BY DEF chLogicalHost
  <2>. HIDE DEF one, hs, posts
  <2>4. p \in ChState
    BY <1>1, <2>1, <2>2 DEF ChState
  <2>5. /\ p.hosts = hs /\ p.kind = ch.kind /\ p.initCb = ch.initCb /\ p.pending = ch.pending /\ p.blocked = ch.blocked
        /\ p.asking = ch.asking /\ p.resolved = one /\ p.queue = posts /\ p.worker = ch.worker
    BY <1>1 DEF ChState
  <2>. HIDE DEF p
  <2>6. ChListed(p)
    BY <1>1, <2>2, <2>4, <2>5 DEF ChListed
  <2>. DEFINE r == chUpdateHosts(p)
  <2>7. /\ ChListed(r) /\ ChListsExact(r) /\ r.kind = p.kind /\ r.initCb = p.initCb /\ r.pending = p.pending
        /\ r.blocked = p.blocked /\ r.asking = p.asking /\ r.resolved = p.resolved /\ r.queue = p.queue /\ r.worker = p.worker
    BY <2>6, ChUpdateFields
  <2>. HIDE DEF r
  <2>8. ChMost(r) /\ "eds" \in DOMAIN r.asking
    BY <1>1, <2>1, <2>5, <2>7 DEF ChMost, ChWaits
  <2>. QED
    BY <1>2, <2>3, <2>8, ChResolvedOK DEF r
<1>3. CASE ch' = chResolved(ch, "eds")
  BY <1>1, <1>3, ChResolvedOK DEF ChInv, ChHostsKept
<1>. QED
  BY <1>1, <1>2, <1>3 DEF ChInv, ChHostsKept, ChLogicalResolved

\* The worker takes the first closure.
LEMMA ChWorkerOK ==
    ASSUME ChInv, ChWorker
    PROVE  ChInv' /\ ChHostsKept(ch, ch')
<1>. DEFINE m == Head(ch.queue)
            t == Tail(ch.queue)
            yes == TRUE
            w == IF m.what = "host" THEN [ch.worker EXCEPT !.host = yes] ELSE [ch.worker EXCEPT !.address = {m.address}]
<1>1. /\ ch \in ChState /\ ChMost(ch) /\ ch.queue \in ChQueues /\ ch.worker \in ChWorkers /\ ch.queue # <<>>
      /\ ChAhead(ch.resolved, ch.queue, ch.worker)
  BY ChTypes DEF ChInv, ChOK, ChMost, ChWorker
<1>2. ch' = [ch EXCEPT !.queue = t, !.worker = w]
  BY DEF ChWorker
<1>3. /\ t \in ChQueues /\ Len(t) = Len(ch.queue) - 1 /\ Len(ch.queue) \in Nat \ {0}
      /\ m = ch.queue[1] /\ m \in ChPost /\ \A i \in 1..Len(t) : t[i] = ch.queue[i + 1]
  BY <1>1 DEF ChQueues
<1>4. m.what \in {"address", "host"} /\ m.address \in ChAddresses
  BY <1>3 DEF ChPost
<1>5. yes \in BOOLEAN /\ yes
  OBVIOUS
<1>. HIDE DEF m, t, yes
<1>6. /\ w \in ChWorkers /\ (m.what = "host" => w.address = ch.worker.address)
      /\ (m.what = "address" => w.host = ch.worker.host /\ w.address # {})
  BY <1>1, <1>4, <1>5 DEF ChWorkers
<1>. HIDE DEF w
<1>7. ChAhead(ch.resolved, t, w)
  <2>1. CASE m.what = "address"
    BY <1>6, <2>1 DEF ChAhead
  <2>2. CASE m.what = "host"
    <3>1. ch.worker.address # {}
      BY <1>1, <1>3, <2>2 DEF ChAhead
    <3>. QED
      BY <1>6, <2>2, <3>1 DEF ChAhead
  <2>. QED
    BY <1>4, <2>1, <2>2
<1>8. ch' \in ChState
  BY <1>1, <1>2, <1>3, <1>6 DEF ChState
<1>9. /\ ch'.hosts = ch.hosts /\ ch'.kind = ch.kind /\ ch'.failed = ch.failed /\ ch'.published = ch.published
      /\ ch'.healthy = ch.healthy /\ ch'.initCb = ch.initCb /\ ch'.pending = ch.pending /\ ch'.blocked = ch.blocked
      /\ ch'.asking = ch.asking /\ ch'.resolved = ch.resolved /\ ch'.queue = t /\ ch'.worker = w
  BY <1>1, <1>2 DEF ChState
<1>10. chHosts(ch') = chHosts(ch)
  BY <1>9 DEF chHosts
<1>11. ChOK(ch')
  BY <1>7, <1>8, <1>9, <1>10 DEF ChInv, ChOK, ChMost, ChListed, ChListsExact, ChWaits
<1>. QED
  BY <1>9, <1>11, ChSameHosts DEF ChInv

LEMMA ChNextOK ==
    ASSUME ChInv, ChNext
    PROVE  ChInv' /\ ChHostsKept(ch, ch')
<1>1. ASSUME NEW n \in DOMAIN ch.asking, ChDnsAnswer(n)
      PROVE  ChInv' /\ ChHostsKept(ch, ch')
  BY <1>1, ChStrictResolvedOK, ChLogicalResolvedOK DEF ChDnsAnswer
<1>. QED
  BY <1>1, ChEdsUpdateOK, ChEdsNothingOK, ChWorkerOK, ChCheckedOK, ChResolveTimerOK DEF ChNext

LEMMA ChStepInv == ChInv /\ [ChNext]_ch => ChInv'
<1>1. ASSUME ChInv, UNCHANGED ch PROVE ChInv'
  BY <1>1 DEF ChInv
<1>. QED
  BY <1>1, ChNextOK

LEMMA ChAlways == ChSpec => []ChInv
  BY ChInitInv, ChStepInv, PTL DEF ChSpec

\* The lists that the load balancers read are exact: hosts_ always, healthy_hosts_
\* whenever updates are not held up; they are held up exactly while an EDS cluster
\* waits for its first checks, and a worker that was given the logical host of
\* LogicalDnsCluster has an address to connect to.
THEOREM ChSoundHolds == ChSpec => []ChSound
<1>1. ChInv => ChSound
  BY DEF ChInv, ChOK, ChMost, ChListsExact, ChWaits, ChAhead, ChSound
<1>. QED
  BY <1>1, ChAlways, PTL

\* updateDynamicHostList(): whatever the updates and the order of the checks, a
\* host of an EDS cluster with a health checker goes only once it has failed.
THEOREM ChKeepsHealthyHolds == ChSpec => ChKeepsHealthy
<1>. DEFINE Kept == ch.kind = "eds+hc" => chHosts(ch) \ chHosts(ch)' \subseteq ch.failed
<1>1. chHosts(ch)' = chHosts(ch')
  BY DEF chHosts
<1>2. ChInv /\ [ChNext]_ch => [Kept]_ch
  BY <1>1, ChNextOK DEF ChHostsKept
<1>. QED
  BY <1>2, ChAlways, PTL DEF ChSpec, ChKeepsHealthy

-----------------------------------------------------------------------------
(***************************************************************************)
(* Loops over sequences.  What the library's induction theorems say of     *)
(* every predicate is here said of sets, by the least number that is not   *)
(* in them.                                                                *)
(***************************************************************************)

LEMMA NatLeast ==
    ASSUME NEW T, T \subseteq Nat, T # {}
    PROVE  \E m \in T : \A n \in T : m <= n
<1>. DEFINE R == OpToRel(<, Nat)
<1>1. IsWellFoundedOn(R, Nat)
  BY NatLessThanWellFounded
<1>2. \A i, j \in Nat : i < j => <<i, j>> \in R
  BY DEF OpToRel
<1>. HIDE DEF R
<1>3. PICK m \in T : \A n \in T : ~(<<n, m>> \in R)
  BY <1>1, WFMin
<1>4. \A n \in T : n \in Nat /\ ~(n < m)
  BY <1>2, <1>3
<1>. QED
  BY <1>3, <1>4

\* A loop of N turns, whose turn i takes state s to F[<<s, i>>], has its N + 1 states.
LoopOf(g, S, p, N, F) == g \in [0..N -> S] /\ g[0] = p /\ \A i \in 1..N : g[i] = F[<<g[i - 1], i>>]

LEMMA LoopExists ==
    ASSUME NEW S, NEW p, p \in S, NEW N, N \in Nat, NEW F, F \in [S \X (1..N) -> S]
    PROVE  \E g : LoopOf(g, S, p, N, F)
<1>. DEFINE Has(n) == \E g \in [0..n -> S] : g[0] = p /\ \A i \in 1..n : g[i] = F[<<g[i - 1], i>>]
            T == {n \in 0..N : ~Has(n)}
<1>1. SUFFICES ASSUME N \in T PROVE FALSE
  BY DEF LoopOf
<1>2. PICK m \in T : \A n \in T : m <= n
  <2>1. T \subseteq Nat /\ T # {}
    BY <1>1
  <2>. HIDE DEF T
  <2>. QED
    BY <2>1, NatLeast
<1>3. m \in 0..N /\ ~Has(m)
  BY <1>2
<1>4. Has(0)
  <2>. DEFINE g == [i \in 0..0 |-> p]
  <2>1. g \in [0..0 -> S] /\ g[0] = p /\ 1..0 = {}
    OBVIOUS
  <2>. HIDE DEF g
  <2>. QED
    BY <2>1
<1>5. m # 0
  BY <1>3, <1>4
<1>6. m - 1 \in 0..N /\ m \in 1..N /\ ~(m <= m - 1)
  BY <1>3, <1>5
<1>7. Has(m - 1)
  BY <1>2, <1>6
<1>8. PICK g \in [0..(m - 1) -> S] : g[0] = p /\ \A i \in 1..(m - 1) : g[i] = F[<<g[i - 1], i>>]
  BY <1>7
<1>. DEFINE f == [i \in 0..m |-> IF i = m THEN F[<<g[m - 1], m>>] ELSE g[i]]
<1>9. g[m - 1] \in S
  BY <1>6, <1>8
<1>10. F[<<g[m - 1], m>>] \in S
  BY <1>6, <1>9
<1>11. f[m] = F[<<g[m - 1], m>>] /\ \A i \in 0..(m - 1) : f[i] = g[i]
  BY <1>6
<1>12. f \in [0..m -> S]
  BY <1>6, <1>8, <1>10
<1>. HIDE DEF f
<1>13. f[0] = p
  BY <1>6, <1>8, <1>11
<1>14. ASSUME NEW i \in 1..m PROVE f[i] = F[<<f[i - 1], i>>]
  <2>1. CASE i = m
    <3>1. m - 1 \in 0..(m - 1)
      BY <1>6
    <3>. QED
      BY <1>11, <2>1, <3>1
  <2>2. CASE i # m
    <3>1. i \in 1..(m - 1) /\ i \in 0..(m - 1) /\ i - 1 \in 0..(m - 1)
      BY <1>6, <2>2
    <3>. QED
      BY <1>8, <1>11, <3>1
  <2>. QED
    BY <2>1, <2>2
<1>. QED
  BY <1>3, <1>12, <1>13, <1>14

\* And a loop whose turns stay in S ends there.
LEMMA LoopStays ==
    ASSUME NEW S, NEW N \in Nat, NEW w, w[0] \in S, \A i \in 1..N : w[i - 1] \in S => w[i] \in S
    PROVE  w[N] \in S
<1>. DEFINE T == {n \in 0..N : w[n] \notin S}
<1>1. SUFFICES ASSUME N \in T PROVE FALSE
  OBVIOUS
<1>2. PICK m \in T : \A n \in T : m <= n
  <2>1. T \subseteq Nat /\ T # {}
    BY <1>1
  <2>. HIDE DEF T
  <2>. QED
    BY <2>1, NatLeast
<1>3. m \in 1..N /\ m - 1 \in 0..N /\ m - 1 \notin T /\ w[m] \notin S
  BY <1>2
<1>. QED
  BY <1>3

\* A loop whose turns keep what T says of the state and the turn keeps it throughout.
LEMMA LoopKeeps ==
    ASSUME NEW N \in Nat, NEW w, NEW T, <<w[0], 0>> \in T, \A i \in 1..N : <<w[i - 1], i - 1>> \in T => <<w[i], i>> \in T
    PROVE  \A i \in 0..N : <<w[i], i>> \in T
<1>. DEFINE B == {n \in 0..N : <<w[n], n>> \notin T}
<1>1. SUFFICES ASSUME B # {} PROVE FALSE
  OBVIOUS
<1>2. PICK m \in B : \A n \in B : m <= n
  <2>1. B \subseteq Nat
    OBVIOUS
  <2>. HIDE DEF B
  <2>. QED
    BY <1>1, <2>1, NatLeast
<1>3. m \in 0..N /\ <<w[m], m>> \notin T
  BY <1>2
<1>4. m # 0
  BY <1>3
<1>5. m \in 1..N /\ m - 1 \in 0..N /\ ~(m <= m - 1)
  BY <1>3, <1>4
<1>6. <<w[m - 1], m - 1>> \in T
  BY <1>2, <1>5
<1>. QED
  BY <1>3, <1>5, <1>6

(***************************************************************************)
(* Bringing clusters up.  CiSound is inductive but for the middle of a     *)
(* removal, when a cluster is off the list and still there: X holds it.    *)
(***************************************************************************)

CiStages == {"absent", "idle", "running", "unheard", "done", "adrift", "forgotten"}
CiOff == {"absent", "done", "adrift", "forgotten"}
CiRecs == [kind : CiKinds, api : BOOLEAN, hash : Nat, stage : CiStages]
CiTable == [CiClusters -> CiRecs]
CiStates == {"Loading", "WaitingForStaticInitialize", "WaitingForCdsInitialize", "CdsInitialized",
             "AllClustersInitialized"}
CiState == [state : CiStates, cds : BOOLEAN, cluster : CiTable, waiting : SUBSET CiClusters, started : BOOLEAN,
            told : Nat, updates : Nat]

CiPending(p, X) == {c \in CiClusters \ X : p.cluster[c].stage \notin CiOff}

CiIdle(p) == \A c \in p.waiting : p.cluster[c].kind.phase = "Secondary" => p.cluster[c].stage = "idle"

CiOK(p, X) ==
    /\ p \in CiState
    /\ p.told = IF p.state = "AllClustersInitialized" THEN 1 ELSE 0
    /\ p.waiting = IF p.told = 1 THEN {} ELSE CiPending(p, X)
    /\ p.state # "AllClustersInitialized" /\ ~p.started => CiIdle(p)

LEMMA CiStateFields ==
    ASSUME NEW p \in CiState
    PROVE  /\ p.state \in CiStates /\ p.cds \in BOOLEAN /\ p.cluster \in CiTable /\ p.waiting \in SUBSET CiClusters
           /\ p.started \in BOOLEAN /\ p.told \in Nat /\ p.updates \in Nat
BY DEF CiState

LEMMA CiStaged ==
    ASSUME NEW p \in CiState, NEW S, NEW stage \in CiStages
    PROVE  LET q == ciStage(p, S, stage) IN
           /\ q \in CiState /\ q.state = p.state /\ q.cds = p.cds /\ q.waiting = p.waiting /\ q.started = p.started
           /\ q.told = p.told /\ q.updates = p.updates
           /\ \A c \in CiClusters : /\ q.cluster[c].kind = p.cluster[c].kind
                                    /\ c \in S => q.cluster[c].stage = stage
                                    /\ c \notin S => q.cluster[c] = p.cluster[c]
<1>. DEFINE table == [c \in CiClusters |-> IF c \in S THEN [p.cluster[c] EXCEPT !.stage = stage] ELSE p.cluster[c]]
<1>1. \A c \in CiClusters : p.cluster[c] \in CiRecs
  BY CiStateFields DEF CiTable
<1>2. \A c \in CiClusters :
         LET r == [p.cluster[c] EXCEPT !.stage = stage] IN r \in CiRecs /\ r.stage = stage /\ r.kind = p.cluster[c].kind
  BY <1>1 DEF CiRecs
<1>3. table \in CiTable
  BY <1>1, <1>2 DEF CiTable
<1>4. \A c \in CiClusters : /\ table[c].kind = p.cluster[c].kind
                            /\ c \in S => table[c].stage = stage
                            /\ c \notin S => table[c] = p.cluster[c]
  BY <1>2
<1>5. ciStage(p, S, stage) = [p EXCEPT !.cluster = table]
  BY DEF ciStage, CiState
<1>. HIDE DEF table
<1>. QED
  BY <1>3, <1>4, <1>5 DEF CiState

\* One cluster is made anew, and is not there yet.
LEMMA CiSetOne ==
    ASSUME NEW p, NEW c \in CiClusters, CiOK(p, {c}), NEW r \in CiRecs, r.stage = "absent"
    PROVE  LET q == [p EXCEPT !.cluster[c] = r] IN
           /\ CiOK(q, {}) /\ q.state = p.state /\ q.started = p.started /\ q.cluster[c] = r
<1>1. p \in CiState
  BY DEF CiOK
<1>2. p.cluster \in CiTable /\ p.told \in Nat
  BY <1>1, CiStateFields
<1>. DEFINE table == [p.cluster EXCEPT ![c] = r]
            q == [p EXCEPT !.cluster = table]
<1>3. table \in CiTable /\ table[c] = r /\ \A d \in CiClusters : d # c => table[d] = p.cluster[d]
  BY <1>2 DEF CiTable
<1>4. [p EXCEPT !.cluster[c] = r] = q
  BY <1>1 DEF CiState
<1>. HIDE DEF table
<1>5. /\ q \in CiState /\ q.state = p.state /\ q.waiting = p.waiting /\ q.started = p.started /\ q.told = p.told
      /\ q.cluster = table
  BY <1>1, <1>3 DEF CiState
<1>. HIDE DEF q
<1>6. CiPending(q, {}) = CiPending(p, {c})
  BY <1>3, <1>5 DEF CiPending, CiOff
<1>7. CiIdle(p) => CiIdle(q)
  <2>1. \A d \in p.waiting : d # c /\ d \in CiClusters
    BY <1>2 DEF CiOK, CiPending
  <2>. QED
    BY <1>3, <1>5, <2>1 DEF CiIdle
<1>8. CiOK(q, {})
  BY <1>5, <1>6, <1>7 DEF CiOK
<1>. QED
  BY <1>3, <1>4, <1>5, <1>8

LEMMA CiPhaseDoneOK ==
    ASSUME NEW p \in CiState, NEW X, p.told = 0, p.waiting = {}, CiPending(p, X) = {}
    PROVE  CiOK(ciPhaseDone(p), X)
<1>. DEFINE no == FALSE
            state == IF p.state = "WaitingForStaticInitialize" /\ p.cds THEN "WaitingForCdsInitialize"
                     ELSE "AllClustersInitialized"
            told == IF p.state = "WaitingForStaticInitialize" /\ p.cds THEN 0 ELSE 1
            q == [p EXCEPT !.started = no, !.state = state, !.told = told]
<1>1. ciPhaseDone(p) = q
  <2>1. CASE p.state = "WaitingForStaticInitialize" /\ p.cds
    <3>1. ciPhaseDone(p) = [p EXCEPT !.started = no, !.state = "WaitingForCdsInitialize"] /\ told = p.told
      BY <2>1 DEF ciPhaseDone
    <3>2. state = "WaitingForCdsInitialize"
      BY <2>1
    <3>. HIDE DEF told, state, no
    <3>. QED
      BY <3>1, <3>2 DEF CiState
  <2>2. CASE ~(p.state = "WaitingForStaticInitialize" /\ p.cds)
    <3>1. ciPhaseDone(p) = [p EXCEPT !.started = no, !.state = "AllClustersInitialized", !.told = @ + 1]
      BY <2>2 DEF ciPhaseDone
    <3>2. state = "AllClustersInitialized" /\ told = p.told + 1
      BY <2>2
    <3>. HIDE DEF told, state, no
    <3>. QED
      BY <3>1, <3>2 DEF CiState
  <2>. QED
    BY <2>1, <2>2
<1>2. no \in BOOLEAN /\ state \in CiStates /\ told \in Nat /\ told = (IF state = "AllClustersInitialized" THEN 1 ELSE 0)
  BY DEF CiStates
<1>. HIDE DEF no, state, told
<1>3. q \in CiState /\ q.state = state /\ q.told = told /\ q.waiting = p.waiting /\ q.cluster = p.cluster
  BY <1>2 DEF CiState
<1>. HIDE DEF q
<1>4. CiPending(q, X) = {} /\ q.waiting = {} /\ CiIdle(q)
  BY <1>3 DEF CiPending, CiIdle
<1>5. CiOK(q, X)
  BY <1>2, <1>3, <1>4 DEF CiOK
<1>. QED
  BY <1>1, <1>5

LEMMA CiStartSecondaryOK ==
    ASSUME NEW p, NEW X, CiOK(p, X), p.state # "AllClustersInitialized", ciWaiting(p, "Primary") = {}
    PROVE  CiOK(ciStartSecondary(p), X)
<1>1. p \in CiState
  BY DEF CiOK
<1>2. p.cluster \in CiTable /\ p.waiting \in SUBSET CiClusters /\ p.told = 0 /\ p.waiting = CiPending(p, X)
  BY <1>1, CiStateFields DEF CiOK
<1>. DEFINE secondary == ciWaiting(p, "Secondary")
            now == {c \in secondary : p.cluster[c].kind.now}
            left == p.waiting \ now
            yes == TRUE
            r == [p EXCEPT !.started = yes, !.waiting = left]
            s == ciStage(r, secondary \ now, "running")
            q == ciStage(s, now, "done")
<1>3. \A c \in CiClusters : p.cluster[c].kind.phase \in {"Primary", "Secondary"}
  BY <1>2 DEF CiTable, CiRecs, CiKinds
<1>4. secondary = p.waiting
  BY <1>2, <1>3 DEF ciWaiting
<1>5. ciStartSecondary(p) = IF now = secondary THEN ciPhaseDone(q) ELSE q
  BY <1>1 DEF ciStartSecondary, CiState
<1>6. now \subseteq p.waiting /\ left \in SUBSET CiClusters /\ yes \in BOOLEAN /\ yes = TRUE
  BY <1>2, <1>4
<1>. HIDE DEF now, left, yes, secondary
<1>7. /\ r \in CiState /\ r.state = p.state /\ r.waiting = left /\ r.started = yes /\ r.told = p.told
      /\ r.cluster = p.cluster
  BY <1>1, <1>6 DEF CiState
<1>. HIDE DEF r
<1>8. "running" \in CiStages /\ "done" \in CiStages
  BY DEF CiStages
<1>9. /\ s \in CiState /\ s.state = p.state /\ s.waiting = left /\ s.started = yes /\ s.told = p.told
      /\ \A c \in CiClusters : /\ c \in secondary \ now => s.cluster[c].stage = "running"
                               /\ c \notin secondary \ now => s.cluster[c] = p.cluster[c]
  BY <1>7, <1>8, CiStaged
<1>. HIDE DEF s
<1>10. /\ q \in CiState /\ q.state = p.state /\ q.waiting = left /\ q.started = yes /\ q.told = p.told
       /\ \A c \in CiClusters : /\ c \in now => q.cluster[c].stage = "done"
                                /\ c \notin now => q.cluster[c] = s.cluster[c]
  BY <1>8, <1>9, CiStaged
<1>. HIDE DEF q
<1>11. CiPending(q, X) = left
  <2>1. ASSUME NEW c \in CiClusters \ X
        PROVE  q.cluster[c].stage \notin CiOff <=> c \in left
    <3>1. c \in p.waiting <=> p.cluster[c].stage \notin CiOff
      BY <1>2 DEF CiPending
    <3>2. CASE c \in now
      BY <1>10, <3>2 DEF left, CiOff
    <3>3. CASE c \notin now
      BY <1>4, <1>9, <1>10, <3>1, <3>3 DEF left, CiOff
    <3>. QED
      BY <3>2, <3>3
  <2>2. left \cap X = {} /\ left \subseteq CiClusters
    BY <1>2 DEF left, CiPending
  <2>. QED
    BY <2>1, <2>2 DEF CiPending
<1>12. CASE now = secondary
  <2>1. left = {}
    BY <1>4, <1>12 DEF left
  <2>2. CiOK(ciPhaseDone(q), X)
    BY <1>2, <1>10, <1>11, <2>1, CiPhaseDoneOK
  <2>. QED
    BY <1>5, <1>12, <2>2
<1>13. CASE now # secondary
  <2>1. CiOK(q, X)
    BY <1>2, <1>6, <1>10, <1>11 DEF CiOK
  <2>. QED
    BY <1>5, <1>13, <2>1
<1>. QED
  BY <1>12, <1>13

LEMMA CiMaybeFinishOK ==
    ASSUME NEW p, NEW X, CiOK(p, X), p.state # "AllClustersInitialized"
    PROVE  CiOK(ciMaybeFinish(p), X)
<1>1. p \in CiState /\ p.told = 0 /\ p.waiting = CiPending(p, X)
  BY DEF CiOK
<1>2. CASE p.state \in {"Loading", "WaitingForCdsInitialize"} \/ ciWaiting(p, "Primary") # {}
  BY <1>2 DEF ciMaybeFinish
<1>3. CASE ~(p.state \in {"Loading", "WaitingForCdsInitialize"} \/ ciWaiting(p, "Primary") # {})
  <2>1. CASE p.waiting = {}
    <3>1. ciMaybeFinish(p) = ciPhaseDone(p)
      BY <1>3, <2>1 DEF ciMaybeFinish
    <3>. QED
      BY <1>1, <2>1, <3>1, CiPhaseDoneOK
  <2>2. CASE p.waiting # {}
    <3>1. ciMaybeFinish(p) = IF p.started THEN p ELSE ciStartSecondary(p)
      BY <1>3, <2>2 DEF ciMaybeFinish
    <3>2. CiOK(ciStartSecondary(p), X)
      BY <1>3, CiStartSecondaryOK
    <3>. QED
      BY <3>1, <3>2
  <2>. QED
    BY <2>1, <2>2
<1>. QED
  BY <1>2, <1>3

\* A cluster is done, or goes.
LEMMA CiRemoveClusterOK ==
    ASSUME NEW p \in CiState, NEW c \in CiClusters, NEW X, X \subseteq {c},
           p.told = IF p.state = "AllClustersInitialized" THEN 1 ELSE 0,
           p.waiting \ {c} = IF p.told = 1 THEN {} ELSE CiPending(p, X),
           p.state = "AllClustersInitialized" => p.waiting = {},
           p.state # "AllClustersInitialized" /\ ~p.started => CiIdle(p)
    PROVE  CiOK(ciRemoveCluster(p, c), X)
<1>1. CASE p.state = "AllClustersInitialized"
  <2>1. CiOK(p, X)
    BY <1>1 DEF CiOK
  <2>. QED
    BY <1>1, <2>1 DEF ciRemoveCluster
<1>2. CASE p.state # "AllClustersInitialized"
  <2>. DEFINE left == p.waiting \ {c}
              q == [p EXCEPT !.waiting = left]
  <2>1. left \in SUBSET CiClusters /\ left \subseteq p.waiting /\ left = IF p.told = 1 THEN {} ELSE CiPending(p, X)
    BY CiStateFields
  <2>2. ciRemoveCluster(p, c) = ciMaybeFinish(q)
    BY <1>2 DEF ciRemoveCluster, CiState
  <2>. HIDE DEF left
  <2>3. /\ q \in CiState /\ q.state = p.state /\ q.waiting = left /\ q.started = p.started /\ q.told = p.told
        /\ q.cluster = p.cluster
    BY <2>1 DEF CiState
  <2>. HIDE DEF q
  <2>4. CiPending(q, X) = CiPending(p, X) /\ (CiIdle(p) => CiIdle(q))
    BY <2>1, <2>3 DEF CiPending, CiIdle
  <2>5. CiOK(q, X)
    BY <1>2, <2>1, <2>3, <2>4 DEF CiOK
  <2>. QED
    BY <1>2, <2>2, <2>3, <2>5, CiMaybeFinishOK
<1>. QED
  BY <1>1, <1>2

LEMMA CiAddClusterOK ==
    ASSUME NEW p, NEW c \in CiClusters, CiOK(p, {}), p.cluster[c].stage = "absent"
    PROVE  CiOK(ciAddCluster(p, c, p.cluster[c].kind), {})
<1>1. p \in CiState
  BY DEF CiOK
<1>2. p.cluster \in CiTable /\ p.waiting \in SUBSET CiClusters
  BY <1>1, CiStateFields
<1>. DEFINE kind == p.cluster[c].kind
            more == p.waiting \cup {c}
            q == [p EXCEPT !.waiting = more]
<1>3. kind.phase \in {"Primary", "Secondary"} /\ kind.now \in BOOLEAN
  BY <1>2 DEF CiTable, CiRecs, CiKinds
<1>4. [p EXCEPT !.waiting = @ \cup {c}] = q
  BY <1>1 DEF CiState
<1>5. more \in SUBSET CiClusters
  BY <1>2
<1>. HIDE DEF more
<1>6. /\ q \in CiState /\ q.state = p.state /\ q.waiting = more /\ q.started = p.started /\ q.told = p.told
      /\ q.cluster = p.cluster
  BY <1>1, <1>5 DEF CiState
<1>. HIDE DEF q
<1>7. ciAddCluster(p, c, kind) =
         IF p.state = "AllClustersInitialized" THEN ciStage(p, {c}, IF kind.now THEN "done" ELSE "running")
         ELSE CASE kind.phase = "Primary" /\ kind.now -> ciRemoveCluster(ciStage(q, {c}, "done"), c)
                [] kind.phase = "Primary" /\ ~kind.now -> ciStage(q, {c}, "running")
                [] kind.phase = "Secondary" /\ ~p.started -> ciStage(q, {c}, "idle")
                [] OTHER -> ciStage(q, {c}, IF kind.now THEN "unheard" ELSE "running")
  BY <1>4 DEF ciAddCluster
<1>8. {"absent", "idle", "running", "unheard", "done"} \subseteq CiStages
  BY DEF CiStages
<1>. HIDE DEF kind
<1>9. CASE p.state = "AllClustersInitialized"
  <2>1. ASSUME NEW stage \in CiStages PROVE CiOK(ciStage(p, {c}, stage), {})
    <3>. DEFINE r == ciStage(p, {c}, stage)
    <3>1. r \in CiState /\ r.state = p.state /\ r.waiting = p.waiting /\ r.told = p.told
      BY <1>1, CiStaged
    <3>. HIDE DEF r
    <3>2. CiOK(r, {})
      BY <1>9, <3>1 DEF CiOK
    <3>. QED
      BY <3>2 DEF r
  <2>2. ciAddCluster(p, c, kind) = ciStage(p, {c}, IF kind.now THEN "done" ELSE "running")
    BY <1>7, <1>9
  <2>3. CASE kind.now
    BY <1>8, <2>1, <2>2, <2>3 DEF kind
  <2>4. CASE ~kind.now
    BY <1>8, <2>1, <2>2, <2>4 DEF kind
  <2>. QED
    BY <2>3, <2>4 DEF kind
<1>10. CASE p.state # "AllClustersInitialized"
  <2>1. p.told = 0 /\ p.waiting = CiPending(p, {}) /\ (~p.started => CiIdle(p)) /\ c \notin p.waiting
    BY <1>10 DEF CiOK, CiPending, CiOff
  <2>2. ASSUME NEW stage \in {"idle", "running", "unheard"},
               p.started \/ kind.phase = "Primary" \/ stage = "idle"
        PROVE  CiOK(ciStage(q, {c}, stage), {})
    <3>. DEFINE r == ciStage(q, {c}, stage)
    <3>1. stage \in CiStages
      BY <1>8
    <3>2. /\ r \in CiState /\ r.state = p.state /\ r.waiting = more /\ r.told = p.told /\ r.started = p.started
          /\ \A d \in CiClusters : /\ r.cluster[d].kind = p.cluster[d].kind
                                   /\ d \in {c} => r.cluster[d].stage = stage
                                   /\ d \notin {c} => r.cluster[d] = p.cluster[d]
      BY <1>6, <3>1, CiStaged
    <3>. HIDE DEF r
    <3>3. r.cluster[c].stage = stage /\ r.cluster[c].kind = kind /\ \A d \in CiClusters : d # c => r.cluster[d] = p.cluster[d]
      BY <3>2 DEF kind
    <3>4. more = CiPending(r, {})
      BY <2>1, <3>3 DEF CiPending, CiOff, more
    <3>5. ~p.started => CiIdle(r)
      <4>1. CASE p.started
        BY <4>1
      <4>2. CASE ~p.started
        <5>1. kind.phase = "Secondary" => stage = "idle"
          BY <2>2, <4>2
        <5>2. \A d \in more : d = c \/ (d # c /\ d \in p.waiting /\ d \in CiClusters)
          BY <1>2 DEF more
        <5>. QED
          BY <2>1, <3>2, <3>3, <4>2, <5>1, <5>2 DEF CiIdle
      <4>. QED
        BY <4>1, <4>2
    <3>6. CiOK(r, {})
      BY <1>10, <2>1, <3>2, <3>4, <3>5 DEF CiOK
    <3>. QED
      BY <3>6 DEF r
  <2>3. CASE kind.phase = "Primary" /\ kind.now
    <3>. DEFINE r == ciStage(q, {c}, "done")
    <3>1. ciAddCluster(p, c, kind) = ciRemoveCluster(r, c)
      BY <1>7, <1>10, <2>3
    <3>2. /\ r \in CiState /\ r.state = p.state /\ r.waiting = more /\ r.told = p.told /\ r.started = p.started
          /\ \A d \in CiClusters : /\ r.cluster[d].kind = p.cluster[d].kind
                                   /\ d \in {c} => r.cluster[d].stage = "done"
                                   /\ d \notin {c} => r.cluster[d] = p.cluster[d]
      BY <1>6, <1>8, CiStaged
    <3>. HIDE DEF r
    <3>3. r.waiting \ {c} = CiPending(r, {})
      BY <2>1, <3>2 DEF CiPending, CiOff, more
    <3>4. ~r.started => CiIdle(r)
      <4>1. \A d \in more : d = c \/ (d # c /\ d \in p.waiting /\ d \in CiClusters)
        BY <1>2 DEF more
      <4>2. r.cluster[c].kind = kind
        BY <3>2 DEF kind
      <4>. QED
        BY <2>1, <2>3, <3>2, <4>1, <4>2 DEF CiIdle
    <3>5. {} \subseteq {c}
      OBVIOUS
    <3>6. CiOK(ciRemoveCluster(r, c), {})
      BY <1>10, <2>1, <3>2, <3>3, <3>4, <3>5, CiRemoveClusterOK
    <3>. QED
      BY <3>1, <3>6 DEF kind
  <2>4. CASE kind.phase = "Primary" /\ ~kind.now
    <3>1. ciAddCluster(p, c, kind) = ciStage(q, {c}, "running")
      BY <1>7, <1>10, <2>4
    <3>. QED
      BY <2>2, <2>4, <3>1 DEF kind
  <2>5. CASE kind.phase = "Secondary" /\ ~p.started
    <3>1. ciAddCluster(p, c, kind) = ciStage(q, {c}, "idle")
      BY <1>7, <1>10, <2>5
    <3>. QED
      BY <2>2, <2>5, <3>1 DEF kind
  <2>6. CASE kind.phase = "Secondary" /\ p.started
    <3>1. ciAddCluster(p, c, kind) = ciStage(q, {c}, IF kind.now THEN "unheard" ELSE "running")
      BY <1>7, <1>10, <2>6
    <3>2. CASE kind.now
      BY <2>2, <2>6, <3>1, <3>2 DEF kind
    <3>3. CASE ~kind.now
      BY <2>2, <2>6, <3>1, <3>3 DEF kind
    <3>. QED
      BY <3>2, <3>3
  <2>. QED
    BY <1>3, <2>3, <2>4, <2>5, <2>6
<1>. QED
  BY <1>9, <1>10

LEMMA CiLoadClusterOK ==
    ASSUME NEW p, NEW c \in CiClusters, CiOK(p, {c}), NEW kind \in CiKinds, NEW hash \in Nat, NEW api \in BOOLEAN
    PROVE  CiOK(ciLoadCluster(p, c, kind, hash, api), {})
<1>. DEFINE r == [kind |-> kind, api |-> api, hash |-> hash, stage |-> "absent"]
            q == [p EXCEPT !.cluster[c] = r]
<1>1. r \in CiRecs /\ r.stage = "absent" /\ r.kind = kind
  BY DEF CiRecs, CiStages
<1>2. ciLoadCluster(p, c, kind, hash, api) = ciAddCluster(q, c, kind)
  BY DEF ciLoadCluster
<1>. HIDE DEF r
<1>3. CiOK(q, {}) /\ q.cluster[c] = r
  BY <1>1, CiSetOne
<1>. HIDE DEF q
<1>. QED
  BY <1>1, <1>2, <1>3, CiAddClusterOK

\* A cluster that is not there is not on the list.
LEMMA CiAbsent ==
    ASSUME NEW p, NEW c \in CiClusters, CiOK(p, {}), p.cluster[c].stage = "absent"
    PROVE  CiOK(p, {c})
<1>1. CiPending(p, {c}) = CiPending(p, {})
  BY DEF CiPending, CiOff
<1>. QED
  BY <1>1 DEF CiOK

LEMMA CiTakenOff ==
    ASSUME NEW p, NEW c \in CiClusters, CiOK(p, {})
    PROVE  CiOK(ciRemoveCluster(p, c), {c})
<1>1. p \in CiState
  BY DEF CiOK
<1>2. CiPending(p, {c}) = CiPending(p, {}) \ {c}
  BY DEF CiPending
<1>3. p.waiting \ {c} = IF p.told = 1 THEN {} ELSE CiPending(p, {c})
  BY <1>2 DEF CiOK
<1>4. /\ p.told = (IF p.state = "AllClustersInitialized" THEN 1 ELSE 0)
      /\ p.state = "AllClustersInitialized" => p.waiting = {}
      /\ p.state # "AllClustersInitialized" /\ ~p.started => CiIdle(p)
  BY DEF CiOK
<1>5. {c} \subseteq {c}
  OBVIOUS
<1>. QED
  BY <1>1, <1>3, <1>4, <1>5, CiRemoveClusterOK

LEMMA CiAddOrUpdateOK ==
    ASSUME NEW p, NEW c \in CiClusters, CiOK(p, {}), NEW kind \in CiKinds, NEW hash \in Nat
    PROVE  CiOK(ciAddOrUpdate(p, c, kind, hash), {})
<1>. DEFINE old == p.cluster[c]
            exists == old.stage # "absent"
<1>1. old.api \in BOOLEAN
  BY CiStateFields DEF CiOK, CiTable, CiRecs
<1>2. CASE exists /\ (~old.api \/ old.hash = hash)
  <2>1. ciAddOrUpdate(p, c, kind, hash) = p
    BY <1>2 DEF ciAddOrUpdate
  <2>. QED
    BY <2>1
<1>3. CASE exists /\ old.api /\ old.hash # hash
  <2>1. ciAddOrUpdate(p, c, kind, hash) = ciLoadCluster(ciRemoveCluster(p, c), c, kind, hash, TRUE)
    BY <1>3 DEF ciAddOrUpdate
  <2>2. CiOK(ciRemoveCluster(p, c), {c})
    BY CiTakenOff
  <2>. QED
    BY <2>1, <2>2, CiLoadClusterOK
<1>4. CASE ~exists
  <2>1. ciAddOrUpdate(p, c, kind, hash) = ciLoadCluster(p, c, kind, hash, TRUE)
    BY <1>4 DEF ciAddOrUpdate
  <2>2. CiOK(p, {c})
    BY <1>4, CiAbsent
  <2>. QED
    BY <2>1, <2>2, CiLoadClusterOK
<1>. QED
  BY <1>1, <1>2, <1>3, <1>4

\* A cluster whose replacement could not be loaded is off the list.
LEMMA CiFailedLoadOK ==
    ASSUME NEW p, NEW c \in CiClusters, CiOK(p, {})
    PROVE  CiOK(ciFailedLoad(p, c), {})
<1>. DEFINE old == p.cluster[c].stage
            aside == CASE old = "running" -> "adrift" [] old = "idle" -> "forgotten" [] old = "unheard" -> "done"
                       [] OTHER -> old
            r == ciRemoveCluster(p, c)
            q == ciStage(r, {c}, aside)
<1>1. CASE old = "absent" \/ p.state = "AllClustersInitialized"
  <2>1. ciFailedLoad(p, c) = p
    BY <1>1 DEF ciFailedLoad
  <2>. QED
    BY <2>1
<1>2. CASE ~(old = "absent" \/ p.state = "AllClustersInitialized")
  <2>1. ciFailedLoad(p, c) = q
    BY <1>2 DEF ciFailedLoad
  <2>2. old \in CiStages
    BY CiStateFields DEF CiOK, CiTable, CiRecs
  <2>3. aside \in {"done", "adrift", "forgotten"}
    BY <1>2, <2>2 DEF CiStages
  <2>4. CiOK(r, {c})
    BY CiTakenOff
  <2>. HIDE DEF aside, r
  <2>5. r \in CiState /\ aside \in CiStages /\ aside \in CiOff
    BY <2>3, <2>4 DEF CiOK, CiStages, CiOff
  <2>6. /\ q \in CiState /\ q.state = r.state /\ q.waiting = r.waiting /\ q.started = r.started /\ q.told = r.told
        /\ \A d \in CiClusters : /\ d \in {c} => q.cluster[d].stage = aside
                                 /\ d \notin {c} => q.cluster[d] = r.cluster[d]
    BY <2>5, CiStaged
  <2>. HIDE DEF q
  <2>7. CiPending(q, {}) = CiPending(r, {c})
    BY <2>5, <2>6 DEF CiPending
  <2>8. r.waiting \subseteq CiClusters \ {c}
    <3>1. r.waiting \subseteq CiPending(r, {c})
      BY <2>4 DEF CiOK
    <3>. QED
      BY <3>1 DEF CiPending
  <2>9. CiIdle(r) => CiIdle(q)
    BY <2>6, <2>8 DEF CiIdle
  <2>10. CiOK(q, {})
    BY <2>4, <2>6, <2>7, <2>9 DEF CiOK
  <2>. QED
    BY <2>1, <2>10
<1>. QED
  BY <1>1, <1>2

LEMMA CiNoneType == CiNone \in CiRecs /\ CiNone.stage = "absent"
<1>1. [phase |-> "Primary", now |-> TRUE] \in CiKinds
  BY DEF CiKinds
<1>2. (CHOOSE k \in CiKinds : TRUE) \in CiKinds
  BY <1>1
<1>. QED
  BY <1>2 DEF CiNone, CiRecs, CiStages

LEMMA CiRemovePrimaryOK ==
    ASSUME NEW p, NEW c \in CiClusters, CiOK(p, {})
    PROVE  CiOK(ciRemovePrimary(p, c), {})
<1>1. CASE p.cluster[c].api
  <2>. DEFINE q == ciRemoveCluster(p, c)
  <2>1. CiOK(q, {c})
    BY CiTakenOff
  <2>2. ciRemovePrimary(p, c) = [q EXCEPT !.cluster[c] = CiNone]
    BY <1>1 DEF ciRemovePrimary
  <2>. HIDE DEF q
  <2>. QED
    BY <2>1, <2>2, CiNoneType, CiSetOne
<1>2. CASE ~p.cluster[c].api
  BY <1>2 DEF ciRemovePrimary
<1>. QED
  BY <1>1, <1>2

----------------------------------------------------------------------------
\* The loops of onConfigUpdate().

LEMMA CiAddNamedOK ==
    ASSUME NEW p, CiOK(p, {}), NEW order \in Seq(CiClusters), NEW named, NEW kind \in CiKinds, NEW hash \in Nat
    PROVE  CiOK(ciAddNamed(p, order, named, kind, hash), {})
<1>. DEFINE N == Len(order)
            S == {x \in CiState : CiOK(x, {})}
            turn(x, i) == IF order[i] \in named THEN ciAddOrUpdate(x, order[i], kind, hash) ELSE x
            F == [x \in S \X (1..N) |-> turn(x[1], x[2])]
            W(w) == w = [i \in 0..N |-> IF i = 0 THEN p
                                        ELSE IF order[i] \in named THEN ciAddOrUpdate(w[i - 1], order[i], kind, hash)
                                        ELSE w[i - 1]]
            w0 == CHOOSE w : W(w)
<1>1. N \in Nat /\ \A i \in 1..N : order[i] \in CiClusters
  OBVIOUS
<1>2. \A x : CiOK(x, {}) <=> x \in S
  BY DEF CiOK
<1>3. \A x \in S, i \in 1..N : turn(x, i) \in S
  <2>. HIDE DEF S, N
  <2>. QED
    BY <1>1, <1>2, CiAddOrUpdateOK
<1>4. p \in S
  BY <1>2
<1>. HIDE DEF S, turn
<1>5. F \in [S \X (1..N) -> S] /\ \A x \in S, i \in 1..N : F[<<x, i>>] = turn(x, i)
  BY <1>3
<1>. HIDE DEF F, N
<1>6. PICK g : g \in [0..N -> S] /\ g[0] = p /\ \A i \in 1..N : g[i] = F[<<g[i - 1], i>>]
  <2>1. \E g : LoopOf(g, S, p, N, F)
    BY <1>1, <1>4, <1>5, LoopExists
  <2>. QED
    BY <2>1 DEF LoopOf
<1>7. \A i \in 1..N : i - 1 \in 0..N /\ i \in 0..N
  BY <1>1
<1>8. \A i \in 1..N : g[i] = turn(g[i - 1], i)
  BY <1>5, <1>6, <1>7
<1>9. W(g)
  <2>1. \A i \in 0..N : i # 0 => i \in 1..N
    BY <1>1
  <2>2. \A i \in 0..N : g[i] = IF i = 0 THEN p
                               ELSE IF order[i] \in named THEN ciAddOrUpdate(g[i - 1], order[i], kind, hash)
                               ELSE g[i - 1]
    BY <1>6, <1>8, <2>1 DEF turn
  <2>3. g = [i \in 0..N |-> g[i]]
    BY <1>6
  <2>. QED
    BY <2>2, <2>3
<1>10. W(w0)
  BY <1>9
<1>11. ciAddNamed(p, order, named, kind, hash) = w0[N]
  BY DEF ciAddNamed, N
<1>. HIDE DEF w0
<1>12. w0[0] = p /\ \A i \in 1..N : w0[i] = turn(w0[i - 1], i)
  <2>1. 0 \in 0..N /\ \A i \in 1..N : i # 0
    BY <1>1
  <2>. QED
    BY <1>7, <1>10, <2>1 DEF turn
<1>13. w0[N] \in S
  <2>1. w0[0] \in S
    BY <1>4, <1>12
  <2>2. \A i \in 1..N : w0[i - 1] \in S => w0[i] \in S
    BY <1>3, <1>12
  <2>3. N \in Nat
    BY <1>1
  <2>. QED
    BY <2>1, <2>2, <2>3, LoopStays
<1>. QED
  BY <1>2, <1>11, <1>13

LEMMA CiRemoveOthersOK ==
    ASSUME NEW p, CiOK(p, {}), NEW order \in Seq(CiClusters), NEW named
    PROVE  CiOK(ciRemoveOthers(p, order, named), {})
<1>. DEFINE N == Len(order)
            S == {x \in CiState : CiOK(x, {})}
            turn(x, i) == IF order[i] \in named THEN x ELSE ciRemovePrimary(x, order[i])
            F == [x \in S \X (1..N) |-> turn(x[1], x[2])]
            W(w) == w = [i \in 0..N |-> IF i = 0 THEN p
                                        ELSE IF order[i] \in named THEN w[i - 1] ELSE ciRemovePrimary(w[i - 1], order[i])]
            w0 == CHOOSE w : W(w)
<1>1. N \in Nat /\ \A i \in 1..N : order[i] \in CiClusters
  OBVIOUS
<1>2. \A x : CiOK(x, {}) <=> x \in S
  BY DEF CiOK
<1>3. \A x \in S, i \in 1..N : turn(x, i) \in S
  <2>. HIDE DEF S, N
  <2>. QED
    BY <1>1, <1>2, CiRemovePrimaryOK
<1>4. p \in S
  BY <1>2
<1>. HIDE DEF S, turn
<1>5. F \in [S \X (1..N) -> S] /\ \A x \in S, i \in 1..N : F[<<x, i>>] = turn(x, i)
  BY <1>3
<1>. HIDE DEF F, N
<1>6. PICK g : g \in [0..N -> S] /\ g[0] = p /\ \A i \in 1..N : g[i] = F[<<g[i - 1], i>>]
  <2>1. \E g : LoopOf(g, S, p, N, F)
    BY <1>1, <1>4, <1>5, LoopExists
  <2>. QED
    BY <2>1 DEF LoopOf
<1>7. \A i \in 1..N : i - 1 \in 0..N /\ i \in 0..N
  BY <1>1
<1>8. \A i \in 1..N : g[i] = turn(g[i - 1], i)
  BY <1>5, <1>6, <1>7
<1>9. W(g)
  <2>1. \A i \in 0..N : i # 0 => i \in 1..N
    BY <1>1
  <2>2. \A i \in 0..N : g[i] = IF i = 0 THEN p
                               ELSE IF order[i] \in named THEN g[i - 1] ELSE ciRemovePrimary(g[i - 1], order[i])
    BY <1>6, <1>8, <2>1 DEF turn
  <2>3. g = [i \in 0..N |-> g[i]]
    BY <1>6
  <2>. QED
    BY <2>2, <2>3
<1>10. W(w0)
  BY <1>9
<1>11. ciRemoveOthers(p, order, named) = w0[N]
  BY DEF ciRemoveOthers, N
<1>. HIDE DEF w0
<1>12. w0[0] = p /\ \A i \in 1..N : w0[i] = turn(w0[i - 1], i)
  <2>1. 0 \in 0..N /\ \A i \in 1..N : i # 0
    BY <1>1
  <2>. QED
    BY <1>7, <1>10, <2>1 DEF turn
<1>13. w0[N] \in S
  <2>1. w0[0] \in S
    BY <1>4, <1>12
  <2>2. \A i \in 1..N : w0[i - 1] \in S => w0[i] \in S
    BY <1>3, <1>12
  <2>3. N \in Nat
    BY <1>1
  <2>. QED
    BY <2>1, <2>2, <2>3, LoopStays
<1>. QED
  BY <1>2, <1>11, <1>13

----------------------------------------------------------------------------
\* Another state, with the same clusters.
CiMoved(p, cds, state) == [p EXCEPT !.cds = cds, !.state = state]

LEMMA CiStateChange ==
    ASSUME NEW p, CiOK(p, {}), p.state # "AllClustersInitialized", NEW cds \in BOOLEAN, NEW state \in CiStates,
           state # "AllClustersInitialized"
    PROVE  CiOK(CiMoved(p, cds, state), {}) /\ CiMoved(p, cds, state).state = state
<1>. DEFINE q == CiMoved(p, cds, state)
<1>1. /\ q \in CiState /\ q.state = state /\ q.waiting = p.waiting /\ q.started = p.started /\ q.told = p.told
      /\ q.cluster = p.cluster
  BY DEF CiOK, CiState, CiMoved
<1>. HIDE DEF q
<1>2. CiPending(q, {}) = CiPending(p, {}) /\ (CiIdle(p) => CiIdle(q))
  BY <1>1 DEF CiPending, CiIdle
<1>3. CiOK(q, {})
  BY <1>1, <1>2 DEF CiOK
<1>. QED
  BY <1>1, <1>3 DEF q

LEMMA CiCdsInitializedOK ==
    ASSUME NEW p, CiOK(p, {})
    PROVE  CiOK(ciCdsInitialized(p), {})
<1>1. CASE p.state = "WaitingForCdsInitialize"
  <2>. DEFINE cds == p.cds
              state == "CdsInitialized"
              q == CiMoved(p, cds, state)
  <2>1. p \in CiState /\ cds \in BOOLEAN /\ state \in CiStates /\ state # "AllClustersInitialized"
    BY CiStateFields DEF CiOK, CiStates
  <2>2. q = [p EXCEPT !.state = "CdsInitialized"]
    BY <2>1 DEF CiState, CiMoved
  <2>3. CiOK(q, {}) /\ q.state # "AllClustersInitialized"
    <3>. HIDE DEF cds, state
    <3>1. p.state # "AllClustersInitialized"
      BY <1>1
    <3>. QED
      BY <2>1, <3>1, CiStateChange
  <2>4. ciCdsInitialized(p) = ciMaybeFinish(q)
    BY <1>1, <2>2 DEF ciCdsInitialized
  <2>. HIDE DEF q
  <2>. QED
    BY <2>3, <2>4, CiMaybeFinishOK
<1>2. CASE p.state # "WaitingForCdsInitialize"
  BY <1>2 DEF ciCdsInitialized
<1>. QED
  BY <1>1, <1>2

LEMMA CiInitOK ==
    ASSUME CiInit
    PROVE  CiOK(ci, {})
<1>. DEFINE no == FALSE
            zero == 0
            none == {}
            table == [c \in CiClusters |-> CiNone]
<1>1. ci = [state |-> "Loading", cds |-> no, cluster |-> table, waiting |-> none, started |-> no, told |-> zero,
            updates |-> zero]
  BY DEF CiInit
<1>2. no \in BOOLEAN /\ zero \in Nat /\ none \in SUBSET CiClusters /\ table \in CiTable /\ "Loading" \in CiStates
  BY CiNoneType DEF CiTable, CiStates
<1>3. \A c \in CiClusters : table[c].stage = "absent"
  BY CiNoneType
<1>. HIDE DEF no, zero, none, table
<1>4. ci \in CiState
  BY <1>1, <1>2 DEF CiState
<1>5. ci.state = "Loading" /\ ci.cluster = table /\ ci.waiting = none /\ ci.told = zero
  BY <1>1
<1>6. CiPending(ci, {}) = {} /\ CiIdle(ci)
  BY <1>3, <1>5 DEF CiPending, CiOff, CiIdle, none
<1>. QED
  BY <1>4, <1>5, <1>6 DEF CiOK, none, zero

LEMMA CiOrderType ==
    ASSUME NEW S \in SUBSET CiClusters, NEW order \in SetToSeqs(S)
    PROVE  order \in Seq(CiClusters)
<1>1. Cardinality(S) \in Nat
  BY CiClustersFinite, FS_Subset, FS_CardinalityType
<1>2. order \in [1..Cardinality(S) -> S]
  BY DEF SetToSeqs
<1>. QED
  BY <1>1, <1>2

LEMMA CiInitializedOK ==
    ASSUME CiOK(ci, {}), NEW c \in CiClusters, CiInitialized(c)
    PROVE  CiOK(ci', {})
<1>. DEFINE p == ciStage(ci, {c}, "done")
<1>1. ci \in CiState /\ "done" \in CiStages
  BY DEF CiOK, CiStages
<1>2. /\ p \in CiState /\ p.state = ci.state /\ p.waiting = ci.waiting /\ p.told = ci.told /\ p.started = ci.started
      /\ \A d \in CiClusters : /\ p.cluster[d].kind = ci.cluster[d].kind
                               /\ d \in {c} => p.cluster[d].stage = "done"
                               /\ d \notin {c} => p.cluster[d] = ci.cluster[d]
  BY <1>1, CiStaged
<1>3. /\ ci.cluster[c].stage \in {"running", "adrift"}
      /\ ci' = IF c \in ci.waiting \/ ci.cluster[c].stage = "adrift" THEN ciRemoveCluster(p, c) ELSE p
  BY DEF CiInitialized
<1>. HIDE DEF p
<1>4. CiPending(p, {}) = CiPending(ci, {}) \ {c}
  BY <1>2 DEF CiPending, CiOff
<1>5. CASE c \in ci.waiting \/ ci.cluster[c].stage = "adrift"
  <2>1. /\ ci.told = IF ci.state = "AllClustersInitialized" THEN 1 ELSE 0
        /\ ci.waiting = IF ci.told = 1 THEN {} ELSE CiPending(ci, {})
        /\ ci.state = "AllClustersInitialized" => ci.waiting = {}
    BY DEF CiOK
  <2>2. p.waiting \ {c} = IF p.told = 1 THEN {} ELSE CiPending(p, {})
    BY <1>2, <1>4, <2>1
  <2>3. p.state # "AllClustersInitialized" /\ ~p.started => CiIdle(p)
    <3>0. SUFFICES ASSUME p.state # "AllClustersInitialized", ~p.started PROVE CiIdle(p)
      OBVIOUS
    <3>1. CiIdle(ci) /\ ci.told = 0
      BY <1>2, <2>1, <3>0 DEF CiOK
    <3>2. \A d \in ci.waiting : d \in CiClusters
      BY <1>1, CiStateFields
    <3>3. c \in ci.waiting => ci.cluster[c].kind.phase # "Secondary"
      BY <1>3, <3>1 DEF CiIdle
    <3>. QED
      BY <1>2, <3>1, <3>2, <3>3 DEF CiIdle
  <2>4. {} \subseteq {c}
    OBVIOUS
  <2>5. CiOK(ciRemoveCluster(p, c), {})
    BY <1>2, <2>1, <2>2, <2>3, <2>4, CiRemoveClusterOK
  <2>. QED
    BY <1>3, <1>5, <2>5
<1>6. CASE ~(c \in ci.waiting \/ ci.cluster[c].stage = "adrift")
  <2>0. ci.cluster[c].stage = "running" /\ "running" \notin CiOff
    BY <1>3, <1>6 DEF CiOff
  <2>1. ci.told = 1 /\ ci.state = "AllClustersInitialized"
    BY <2>0, <1>6 DEF CiOK, CiPending
  <2>2. CiOK(p, {})
    BY <1>2, <2>1 DEF CiOK
  <2>. QED
    BY <1>3, <1>6, <2>2
<1>. QED
  BY <1>5, <1>6

LEMMA CiCountedOK ==
    ASSUME NEW p, CiOK(p, {}), ci' = [p EXCEPT !.updates = @ + 1]
    PROVE  CiOK(ci', {})
<1>. DEFINE n == p.updates + 1
            q == [p EXCEPT !.updates = n]
<1>6. p \in CiState /\ n \in Nat
  BY CiStateFields DEF CiOK
<1>7. ci' = q
  BY <1>6 DEF CiState
<1>. HIDE DEF n
<1>8. /\ q \in CiState /\ q.state = p.state /\ q.waiting = p.waiting /\ q.started = p.started /\ q.told = p.told
      /\ q.cluster = p.cluster
  BY <1>6 DEF CiState
<1>. HIDE DEF q
<1>9. CiPending(q, {}) = CiPending(p, {}) /\ (CiIdle(p) => CiIdle(q))
  BY <1>8 DEF CiPending, CiIdle
<1>10. CiOK(q, {})
  BY <1>8, <1>9 DEF CiOK
<1>. QED
  BY <1>7, <1>10

LEMMA CiCdsUpdateOK ==
    ASSUME CiOK(ci, {}), NEW order \in SetToSeqs(CiClusters), NEW named, NEW kind \in CiKinds, NEW hash \in 1..2,
           CiCdsUpdate(order, named, kind, hash)
    PROVE  CiOK(ci', {})
<1>. DEFINE added == ciAddNamed(ci, order, named, kind, hash)
            removed == ciRemoveOthers(added, order, named)
            p == ciCdsInitialized(removed)
<1>1. order \in Seq(CiClusters) /\ hash \in Nat
  BY CiOrderType
<1>2. CiOK(added, {})
  BY <1>1, CiAddNamedOK
<1>3. CiOK(removed, {})
  <2>. HIDE DEF added
  <2>. QED
    BY <1>1, <1>2, CiRemoveOthersOK
<1>4. CiOK(p, {})
  <2>. HIDE DEF removed
  <2>. QED
    BY <1>3, CiCdsInitializedOK
<1>5. ci' = [p EXCEPT !.updates = @ + 1]
  BY DEF CiCdsUpdate
<1>. HIDE DEF p
<1>. QED
  BY <1>4, <1>5, CiCountedOK

LEMMA CiCdsRejectedOK ==
    ASSUME CiOK(ci, {}), NEW before \in SUBSET CiClusters, NEW order \in SetToSeqs(before),
           NEW bad \in CiClusters, NEW kind \in CiKinds, NEW hash \in 1..2,
           CiCdsRejected(order, before, kind, hash, bad)
    PROVE  CiOK(ci', {})
<1>. DEFINE added == ciAddNamed(ci, order, before, kind, hash)
            failed == ciFailedLoad(added, bad)
            p == ciCdsInitialized(failed)
<1>1. order \in Seq(CiClusters) /\ hash \in Nat
  BY CiOrderType
<1>2. CiOK(added, {})
  BY <1>1, CiAddNamedOK
<1>3. CiOK(failed, {})
  <2>. HIDE DEF added
  <2>. QED
    BY <1>2, CiFailedLoadOK
<1>4. CiOK(p, {})
  <2>. HIDE DEF failed
  <2>. QED
    BY <1>3, CiCdsInitializedOK
<1>5. ci' = [p EXCEPT !.updates = @ + 1]
  BY DEF CiCdsRejected
<1>. HIDE DEF p
<1>. QED
  BY <1>4, <1>5, CiCountedOK

LEMMA CiStep ==
    ASSUME CiOK(ci, {}), [CiNext]_ci
    PROVE  CiOK(ci', {})
<1>1. CASE UNCHANGED ci
  BY <1>1
<1>2. ASSUME NEW cds \in BOOLEAN, CiStaticLoaded(cds) PROVE CiOK(ci', {})
  <2>. DEFINE state == "WaitingForStaticInitialize"
              q == CiMoved(ci, cds, state)
  <2>1. ci' = ciMaybeFinish(q) /\ ci.state = "Loading"
    BY <1>2 DEF CiStaticLoaded, CiMoved
  <2>2. CiOK(q, {}) /\ q.state # "AllClustersInitialized"
    <3>1. state \in CiStates /\ state # "AllClustersInitialized" /\ ci.state # "AllClustersInitialized"
      BY <2>1 DEF CiStates
    <3>. HIDE DEF state
    <3>. QED
      BY <3>1, CiStateChange
  <2>. HIDE DEF q
  <2>. QED
    BY <2>1, <2>2, CiMaybeFinishOK
<1>3. CASE CiCdsFailed
  BY <1>3, CiCdsInitializedOK DEF CiCdsFailed
<1>4. ASSUME NEW c \in CiClusters, NEW kind \in CiKinds, CiLoadStatic(c, kind) PROVE CiOK(ci', {})
  <2>1. ci' = ciLoadCluster(ci, c, kind, 1, FALSE) /\ CiOK(ci, {c})
    BY <1>4, CiAbsent DEF CiLoadStatic
  <2>. QED
    BY <2>1, CiLoadClusterOK
<1>. QED
  BY <1>1, <1>2, <1>3, <1>4, CiInitializedOK, CiCdsUpdateOK, CiCdsRejectedOK DEF CiNext

\* Whatever CDS adds, replaces, removes or fails to load while clusters are being initialized,
\* in whatever order, and however many clusters there are: the server is told once and in the
\* end, the lists hold exactly the clusters that are not done and whose replacement did not
\* fail, and a cluster that depends on others does not start before its phase.
THEOREM CiSoundHolds == CiSpec => []CiSound
<1>. DEFINE Inv == CiOK(ci, {})
<1>1. CiInit => Inv
  BY CiInitOK
<1>2. Inv /\ [CiNext]_ci => Inv'
  BY CiStep
<1>3. Inv => CiSound
  <2>. SUFFICES ASSUME Inv PROVE CiSound
    OBVIOUS
  <2>1. ci.told = (IF ci.state = "AllClustersInitialized" THEN 1 ELSE 0)
    BY DEF CiOK
  <2>2. ci.waiting = IF ci.told = 1 THEN {}
                     ELSE {c \in CiClusters : ci.cluster[c].stage \notin {"absent", "done", "adrift", "forgotten"}}
    BY DEF CiOK, CiPending, CiOff
  <2>3. ci.state # "AllClustersInitialized" /\ ~ci.started =>
           \A c \in ciWaiting(ci, "Secondary") : ci.cluster[c].stage = "idle"
    BY DEF CiOK, CiIdle, ciWaiting
  <2>. QED
    BY <2>1, <2>2, <2>3 DEF CiSound
<1>. QED
  BY <1>1, <1>2, <1>3, PTL DEF CiSpec

-----------------------------------------------------------------------------
(***************************************************************************)
(* The worker's copy of a cluster.  The closures that are posted lead from *)
(* what the worker has to what the main thread has: there is a chain of    *)
(* clusters, one before each closure and one after the last, whose steps   *)
(* are all as the closures expect them.                                    *)
(***************************************************************************)

TcClusters == [gen : Nat, hosts : SUBSET TcHosts]
TcEntries == [gen : Nat, hosts : SUBSET TcHosts, map : SUBSET TcHosts, parent : Nat]
TcMsgs == [kind : {"add", "remove", "members"}, gen : Nat, hosts : SUBSET TcHosts, added : SUBSET TcHosts,
           removed : SUBSET TcHosts]
TcQueues == Seq(TcMsgs)
TcPostSets == SUBSET (TcHosts \X Nat)
TcPoolMap == [TcHosts -> SUBSET TcPriorities]
TcCountMap == [TcHosts -> Nat]
TcState == [original : BOOLEAN, main : TcClusters, gens : Nat, fresh : SUBSET TcHosts, used : SUBSET TcHosts,
            queue : TcQueues, posts : TcPostSets, entry : TcEntries, pools : TcPoolMap, streams : TcPoolMap,
            drains : TcCountMap, crashed : BOOLEAN]

\* Closure m takes cluster a to cluster b: an update finds the incarnation it is for, what
\* it removes was there, and what it adds is new.
TcGood(a, m, b) ==
    \/ m.kind = "add" /\ m.gen # 0 /\ m.added = {} /\ b = [gen |-> m.gen, hosts |-> {}]
    \/ m.kind = "remove" /\ a.gen # 0 /\ m.added = {} /\ b = TcNoCluster
    \/ /\ m.kind = "members" /\ a.gen # 0 /\ a.gen = m.gen /\ b = [gen |-> a.gen, hosts |-> m.hosts]
       /\ m.hosts = (a.hosts \cup m.added) \ m.removed /\ m.added \cap m.removed = {} /\ m.removed \subseteq a.hosts

\* The hosts of `coming` are in no cluster of the chain, and a host is added once: it does
\* not drain yet, and is in no cluster before.
TcAhead(q, e, coming, drains) ==
    /\ \A h \in coming : drains[h] = 0 /\ \A i \in 0..Len(q) : h \notin e[i].hosts
    /\ \A j \in 1..Len(q) : \A h \in q[j].added : drains[h] = 0 /\ \A i \in 0..(j - 1) : h \notin e[i].hosts

TcChain(q, a, b, e) ==
    /\ e \in [0..Len(q) -> TcClusters] /\ e[0] = a /\ e[Len(q)] = b
    /\ \A i \in 1..Len(q) : TcGood(e[i - 1], q[i], e[i])

TcLinked(q, a, b, coming, drains) == \E e : TcChain(q, a, b, e) /\ TcAhead(q, e, coming, drains)

\* Fewer hosts to come, or fewer that drain.
LEMMA TcLinkedLess ==
    ASSUME NEW q \in TcQueues, NEW a, NEW b, NEW coming, NEW drains, TcLinked(q, a, b, coming, drains),
           NEW coming2, coming2 \subseteq coming, coming \subseteq TcHosts,
           NEW drains2, \A h \in TcHosts : drains[h] = 0 => drains2[h] = 0
    PROVE  TcLinked(q, a, b, coming2, drains2)
<1>1. PICK e : TcChain(q, a, b, e) /\ TcAhead(q, e, coming, drains)
  BY DEF TcLinked
<1>2. \A j \in 1..Len(q) : q[j].added \subseteq TcHosts
  <2>1. \A j \in 1..Len(q) : q[j] \in TcMsgs
    BY DEF TcQueues
  <2>. QED
    BY <2>1 DEF TcMsgs
<1>3. TcAhead(q, e, coming2, drains2)
  BY <1>1, <1>2 DEF TcAhead
<1>. QED
  BY <1>1, <1>3 DEF TcLinked

\* A closure is posted.
LEMMA TcLinkedAppend ==
    ASSUME NEW q \in TcQueues, NEW a, NEW b, NEW coming, NEW drains, TcLinked(q, a, b, coming, drains),
           NEW m \in TcMsgs, NEW c \in TcClusters, TcGood(b, m, c), m.added \subseteq coming
    PROVE  TcLinked(Append(q, m), a, c, coming \ m.added, drains)
<1>1. PICK e : TcChain(q, a, b, e) /\ TcAhead(q, e, coming, drains)
  BY DEF TcLinked
<1>. DEFINE n == Len(q)
            f == [i \in 0..(n + 1) |-> IF i = n + 1 THEN c ELSE e[i]]
            r == Append(q, m)
<1>2. n \in Nat /\ r \in Seq(TcMsgs) /\ Len(r) = n + 1 /\ r[n + 1] = m /\ \A i \in 1..n : r[i] = q[i]
  BY DEF TcQueues
<1>3. /\ e \in [0..n -> TcClusters] /\ e[0] = a /\ e[n] = b
      /\ \A i \in 1..n : TcGood(e[i - 1], q[i], e[i])
  BY <1>1 DEF TcChain
<1>4. f[n + 1] = c /\ \A i \in 0..n : f[i] = e[i]
  BY <1>2
<1>5. f \in [0..(n + 1) -> TcClusters]
  BY <1>2, <1>3
<1>. HIDE DEF n, f, r
<1>6. \A i \in 1..(n + 1) : TcGood(f[i - 1], r[i], f[i])
  <2>. SUFFICES ASSUME NEW i \in 1..(n + 1) PROVE TcGood(f[i - 1], r[i], f[i])
    OBVIOUS
  <2>1. CASE i \in 1..n
    <3>1. i \in 0..n /\ i - 1 \in 0..n
      BY <1>2, <2>1
    <3>. QED
      BY <1>2, <1>3, <1>4, <2>1, <3>1
  <2>2. CASE i = n + 1
    <3>1. i - 1 = n /\ n \in 0..n
      BY <1>2, <2>2
    <3>. QED
      BY <1>2, <1>3, <1>4, <2>2, <3>1
  <2>. QED
    BY <1>2, <2>1, <2>2
<1>7. TcChain(r, a, c, f)
  <2>1. 0 \in 0..n
    BY <1>2
  <2>. QED
    BY <1>2, <1>3, <1>4, <1>5, <1>6, <2>1 DEF TcChain
<1>8. \A h \in coming : h \in c.hosts => h \in m.added
  <2>1. \A h \in coming : h \notin b.hosts
    BY <1>1, <1>2, <1>3 DEF TcAhead, n
  <2>2. CASE m.kind = "members"
    <3>1. c.hosts = m.hosts /\ m.hosts = (b.hosts \cup m.added) \ m.removed
      BY <2>2 DEF TcGood
    <3>. QED
      BY <2>1, <3>1
  <2>3. CASE m.kind # "members"
    BY <2>3 DEF TcGood, TcNoCluster
  <2>. QED
    BY <2>2, <2>3
<1>9. TcAhead(r, f, coming \ m.added, drains)
  <2>1. ASSUME NEW h \in coming \ m.added PROVE drains[h] = 0 /\ \A i \in 0..(n + 1) : h \notin f[i].hosts
    <3>1. drains[h] = 0 /\ \A i \in 0..n : h \notin e[i].hosts
      BY <1>1 DEF TcAhead, n
    <3>2. h \notin c.hosts
      BY <1>8
    <3>3. \A i \in 0..(n + 1) : i = n + 1 \/ i \in 0..n
      BY <1>2
    <3>. QED
      BY <1>4, <3>1, <3>2, <3>3
  <2>2. ASSUME NEW j \in 1..(n + 1), NEW h \in r[j].added
        PROVE  drains[h] = 0 /\ \A i \in 0..(j - 1) : h \notin f[i].hosts
    <3>1. CASE j \in 1..n
      <4>1. h \in q[j].added
        BY <1>2, <3>1
      <4>2. drains[h] = 0 /\ \A i \in 0..(j - 1) : h \notin e[i].hosts
        BY <1>1, <3>1, <4>1 DEF TcAhead, n
      <4>3. \A i \in 0..(j - 1) : i \in 0..n
        BY <1>2, <3>1
      <4>. QED
        BY <1>4, <4>2, <4>3
    <3>2. CASE j = n + 1
      <4>1. h \in coming /\ j - 1 = n
        BY <1>2, <3>2
      <4>2. drains[h] = 0 /\ \A i \in 0..n : h \notin e[i].hosts
        BY <1>1, <4>1 DEF TcAhead, n
      <4>. QED
        BY <1>4, <4>1, <4>2
    <3>. QED
      BY <1>2, <3>1, <3>2
  <2>. QED
    BY <1>2, <2>1, <2>2 DEF TcAhead
<1>. QED
  BY <1>7, <1>9 DEF TcLinked, r

\* The first closure is run: hosts of the cluster it finds may start to drain.
LEMMA TcLinkedTail ==
    ASSUME NEW q \in TcQueues, q # <<>>, NEW a, NEW b, NEW coming, NEW drains, TcLinked(q, a, b, coming, drains),
           coming \subseteq TcHosts
    PROVE  \E c \in TcClusters :
              /\ TcGood(a, Head(q), c)
              /\ \A h \in Head(q).added : drains[h] = 0 /\ h \notin a.hosts
              /\ \A drains2 : (\A h \in TcHosts : h \notin a.hosts /\ drains[h] = 0 => drains2[h] = 0)
                                 => TcLinked(Tail(q), c, b, coming, drains2)
<1>1. PICK e : TcChain(q, a, b, e) /\ TcAhead(q, e, coming, drains)
  BY DEF TcLinked
<1>. DEFINE n == Len(q)
            f == [i \in 0..(n - 1) |-> e[i + 1]]
            r == Tail(q)
<1>2. /\ n \in Nat /\ n > 0 /\ r \in Seq(TcMsgs) /\ Len(r) = n - 1 /\ Head(q) = q[1] /\ \A i \in 1..(n - 1) : r[i] = q[i + 1]
      /\ \A j \in 1..n : q[j] \in TcMsgs
  BY DEF TcQueues
<1>3. /\ e \in [0..n -> TcClusters] /\ e[0] = a /\ e[n] = b
      /\ \A i \in 1..n : TcGood(e[i - 1], q[i], e[i])
  BY <1>1 DEF TcChain
<1>4. \A i \in 0..(n - 1) : f[i] = e[i + 1]
  OBVIOUS
<1>5. f \in [0..(n - 1) -> TcClusters]
  BY <1>2, <1>3
<1>. HIDE DEF n, f, r
<1>6. \A i \in 1..(n - 1) : TcGood(f[i - 1], r[i], f[i])
  <2>. SUFFICES ASSUME NEW i \in 1..(n - 1) PROVE TcGood(f[i - 1], r[i], f[i])
    OBVIOUS
  <2>1. i + 1 \in 1..n /\ i \in 0..(n - 1) /\ i - 1 \in 0..(n - 1) /\ (i + 1) - 1 = i /\ (i - 1) + 1 = i
    BY <1>2
  <2>2. TcGood(e[i], q[i + 1], e[i + 1])
    BY <1>3, <2>1
  <2>. QED
    BY <1>2, <1>4, <2>1, <2>2
<1>7. e[1] \in TcClusters /\ f[0] = e[1] /\ f[n - 1] = b /\ TcGood(a, q[1], e[1])
  <2>1. 1 \in 1..n /\ 1 \in 0..n /\ 1 - 1 = 0 /\ 0 \in 0..(n - 1) /\ n - 1 \in 0..(n - 1) /\ 0 + 1 = 1 /\ (n - 1) + 1 = n
    BY <1>2
  <2>. QED
    BY <1>3, <1>4, <2>1
<1>8. TcChain(r, e[1], b, f)
  BY <1>2, <1>5, <1>6, <1>7 DEF TcChain
<1>9. \A h \in q[1].added : drains[h] = 0 /\ h \notin a.hosts
  BY <1>1, <1>2, <1>3 DEF TcAhead, n
<1>10. ASSUME NEW drains2, \A h \in TcHosts : h \notin a.hosts /\ drains[h] = 0 => drains2[h] = 0
       PROVE  TcAhead(r, f, coming, drains2)
  <2>1. ASSUME NEW h \in coming PROVE drains2[h] = 0 /\ \A i \in 0..(n - 1) : h \notin f[i].hosts
    <3>1. drains[h] = 0 /\ \A i \in 0..n : h \notin e[i].hosts
      BY <1>1 DEF TcAhead, n
    <3>2. 0 \in 0..n /\ \A i \in 0..(n - 1) : i + 1 \in 0..n
      BY <1>2
    <3>. QED
      BY <1>3, <1>4, <1>10, <3>1, <3>2
  <2>2. ASSUME NEW j \in 1..(n - 1), NEW h \in r[j].added
        PROVE  drains2[h] = 0 /\ \A i \in 0..(j - 1) : h \notin f[i].hosts
    <3>1. j + 1 \in 1..n /\ (j + 1) - 1 = j /\ 0 \in 0..j
      BY <1>2
    <3>2. h \in q[j + 1].added
      BY <1>2
    <3>3. drains[h] = 0 /\ \A i \in 0..j : h \notin e[i].hosts
      BY <1>1, <3>1, <3>2 DEF TcAhead, n
    <3>4. h \in TcHosts
      BY <1>2, <3>1, <3>2 DEF TcMsgs
    <3>5. \A i \in 0..(j - 1) : i + 1 \in 0..j /\ i \in 0..(n - 1)
      BY <1>2
    <3>. QED
      BY <1>3, <1>4, <1>10, <3>1, <3>3, <3>4, <3>5
  <2>. QED
    BY <1>2, <2>1, <2>2 DEF TcAhead
<1>11. \A drains2 : (\A h \in TcHosts : h \notin a.hosts /\ drains[h] = 0 => drains2[h] = 0) => TcLinked(r, e[1], b, coming, drains2)
  BY <1>8, <1>10 DEF TcLinked
<1>. QED
  BY <1>2, <1>7, <1>9, <1>11 DEF r

----------------------------------------------------------------------------
TcAt(e) == [gen |-> e.gen, hosts |-> e.hosts]

\* Hosts that exist nowhere yet, or that the main thread has not seen yet.
TcComing(p) == p.fresh \cup {x[1] : x \in p.posts}

\* A host is on its way to the main thread once.
TcPostsOnce(p) ==
    /\ \A x \in p.posts : x[1] \notin p.fresh
    /\ \A x, y \in p.posts : x[1] = y[1] => x = y

\* A pool with streams is there; a host that drains is gone for the load balancer.
TcDrainOne(streams, pools, drains, map, h) ==
    /\ streams[h] \subseteq pools[h]
    /\ drains[h] \in {0, Cardinality(streams[h])}
    /\ drains[h] # 0 => h \notin map

TcDrained(p) == \A h \in TcHosts : TcDrainOne(p.streams, p.pools, p.drains, p.entry.map, h)

TcOK(p) ==
    /\ p \in TcState
    /\ p.entry.hosts \subseteq p.entry.map
    /\ p.main.gen = 0 => p.main.hosts = {}
    /\ TcDrained(p) /\ TcPostsOnce(p)
    /\ TcLinked(p.queue, TcAt(p.entry), p.main, TcComing(p), p.drains)

TcInv == tc.crashed \/ TcOK(tc)

LEMMA TcStateFields ==
    ASSUME NEW p \in TcState
    PROVE  /\ p.original \in BOOLEAN /\ p.main \in TcClusters /\ p.gens \in Nat /\ p.fresh \in SUBSET TcHosts
           /\ p.used \in SUBSET TcHosts /\ p.queue \in TcQueues /\ p.posts \in TcPostSets /\ p.entry \in TcEntries
           /\ p.pools \in TcPoolMap /\ p.streams \in TcPoolMap /\ p.drains \in TcCountMap /\ p.crashed \in BOOLEAN
BY DEF TcState

LEMMA TcComingHosts ==
    ASSUME NEW p \in TcState
    PROVE  TcComing(p) \subseteq TcHosts
BY TcStateFields DEF TcComing, TcPostSets

\* The main thread posts a closure.
LEMMA TcPosted ==
    ASSUME NEW p, TcOK(p), NEW q \in TcState, NEW m \in TcMsgs, TcGood(p.main, m, q.main), m.added \subseteq TcComing(p),
           q.queue = Append(p.queue, m), q.entry = p.entry, q.pools = p.pools, q.streams = p.streams,
           q.drains = p.drains, TcComing(q) \subseteq TcComing(p) \ m.added, TcPostsOnce(q),
           q.main.gen = 0 => q.main.hosts = {}
    PROVE  TcOK(q)
<1>1. p \in TcState
  BY DEF TcOK
<1>2. p.queue \in TcQueues /\ q.main \in TcClusters /\ q.queue \in TcQueues
  BY <1>1, TcStateFields
<1>3. TcLinked(q.queue, TcAt(p.entry), q.main, TcComing(p) \ m.added, p.drains)
  BY <1>2, TcLinkedAppend DEF TcOK
<1>4. TcComing(p) \ m.added \subseteq TcHosts
  BY <1>1, TcComingHosts
<1>5. TcLinked(q.queue, TcAt(q.entry), q.main, TcComing(q), q.drains)
  BY <1>2, <1>3, <1>4, TcLinkedLess
<1>6. TcDrained(q)
  BY DEF TcOK, TcDrained
<1>. QED
  BY <1>5, <1>6 DEF TcOK

\* Neither the queue nor the clusters change.
LEMMA TcKept ==
    ASSUME NEW p, TcOK(p), NEW q \in TcState, q.main = p.main, q.queue = p.queue, TcAt(q.entry) = TcAt(p.entry),
           q.entry.hosts \subseteq q.entry.map, TcDrained(q), TcPostsOnce(q), TcComing(q) \subseteq TcComing(p),
           \A h \in TcHosts : p.drains[h] = 0 => q.drains[h] = 0
    PROVE  TcOK(q)
<1>1. p \in TcState
  BY DEF TcOK
<1>2. p.queue \in TcQueues
  BY <1>1, TcStateFields
<1>3. TcComing(p) \subseteq TcHosts
  BY <1>1, TcComingHosts
<1>4. TcLinked(p.queue, TcAt(p.entry), p.main, TcComing(q), q.drains)
  BY <1>2, <1>3, TcLinkedLess DEF TcOK
<1>. QED
  BY <1>4 DEF TcOK

----------------------------------------------------------------------------
\* The main thread's steps.

TcWith(p, main, gens, fresh, used, queue, posts) ==
    [p EXCEPT !.main = main, !.gens = gens, !.fresh = fresh, !.used = used, !.queue = queue, !.posts = posts]

LEMMA TcMainFields ==
    ASSUME NEW p \in TcState, NEW main \in TcClusters, NEW gens \in Nat, NEW fresh \in SUBSET TcHosts,
           NEW used \in SUBSET TcHosts, NEW queue \in TcQueues, NEW posts \in TcPostSets
    PROVE  LET q == TcWith(p, main, gens, fresh, used, queue, posts) IN
           /\ q \in TcState /\ q.original = p.original /\ q.main = main /\ q.gens = gens /\ q.fresh = fresh
           /\ q.used = used /\ q.queue = queue /\ q.posts = posts /\ q.entry = p.entry /\ q.pools = p.pools
           /\ q.streams = p.streams /\ q.drains = p.drains /\ q.crashed = p.crashed
BY DEF TcState, TcWith

TcAddMsg(gen) == [kind |-> "add", gen |-> gen, hosts |-> {}, added |-> {}, removed |-> {}]
TcRemoveMsg == [kind |-> "remove", gen |-> 0, hosts |-> {}, added |-> {}, removed |-> {}]
TcMembersMsg(gen, hosts, added, removed) ==
    [kind |-> "members", gen |-> gen, hosts |-> hosts, added |-> added, removed |-> removed]

LEMMA TcMsgTypes ==
    /\ \A gen \in Nat : TcAddMsg(gen) \in TcMsgs
    /\ TcRemoveMsg \in TcMsgs
    /\ \A gen \in Nat, hosts, added, removed \in SUBSET TcHosts : TcMembersMsg(gen, hosts, added, removed) \in TcMsgs
BY DEF TcMsgs, TcAddMsg, TcRemoveMsg, TcMembersMsg

LEMMA TcQueueTypes ==
    ASSUME NEW q \in TcQueues, NEW m \in TcMsgs
    PROVE  Append(q, m) \in TcQueues
BY DEF TcQueues

\* Members change: some hosts that were to come do, some that are there go.
LEMMA TcMembersPosted ==
    ASSUME NEW p, TcOK(p), NEW q \in TcState, NEW added \in SUBSET TcHosts, NEW removed \in SUBSET TcHosts,
           p.main.gen # 0, added \subseteq TcComing(p), removed \subseteq p.main.hosts, added \cap removed = {},
           q.main = [gen |-> p.main.gen, hosts |-> (p.main.hosts \cup added) \ removed],
           q.queue = Append(p.queue, TcMembersMsg(q.main.gen, q.main.hosts, added, removed)), q.entry = p.entry,
           q.pools = p.pools, q.streams = p.streams, q.drains = p.drains,
           TcComing(q) \subseteq TcComing(p) \ added, TcPostsOnce(q)
    PROVE  TcOK(q)
<1>. DEFINE m == TcMembersMsg(q.main.gen, q.main.hosts, added, removed)
<1>1. q.main \in TcClusters
  BY TcStateFields
<1>2. q.main.gen \in Nat /\ q.main.hosts \in SUBSET TcHosts
  BY <1>1 DEF TcClusters
<1>3. m \in TcMsgs
  BY <1>2, TcMsgTypes
<1>4. /\ m.kind = "members" /\ m.gen = q.main.gen /\ m.hosts = q.main.hosts /\ m.added = added /\ m.removed = removed
  BY DEF TcMembersMsg
<1>5. q.main.gen = p.main.gen /\ q.main.hosts = (p.main.hosts \cup added) \ removed
  OBVIOUS
<1>. HIDE DEF m
<1>6. TcGood(p.main, m, q.main)
  BY <1>4, <1>5 DEF TcGood
<1>. QED
  BY <1>3, <1>4, <1>5, <1>6, TcPosted DEF m

LEMMA TcAddOrUpdateKeeps ==
    ASSUME TcOK(tc), NEW hosts \in SUBSET TcHosts, TcAddOrUpdate(hosts)
    PROVE  TcOK(tc')
<1>1. tc \in TcState
  BY DEF TcOK
<1>2. /\ tc.main \in TcClusters /\ tc.gens \in Nat /\ tc.fresh \in SUBSET TcHosts /\ tc.used \in SUBSET TcHosts
      /\ tc.queue \in TcQueues /\ tc.posts \in TcPostSets
  BY <1>1, TcStateFields
<1>. DEFINE gen == tc.gens + 1
            none == {}
            empty == [gen |-> gen, hosts |-> none]
            main == [gen |-> gen, hosts |-> hosts]
            added == Append(tc.queue, TcAddMsg(gen))
            both == Append(added, TcMembersMsg(gen, hosts, hosts, {}))
            fresh == tc.fresh \ hosts
            p == TcWith(tc, empty, gen, tc.fresh, tc.used, added, tc.posts)
            q == TcWith(tc, main, gen, fresh, tc.used, both, tc.posts)
<1>3. gen \in Nat /\ gen # 0
  BY <1>2
<1>4. empty \in TcClusters /\ main \in TcClusters /\ fresh \in SUBSET TcHosts /\ none \in SUBSET TcHosts
  BY <1>2, <1>3 DEF TcClusters
<1>5. added \in TcQueues /\ TcAddMsg(gen) \in TcMsgs
  BY <1>2, <1>3, TcMsgTypes, TcQueueTypes
<1>6. both \in TcQueues
  BY <1>2, <1>3, <1>5, TcMsgTypes, TcQueueTypes
<1>7. hosts \subseteq tc.fresh
  BY DEF TcAddOrUpdate
<1>8. tc' = IF hosts = none THEN p ELSE q
  <2>1. CASE hosts = {}
    <3>1. tc' = tcPostCluster([tc EXCEPT !.main = [gen |-> tc.gens + 1, hosts |-> hosts],
                                         !.gens = @ + 1, !.fresh = @ \ hosts], "add")
      BY <2>1 DEF TcAddOrUpdate
    <3>. QED
      BY <1>1, <2>1, <3>1 DEF tcPostCluster, TcState, TcWith, TcAddMsg
  <2>2. CASE hosts # {}
    <3>1. tc' = tcPostMembers(tcPostCluster([tc EXCEPT !.main = [gen |-> tc.gens + 1, hosts |-> hosts],
                                         !.gens = @ + 1, !.fresh = @ \ hosts], "add"), hosts, {})
      BY <2>2 DEF TcAddOrUpdate
    <3>. QED
      BY <1>1, <2>2, <3>1 DEF tcPostCluster, tcPostMembers, TcState, TcWith, TcAddMsg, TcMembersMsg
  <2>. QED
    BY <2>1, <2>2
<1>9. /\ empty.gen = gen /\ empty.hosts = {} /\ main.gen = gen /\ main.hosts = hosts
      /\ main = [gen |-> empty.gen, hosts |-> (empty.hosts \cup hosts) \ {}]
  OBVIOUS
<1>10. TcGood(tc.main, TcAddMsg(gen), empty) /\ TcAddMsg(gen).added = {}
  BY <1>3 DEF TcGood, TcAddMsg
<1>. HIDE DEF gen, none, empty, main, added, both, fresh
<1>11. /\ p \in TcState /\ p.main = empty /\ p.fresh = tc.fresh /\ p.queue = added /\ p.posts = tc.posts
       /\ p.entry = tc.entry /\ p.pools = tc.pools /\ p.streams = tc.streams /\ p.drains = tc.drains
  BY <1>1, <1>2, <1>3, <1>4, <1>5, TcMainFields
<1>12. /\ q \in TcState /\ q.main = main /\ q.fresh = fresh /\ q.queue = both /\ q.posts = tc.posts
       /\ q.entry = tc.entry /\ q.pools = tc.pools /\ q.streams = tc.streams /\ q.drains = tc.drains
  BY <1>1, <1>2, <1>3, <1>4, <1>6, TcMainFields
<1>. HIDE DEF p, q
<1>13. TcComing(p) = TcComing(tc) /\ TcPostsOnce(p) /\ TcPostsOnce(tc)
  BY <1>11 DEF TcComing, TcPostsOnce, TcOK
<1>14. TcOK(p)
  <2>1. p.main.gen = 0 => p.main.hosts = {}
    BY <1>3, <1>9, <1>11
  <2>2. p.queue = Append(tc.queue, TcAddMsg(gen))
    BY <1>11 DEF added
  <2>3. TcGood(tc.main, TcAddMsg(gen), p.main) /\ TcAddMsg(gen).added \subseteq TcComing(tc)
    BY <1>10, <1>11
  <2>4. TcComing(p) \subseteq TcComing(tc) \ TcAddMsg(gen).added
    BY <1>10, <1>13
  <2>. QED
    BY <1>5, <1>11, <1>13, <2>1, <2>2, <2>3, <2>4, TcPosted
<1>15. CASE hosts # none
  <2>1. hosts \subseteq TcComing(p)
    BY <1>7, <1>11 DEF TcComing
  <2>2. TcComing(q) \subseteq TcComing(p) \ hosts
    <3>1. \A x \in tc.posts : x[1] \notin hosts
      BY <1>7, <1>13 DEF TcPostsOnce
    <3>. QED
      BY <1>11, <1>12, <3>1 DEF TcComing, fresh
  <2>3. TcPostsOnce(q)
    BY <1>12, <1>13 DEF TcPostsOnce, fresh
  <2>4. q.queue = Append(p.queue, TcMembersMsg(q.main.gen, q.main.hosts, hosts, {}))
    BY <1>9, <1>11, <1>12 DEF both
  <2>5. p.main.gen # 0 /\ q.main = [gen |-> p.main.gen, hosts |-> (p.main.hosts \cup hosts) \ {}]
    BY <1>3, <1>9, <1>11, <1>12
  <2>6. {} \in SUBSET TcHosts /\ {} \subseteq p.main.hosts /\ hosts \cap {} = {}
    OBVIOUS
  <2>7. TcOK(q)
    BY <1>11, <1>12, <1>14, <2>1, <2>2, <2>3, <2>4, <2>5, <2>6, TcMembersPosted
  <2>. QED
    BY <1>8, <1>15, <2>7
<1>. QED
  BY <1>8, <1>14, <1>15

LEMMA TcRemoveKeeps ==
    ASSUME TcOK(tc), TcRemove
    PROVE  TcOK(tc')
<1>1. tc \in TcState
  BY DEF TcOK
<1>2. /\ tc.main \in TcClusters /\ tc.gens \in Nat /\ tc.fresh \in SUBSET TcHosts /\ tc.used \in SUBSET TcHosts
      /\ tc.queue \in TcQueues /\ tc.posts \in TcPostSets
  BY <1>1, TcStateFields
<1>. DEFINE queue == Append(tc.queue, TcRemoveMsg)
            q == TcWith(tc, TcNoCluster, tc.gens, tc.fresh, tc.used, queue, tc.posts)
<1>3. queue \in TcQueues /\ TcRemoveMsg \in TcMsgs
  BY <1>2, TcMsgTypes, TcQueueTypes
<1>4. TcNoCluster \in TcClusters /\ TcNoCluster.gen = 0 /\ TcNoCluster.hosts = {}
  BY DEF TcNoCluster, TcClusters
<1>5. tc' = q
  BY <1>1, <1>2, <1>4 DEF TcRemove, tcPostCluster, TcState, TcWith, TcRemoveMsg
<1>6. tc.main.gen # 0
  BY DEF TcRemove
<1>7. TcGood(tc.main, TcRemoveMsg, TcNoCluster) /\ TcRemoveMsg.added = {}
  BY <1>6 DEF TcGood, TcRemoveMsg
<1>. HIDE DEF queue
<1>8. /\ q \in TcState /\ q.main = TcNoCluster /\ q.fresh = tc.fresh /\ q.queue = queue /\ q.posts = tc.posts
      /\ q.entry = tc.entry /\ q.pools = tc.pools /\ q.streams = tc.streams /\ q.drains = tc.drains
  BY <1>1, <1>2, <1>3, <1>4, TcMainFields
<1>. HIDE DEF q
<1>9. TcComing(q) = TcComing(tc) /\ TcPostsOnce(q)
  BY <1>8 DEF TcComing, TcPostsOnce, TcOK
<1>10. TcOK(q)
  BY <1>3, <1>4, <1>7, <1>8, <1>9, TcPosted DEF queue
<1>. QED
  BY <1>5, <1>10

LEMMA TcUpdateHostsKeeps ==
    ASSUME TcOK(tc), NEW added \in SUBSET TcHosts, NEW removed \in SUBSET TcHosts, TcUpdateHosts(added, removed)
    PROVE  TcOK(tc')
<1>1. tc \in TcState
  BY DEF TcOK
<1>2. /\ tc.main \in TcClusters /\ tc.gens \in Nat /\ tc.fresh \in SUBSET TcHosts /\ tc.used \in SUBSET TcHosts
      /\ tc.queue \in TcQueues /\ tc.posts \in TcPostSets
  BY <1>1, TcStateFields
<1>. DEFINE hosts == (tc.main.hosts \cup added) \ removed
            main == [gen |-> tc.main.gen, hosts |-> hosts]
            fresh == tc.fresh \ added
            queue == Append(tc.queue, TcMembersMsg(tc.main.gen, hosts, added, removed))
            q == TcWith(tc, main, tc.gens, fresh, tc.used, queue, tc.posts)
<1>3. main \in TcClusters /\ fresh \in SUBSET TcHosts /\ tc.main.gen \in Nat /\ hosts \in SUBSET TcHosts
  BY <1>2 DEF TcClusters
<1>4. queue \in TcQueues
  BY <1>2, <1>3, TcMsgTypes, TcQueueTypes
<1>5. tc.main.gen # 0 /\ added \subseteq tc.fresh /\ removed \subseteq tc.main.hosts
  BY DEF TcUpdateHosts
<1>6. [tc EXCEPT !.main.hosts = (@ \cup added) \ removed, !.fresh = @ \ added] = [tc EXCEPT !.main = main, !.fresh = fresh]
  <2>1. [tc.main EXCEPT !.hosts = (@ \cup added) \ removed] = main
    BY <1>2 DEF TcClusters
  <2>. HIDE DEF main
  <2>. QED
    BY <1>1, <2>1 DEF TcState
<1>7. tc' = tcPostMembers([tc EXCEPT !.main = main, !.fresh = fresh], added, removed)
  BY <1>6 DEF TcUpdateHosts
<1>8. tc' = q
  BY <1>1, <1>7 DEF tcPostMembers, TcState, TcWith, TcMembersMsg
<1>9. main.gen = tc.main.gen /\ main.hosts = hosts
  OBVIOUS
<1>10. main = [gen |-> tc.main.gen, hosts |-> (tc.main.hosts \cup added) \ removed]
  OBVIOUS
<1>. HIDE DEF hosts, main, fresh, queue
<1>11. /\ q \in TcState /\ q.main = main /\ q.fresh = fresh /\ q.queue = queue /\ q.posts = tc.posts
       /\ q.entry = tc.entry /\ q.pools = tc.pools /\ q.streams = tc.streams /\ q.drains = tc.drains
  BY <1>1, <1>2, <1>3, <1>4, TcMainFields
<1>. HIDE DEF q
<1>12. TcComing(q) \subseteq TcComing(tc) \ added
  <2>1. \A x \in tc.posts : x[1] \notin added
    BY <1>5 DEF TcPostsOnce, TcOK
  <2>. QED
    BY <1>11, <2>1 DEF TcComing, fresh
<1>13. TcPostsOnce(q)
  BY <1>11 DEF TcPostsOnce, TcOK, fresh
<1>14. added \subseteq TcComing(tc)
  BY <1>5 DEF TcComing
<1>15. added \cap removed = {}
  <2>1. tc.queue \in TcQueues /\ TcLinked(tc.queue, TcAt(tc.entry), tc.main, TcComing(tc), tc.drains)
    BY <1>2 DEF TcOK
  <2>2. PICK e : TcChain(tc.queue, TcAt(tc.entry), tc.main, e) /\ TcAhead(tc.queue, e, TcComing(tc), tc.drains)
    BY <2>1 DEF TcLinked
  <2>3. Len(tc.queue) \in 0..Len(tc.queue) /\ e[Len(tc.queue)] = tc.main
    BY <1>2, <2>2 DEF TcChain, TcQueues
  <2>. QED
    BY <1>5, <1>14, <2>2, <2>3 DEF TcAhead
<1>16. q.queue = Append(tc.queue, TcMembersMsg(q.main.gen, q.main.hosts, added, removed))
  BY <1>9, <1>11 DEF queue
<1>17. TcOK(q)
  BY <1>5, <1>10, <1>11, <1>12, <1>13, <1>14, <1>15, <1>16, TcMembersPosted
<1>. QED
  BY <1>8, <1>17

\* OriginalDstCluster::addHost() for a host that was to come.
LEMMA TcAddHostKeeps ==
    ASSUME TcOK(tc), NEW h \in TcHosts, NEW fresh \in SUBSET TcHosts, NEW used \in SUBSET TcHosts,
           NEW posts \in TcPostSets, NEW p, p = [tc EXCEPT !.fresh = fresh, !.used = used, !.posts = posts],
           tc.main.gen # 0, h \in TcComing(tc), fresh \subseteq tc.fresh, posts \subseteq tc.posts, h \notin fresh,
           \A x \in posts : x[1] # h
    PROVE  TcOK(tcAddHost(p, h))
<1>1. tc \in TcState
  BY DEF TcOK
<1>2. tc.main \in TcClusters /\ tc.gens \in Nat /\ tc.queue \in TcQueues
  BY <1>1, TcStateFields
<1>. DEFINE none == {}
            added == {h}
            hosts == tc.main.hosts \cup added
            main == [gen |-> tc.main.gen, hosts |-> hosts]
            queue == Append(tc.queue, TcMembersMsg(tc.main.gen, hosts, added, none))
            q == TcWith(tc, main, tc.gens, fresh, used, queue, posts)
<1>3. main \in TcClusters /\ tc.main.gen \in Nat /\ hosts \in SUBSET TcHosts /\ added \in SUBSET TcHosts /\ none \in SUBSET TcHosts
  BY <1>2 DEF TcClusters
<1>4. queue \in TcQueues
  BY <1>2, <1>3, TcMsgTypes, TcQueueTypes
<1>5. [p EXCEPT !.main.hosts = @ \cup {h}] = [tc EXCEPT !.main = main, !.fresh = fresh, !.used = used, !.posts = posts]
  <2>1. [tc.main EXCEPT !.hosts = @ \cup {h}] = main
    <3>1. tc.main.hosts \cup {h} = hosts
      OBVIOUS
    <3>. HIDE DEF hosts
    <3>2. [tc.main EXCEPT !.hosts = hosts] = main
      BY <1>2 DEF TcClusters
    <3>. QED
      BY <3>1, <3>2
  <2>. HIDE DEF main
  <2>. QED
    BY <1>1, <2>1 DEF TcState
<1>6. tcAddHost(p, h) = tcPostMembers([tc EXCEPT !.main = main, !.fresh = fresh, !.used = used, !.posts = posts], added, none)
  BY <1>5 DEF tcAddHost
<1>7. tcAddHost(p, h) = q
  BY <1>1, <1>6 DEF tcPostMembers, TcState, TcWith, TcMembersMsg
<1>8. main.gen = tc.main.gen /\ main.hosts = hosts /\ added \cap none = {} /\ none \subseteq tc.main.hosts
  OBVIOUS
<1>9. main = [gen |-> tc.main.gen, hosts |-> (tc.main.hosts \cup added) \ none]
  OBVIOUS
<1>. HIDE DEF none, added, hosts, main, queue
<1>10. /\ q \in TcState /\ q.main = main /\ q.fresh = fresh /\ q.queue = queue /\ q.posts = posts
       /\ q.entry = tc.entry /\ q.pools = tc.pools /\ q.streams = tc.streams /\ q.drains = tc.drains
  BY <1>1, <1>2, <1>3, <1>4, TcMainFields
<1>. HIDE DEF q
<1>11. TcComing(q) \subseteq TcComing(tc) \ added /\ added \subseteq TcComing(tc)
  BY <1>10 DEF TcComing, added
<1>12. TcPostsOnce(q)
  BY <1>10 DEF TcPostsOnce, TcOK
<1>13. q.queue = Append(tc.queue, TcMembersMsg(q.main.gen, q.main.hosts, added, none))
  BY <1>8, <1>10 DEF queue
<1>14. TcOK(q)
  BY <1>3, <1>8, <1>9, <1>10, <1>11, <1>12, <1>13, TcMembersPosted
<1>. QED
  BY <1>7, <1>14

LEMMA TcAddHostOfWorkerKeeps ==
    ASSUME TcOK(tc), NEW h \in TcHosts, NEW gen \in 1..TcMaxGen, TcAddHostOfWorker(h, gen)
    PROVE  TcOK(tc')
<1>1. tc \in TcState
  BY DEF TcOK
<1>2. /\ tc.main \in TcClusters /\ tc.gens \in Nat /\ tc.fresh \in SUBSET TcHosts /\ tc.used \in SUBSET TcHosts
      /\ tc.queue \in TcQueues /\ tc.posts \in TcPostSets
  BY <1>1, TcStateFields
<1>. DEFINE posts == tc.posts \ {<<h, gen>>}
            p == [tc EXCEPT !.fresh = tc.fresh, !.used = tc.used, !.posts = posts]
            r == TcWith(tc, tc.main, tc.gens, tc.fresh, tc.used, tc.queue, posts)
<1>3. <<h, gen>> \in tc.posts /\ posts \in TcPostSets /\ posts \subseteq tc.posts
  BY <1>2 DEF TcAddHostOfWorker, TcPostSets
<1>4. [tc EXCEPT !.posts = @ \ {<<h, gen>>}] = p /\ p = r
  BY <1>1 DEF TcState, TcWith
<1>5. tc' = IF tc.main.gen = gen THEN tcAddHost(p, h) ELSE r
  BY <1>4 DEF TcAddHostOfWorker
<1>6. h \in TcComing(tc) /\ h \notin tc.fresh /\ \A x \in posts : x[1] # h
  BY <1>3 DEF TcComing, TcPostsOnce, TcOK
<1>7. CASE tc.main.gen = gen
  <2>1. tc.main.gen # 0
    BY <1>7
  <2>2. TcOK(tcAddHost(p, h))
    BY <1>2, <1>3, <1>6, <2>1, TcAddHostKeeps
  <2>. QED
    BY <1>5, <1>7, <2>2
<1>8. CASE tc.main.gen # gen
  <2>. HIDE DEF posts
  <2>1. /\ r \in TcState /\ r.main = tc.main /\ r.fresh = tc.fresh /\ r.queue = tc.queue /\ r.posts = posts
        /\ r.entry = tc.entry /\ r.pools = tc.pools /\ r.streams = tc.streams /\ r.drains = tc.drains
    BY <1>1, <1>2, <1>3, TcMainFields
  <2>. HIDE DEF r
  <2>2. TcComing(r) \subseteq TcComing(tc) /\ TcPostsOnce(r)
    BY <1>3, <2>1 DEF TcComing, TcPostsOnce, TcOK
  <2>3. TcDrained(r) /\ r.entry.hosts \subseteq r.entry.map
    BY <2>1 DEF TcDrained, TcOK
  <2>4. TcOK(r)
    BY <2>1, <2>2, <2>3, TcKept
  <2>. QED
    BY <1>5, <1>8, <2>4
<1>. QED
  BY <1>7, <1>8

LEMMA TcAddHostOfOtherKeeps ==
    ASSUME TcOK(tc), NEW h \in TcHosts, TcAddHostOfOther(h)
    PROVE  TcOK(tc')
<1>1. tc \in TcState
  BY DEF TcOK
<1>2. /\ tc.fresh \in SUBSET TcHosts /\ tc.used \in SUBSET TcHosts /\ tc.posts \in TcPostSets
  BY <1>1, TcStateFields
<1>. DEFINE fresh == tc.fresh \ {h}
            used == tc.used \cup {h}
            p == [tc EXCEPT !.fresh = fresh, !.used = used, !.posts = tc.posts]
<1>3. tc.main.gen # 0 /\ h \in tc.fresh
  BY DEF TcAddHostOfOther
<1>4. [tc EXCEPT !.fresh = @ \ {h}, !.used = @ \cup {h}] = p
  BY <1>1 DEF TcState, TcWith
<1>5. tc' = tcAddHost(p, h)
  BY <1>4 DEF TcAddHostOfOther
<1>6. h \in TcComing(tc) /\ \A x \in tc.posts : x[1] # h
  BY <1>3 DEF TcComing, TcPostsOnce, TcOK
<1>7. fresh \in SUBSET TcHosts /\ used \in SUBSET TcHosts /\ fresh \subseteq tc.fresh /\ h \notin fresh
  BY <1>2
<1>. HIDE DEF fresh, used
<1>8. TcOK(tcAddHost(p, h))
  BY <1>2, <1>3, <1>6, <1>7, TcAddHostKeeps
<1>. QED
  BY <1>5, <1>8

LEMMA TcCleanupKeeps ==
    ASSUME TcOK(tc), TcCleanup
    PROVE  TcOK(tc')
<1>1. tc \in TcState
  BY DEF TcOK
<1>2. /\ tc.main \in TcClusters /\ tc.gens \in Nat /\ tc.fresh \in SUBSET TcHosts /\ tc.used \in SUBSET TcHosts
      /\ tc.queue \in TcQueues /\ tc.posts \in TcPostSets
  BY <1>1, TcStateFields
<1>. DEFINE none == {}
            stale == tc.main.hosts \ tc.used
            hosts == tc.main.hosts \ stale
            used == tc.used \ tc.main.hosts
            main == [gen |-> tc.main.gen, hosts |-> hosts]
            queue == Append(tc.queue, TcMembersMsg(tc.main.gen, hosts, none, stale))
            p == TcWith(tc, main, tc.gens, tc.fresh, used, tc.queue, tc.posts)
            q == TcWith(tc, main, tc.gens, tc.fresh, used, queue, tc.posts)
<1>3. main \in TcClusters /\ tc.main.gen \in Nat /\ hosts \in SUBSET TcHosts /\ stale \in SUBSET TcHosts
      /\ used \in SUBSET TcHosts /\ none \in SUBSET TcHosts
  BY <1>2 DEF TcClusters
<1>4. queue \in TcQueues
  BY <1>2, <1>3, TcMsgTypes, TcQueueTypes
<1>5. tc.main.gen # 0
  BY DEF TcCleanup, TcOK
<1>6. [tc EXCEPT !.used = @ \ tc.main.hosts, !.main.hosts = @ \ stale] = p
  <2>1. [tc.main EXCEPT !.hosts = @ \ stale] = main
    BY <1>2 DEF TcClusters
  <2>. HIDE DEF main, stale, used
  <2>2. tc.used \ tc.main.hosts = used
    BY DEF used
  <2>. QED
    BY <1>1, <2>1, <2>2 DEF TcState, TcWith
<1>7. tcPostMembers(p, none, stale) = q
  BY <1>1 DEF tcPostMembers, TcState, TcWith, TcMembersMsg
<1>8. tc' = IF stale = none THEN p ELSE q
  BY <1>6, <1>7 DEF TcCleanup
<1>9. /\ main.gen = tc.main.gen /\ main.hosts = hosts /\ none \cap stale = {} /\ stale \subseteq tc.main.hosts
      /\ none \subseteq TcComing(tc) /\ (stale = none => main = tc.main)
  BY <1>2 DEF TcClusters
<1>10. main = [gen |-> tc.main.gen, hosts |-> (tc.main.hosts \cup none) \ stale] /\ TcComing(tc) \subseteq TcComing(tc) \ none
  OBVIOUS
<1>. HIDE DEF none, stale, hosts, used, main, queue
<1>11. /\ q \in TcState /\ q.main = main /\ q.fresh = tc.fresh /\ q.queue = queue /\ q.posts = tc.posts
       /\ q.entry = tc.entry /\ q.pools = tc.pools /\ q.streams = tc.streams /\ q.drains = tc.drains
  BY <1>1, <1>2, <1>3, <1>4, TcMainFields
<1>12. /\ p \in TcState /\ p.main = main /\ p.fresh = tc.fresh /\ p.queue = tc.queue /\ p.posts = tc.posts
       /\ p.entry = tc.entry /\ p.pools = tc.pools /\ p.streams = tc.streams /\ p.drains = tc.drains
  BY <1>1, <1>2, <1>3, TcMainFields
<1>. HIDE DEF p, q
<1>13. CASE stale = none
  <2>1. TcComing(p) = TcComing(tc) /\ TcPostsOnce(p)
    BY <1>12 DEF TcComing, TcPostsOnce, TcOK
  <2>2. TcDrained(p) /\ p.entry.hosts \subseteq p.entry.map
    BY <1>12 DEF TcDrained, TcOK
  <2>3. TcOK(p)
    BY <1>9, <1>12, <1>13, <2>1, <2>2, TcKept
  <2>. QED
    BY <1>8, <1>13, <2>3
<1>14. CASE stale # none
  <2>1. TcComing(q) = TcComing(tc) /\ TcPostsOnce(q)
    BY <1>11 DEF TcComing, TcPostsOnce, TcOK
  <2>2. q.queue = Append(tc.queue, TcMembersMsg(q.main.gen, q.main.hosts, none, stale))
    BY <1>9, <1>11 DEF queue
  <2>3. TcOK(q)
    BY <1>3, <1>5, <1>9, <1>10, <1>11, <2>1, <2>2, TcMembersPosted
  <2>. QED
    BY <1>8, <1>14, <2>3
<1>. QED
  BY <1>13, <1>14

----------------------------------------------------------------------------
\* The worker's steps.

TcWorkerWith(p, fresh, used, queue, posts, entry, pools, streams, drains) ==
    [p EXCEPT !.fresh = fresh, !.used = used, !.queue = queue, !.posts = posts, !.entry = entry, !.pools = pools,
              !.streams = streams, !.drains = drains]

LEMMA TcWorkerFields ==
    ASSUME NEW p \in TcState, NEW fresh \in SUBSET TcHosts, NEW used \in SUBSET TcHosts, NEW queue \in TcQueues,
           NEW posts \in TcPostSets, NEW entry \in TcEntries, NEW pools \in TcPoolMap, NEW streams \in TcPoolMap,
           NEW drains \in TcCountMap
    PROVE  LET q == TcWorkerWith(p, fresh, used, queue, posts, entry, pools, streams, drains) IN
           /\ q \in TcState /\ q.original = p.original /\ q.main = p.main /\ q.gens = p.gens /\ q.fresh = fresh
           /\ q.used = used /\ q.queue = queue /\ q.posts = posts /\ q.entry = entry /\ q.pools = pools
           /\ q.streams = streams /\ q.drains = drains /\ q.crashed = p.crashed
BY DEF TcState, TcWorkerWith

\* A host has finitely many pools.
LEMMA TcPoolCount ==
    ASSUME NEW S \in SUBSET TcPriorities
    PROVE  /\ IsFiniteSet(S) /\ Cardinality(S) \in Nat /\ (Cardinality(S) = 0 => S = {})
           /\ \A x \in S : Cardinality(S \ {x}) = Cardinality(S) - 1
<1>1. IsFiniteSet(TcPriorities)
  <2>1. IsFiniteSet({"High"})
    BY FS_Singleton
  <2>2. IsFiniteSet({"High"} \cup {"Default"})
    BY <2>1, FS_AddElement
  <2>3. {"High"} \cup {"Default"} = TcPriorities
    BY DEF TcPriorities
  <2>. QED
    BY <2>2, <2>3
<1>2. IsFiniteSet(S)
  BY <1>1, FS_Subset
<1>. QED
  BY <1>2, FS_CardinalityType, FS_EmptySet, FS_RemoveElement

TcDrainsOf(p, H) == [h \in TcHosts |-> IF h \in H THEN p.drains[h] + Cardinality(p.streams[h]) ELSE p.drains[h]]
TcPoolsOf(p, H) == [h \in TcHosts |-> IF h \in H /\ TcDrainsOf(p, H)[h] = 0 THEN {} ELSE p.pools[h]]

LEMMA TcDrainEq ==
    ASSUME NEW p \in TcState, NEW H \in SUBSET TcHosts
    PROVE  tcDrain(p, H) = [p EXCEPT !.drains = TcDrainsOf(p, H), !.pools = TcPoolsOf(p, H)]
<1>. DEFINE d == [h \in H |-> p.drains[h] + Cardinality(p.streams[h])]
            drains == [h \in TcHosts |-> IF h \in H THEN d[h] ELSE p.drains[h]]
            pools == [h \in TcHosts |-> IF h \in H /\ d[h] = 0 THEN {} ELSE p.pools[h]]
<1>1. tcDrain(p, H) = [p EXCEPT !.drains = drains, !.pools = pools]
  BY DEF tcDrain, TcState
<1>2. drains = TcDrainsOf(p, H)
  BY DEF TcDrainsOf
<1>3. \A h \in TcHosts : (h \in H /\ d[h] = 0) <=> (h \in H /\ TcDrainsOf(p, H)[h] = 0)
  BY DEF TcDrainsOf
<1>. HIDE DEF d
<1>4. pools = TcPoolsOf(p, H)
  BY <1>3 DEF TcPoolsOf
<1>. QED
  BY <1>1, <1>2, <1>4

\* The pools of hosts of the worker's cluster drain.
LEMMA TcDrainKeeps ==
    ASSUME NEW p, TcOK(p), NEW H \in SUBSET TcHosts, H \subseteq p.entry.hosts, NEW map,
           \A h \in H : h \notin map, \A h \in TcHosts : p.drains[h] # 0 => h \notin map
    PROVE  /\ TcDrainsOf(p, H) \in TcCountMap /\ TcPoolsOf(p, H) \in TcPoolMap
           /\ \A h \in TcHosts : TcDrainOne(p.streams, TcPoolsOf(p, H), TcDrainsOf(p, H), map, h)
           /\ \A h \in TcHosts : h \notin p.entry.hosts /\ p.drains[h] = 0 => TcDrainsOf(p, H)[h] = 0
<1>. DEFINE drains == TcDrainsOf(p, H)
            pools == TcPoolsOf(p, H)
<1>1. p.streams \in TcPoolMap /\ p.pools \in TcPoolMap /\ p.drains \in TcCountMap /\ p.entry.hosts \subseteq p.entry.map
  BY TcStateFields DEF TcOK
<1>2. /\ DOMAIN drains = TcHosts /\ DOMAIN pools = TcHosts
      /\ drains = [h \in TcHosts |-> drains[h]] /\ pools = [h \in TcHosts |-> pools[h]]
      /\ \A h \in TcHosts : drains[h] = IF h \in H THEN p.drains[h] + Cardinality(p.streams[h]) ELSE p.drains[h]
      /\ \A h \in TcHosts : pools[h] = IF h \in H /\ drains[h] = 0 THEN {} ELSE p.pools[h]
  BY DEF TcDrainsOf, TcPoolsOf
<1>. HIDE DEF drains, pools
<1>3. ASSUME NEW h \in TcHosts
      PROVE  /\ drains[h] \in Nat /\ pools[h] \in SUBSET TcPriorities
             /\ TcDrainOne(p.streams, pools, drains, map, h)
             /\ h \notin p.entry.hosts /\ p.drains[h] = 0 => drains[h] = 0
  <2>1. /\ p.streams[h] \in SUBSET TcPriorities /\ p.pools[h] \in SUBSET TcPriorities /\ p.drains[h] \in Nat
        /\ p.streams[h] \subseteq p.pools[h] /\ p.drains[h] \in {0, Cardinality(p.streams[h])}
        /\ p.drains[h] # 0 => h \notin p.entry.map
    BY <1>1 DEF TcPoolMap, TcCountMap, TcOK, TcDrained, TcDrainOne
  <2>2. Cardinality(p.streams[h]) \in Nat /\ (Cardinality(p.streams[h]) = 0 => p.streams[h] = {})
    BY <2>1, TcPoolCount
  <2>3. CASE h \in H
    <3>1. p.drains[h] = 0 /\ h \notin map
      BY <1>1, <2>1, <2>3
    <3>2. drains[h] = Cardinality(p.streams[h])
      BY <1>2, <2>2, <2>3, <3>1
    <3>3. pools[h] = IF drains[h] = 0 THEN {} ELSE p.pools[h]
      BY <1>2, <2>3
    <3>4. p.streams[h] \subseteq pools[h] /\ pools[h] \in SUBSET TcPriorities
      BY <2>1, <2>2, <3>2, <3>3
    <3>. QED
      BY <2>2, <2>3, <3>1, <3>2, <3>4 DEF TcDrainOne
  <2>4. CASE h \notin H
    <3>1. drains[h] = p.drains[h] /\ pools[h] = p.pools[h]
      BY <1>2, <2>4
    <3>. QED
      BY <2>1, <3>1 DEF TcDrainOne
  <2>. QED
    BY <2>3, <2>4
<1>4. drains \in TcCountMap /\ pools \in TcPoolMap
  BY <1>2, <1>3 DEF TcCountMap, TcPoolMap
<1>. QED
  BY <1>3, <1>4 DEF drains, pools

\* The first closure is as it should be for the worker's cluster.
LEMMA TcHeadGood ==
    ASSUME NEW p, TcOK(p), p.queue # <<>>
    PROVE  /\ Head(p.queue) \in TcMsgs /\ Tail(p.queue) \in TcQueues
           /\ \E c \in TcClusters : TcGood(TcAt(p.entry), Head(p.queue), c)
           /\ \A h \in Head(p.queue).added : p.drains[h] = 0 /\ h \notin p.entry.hosts
<1>1. p \in TcState
  BY DEF TcOK
<1>2. p.queue \in TcQueues /\ TcComing(p) \subseteq TcHosts
  BY <1>1, TcStateFields, TcComingHosts
<1>3. Head(p.queue) \in TcMsgs /\ Tail(p.queue) \in TcQueues
  BY <1>2 DEF TcQueues
<1>4. TcLinked(p.queue, TcAt(p.entry), p.main, TcComing(p), p.drains) /\ TcAt(p.entry).hosts = p.entry.hosts
  BY DEF TcOK, TcAt
<1>. QED
  BY <1>2, <1>3, <1>4, TcLinkedTail

LEMMA TcRun ==
    ASSUME NEW p, TcOK(p), p.queue # <<>>, NEW q \in TcState, q.main = p.main, q.queue = Tail(p.queue),
           q.fresh = p.fresh, q.posts = p.posts, TcDrained(q), q.entry.hosts \subseteq q.entry.map,
           \A h \in TcHosts : h \notin p.entry.hosts /\ p.drains[h] = 0 => q.drains[h] = 0,
           \A c : TcGood(TcAt(p.entry), Head(p.queue), c) => c = TcAt(q.entry)
    PROVE  TcOK(q)
<1>1. p \in TcState
  BY DEF TcOK
<1>2. p.queue \in TcQueues /\ TcComing(p) \subseteq TcHosts
  BY <1>1, TcStateFields, TcComingHosts
<1>3. TcLinked(p.queue, TcAt(p.entry), p.main, TcComing(p), p.drains) /\ TcAt(p.entry).hosts = p.entry.hosts
  BY DEF TcOK, TcAt
<1>4. TcLinked(Tail(p.queue), TcAt(q.entry), p.main, TcComing(p), q.drains)
  BY <1>2, <1>3, TcLinkedTail
<1>5. TcComing(q) = TcComing(p) /\ TcPostsOnce(q)
  BY DEF TcComing, TcPostsOnce, TcOK
<1>. QED
  BY <1>4, <1>5 DEF TcOK

\* ~ClusterEntry(), and the entry that takes its place.
LEMMA TcDropKeeps ==
    ASSUME NEW p, TcOK(p), p.queue # <<>>, NEW entry \in TcEntries, entry.hosts = {}, entry.map = {},
           \A c : TcGood(TcAt(p.entry), Head(p.queue), c) => c = TcAt(entry)
    PROVE  TcOK([tcDropEntry([p EXCEPT !.queue = Tail(@)]) EXCEPT !.entry = entry])
<1>1. p \in TcState
  BY DEF TcOK
<1>2. /\ p.fresh \in SUBSET TcHosts /\ p.used \in SUBSET TcHosts /\ p.posts \in TcPostSets /\ p.entry \in TcEntries
      /\ p.streams \in TcPoolMap
  BY <1>1, TcStateFields
<1>. DEFINE H == p.entry.hosts
            queue == Tail(p.queue)
            r == [p EXCEPT !.queue = queue]
            drains == TcDrainsOf(p, H)
            pools == TcPoolsOf(p, H)
            q == TcWorkerWith(p, p.fresh, p.used, queue, p.posts, entry, pools, p.streams, drains)
<1>3. queue \in TcQueues
  BY TcHeadGood
<1>4. H \in SUBSET TcHosts
  BY <1>2 DEF TcEntries
<1>5. /\ drains \in TcCountMap /\ pools \in TcPoolMap
      /\ \A h \in TcHosts : TcDrainOne(p.streams, pools, drains, entry.map, h)
      /\ \A h \in TcHosts : h \notin p.entry.hosts /\ p.drains[h] = 0 => drains[h] = 0
  BY <1>4, TcDrainKeeps
<1>. HIDE DEF queue
<1>6. r \in TcState /\ r.entry = p.entry /\ r.drains = p.drains /\ r.streams = p.streams /\ r.pools = p.pools
  BY <1>1, <1>3 DEF TcState
<1>7. TcDrainsOf(r, H) = drains /\ TcPoolsOf(r, H) = pools
  BY <1>6 DEF TcDrainsOf, TcPoolsOf
<1>. HIDE DEF drains, pools, H
<1>8. tcDrain(r, H) = [r EXCEPT !.drains = drains, !.pools = pools]
  BY <1>4, <1>6, <1>7, TcDrainEq
<1>9. tcDropEntry(r) = [[r EXCEPT !.drains = drains, !.pools = pools] EXCEPT !.entry = TcNoEntry]
  BY <1>6, <1>8 DEF tcDropEntry, H
<1>10. [tcDropEntry(r) EXCEPT !.entry = entry] = q
  BY <1>1, <1>9 DEF TcState, TcWorkerWith
<1>11. /\ q \in TcState /\ q.main = p.main /\ q.fresh = p.fresh /\ q.queue = queue /\ q.posts = p.posts
       /\ q.entry = entry /\ q.pools = pools /\ q.streams = p.streams /\ q.drains = drains
  BY <1>1, <1>2, <1>3, <1>5, TcWorkerFields
<1>. HIDE DEF q
<1>12. TcDrained(q)
  BY <1>5, <1>11 DEF TcDrained
<1>13. TcOK(q)
  BY <1>5, <1>11, <1>12, TcRun DEF queue
<1>. QED
  BY <1>10, <1>13 DEF queue, r

LEMMA TcMembersKeeps ==
    ASSUME NEW p, TcOK(p), p.queue # <<>>, Head(p.queue).kind = "members"
    PROVE  TcOK(tcOnMembers([p EXCEPT !.queue = Tail(@)], Head(p.queue)))
<1>1. p \in TcState
  BY DEF TcOK
<1>2. /\ p.fresh \in SUBSET TcHosts /\ p.used \in SUBSET TcHosts /\ p.posts \in TcPostSets /\ p.entry \in TcEntries
      /\ p.streams \in TcPoolMap
  BY <1>1, TcStateFields
<1>. DEFINE m == Head(p.queue)
            H == m.removed
            queue == Tail(p.queue)
            map == (p.entry.map \ m.removed) \cup m.added
            entry == [gen |-> p.entry.gen, hosts |-> m.hosts, parent |-> p.entry.parent, map |-> map]
            r == [p EXCEPT !.queue = queue]
            s == [r EXCEPT !.entry = entry]
            drains == TcDrainsOf(p, H)
            pools == TcPoolsOf(p, H)
            q == TcWorkerWith(p, p.fresh, p.used, queue, p.posts, entry, pools, p.streams, drains)
<1>3. /\ queue \in TcQueues /\ m \in TcMsgs /\ m.kind = "members" /\ \E c \in TcClusters : TcGood(TcAt(p.entry), m, c)
      /\ \A h \in m.added : p.drains[h] = 0 /\ h \notin p.entry.hosts
  BY TcHeadGood
<1>. HIDE DEF m, queue
<1>4. H \in SUBSET TcHosts /\ m.added \in SUBSET TcHosts /\ m.hosts \in SUBSET TcHosts
  BY <1>3 DEF TcMsgs
<1>5. entry \in TcEntries
  BY <1>2, <1>4 DEF TcEntries
<1>6. /\ \A c : TcGood(TcAt(p.entry), m, c) => c = [gen |-> p.entry.gen, hosts |-> m.hosts]
      /\ m.hosts = (p.entry.hosts \cup m.added) \ m.removed /\ m.added \cap m.removed = {} /\ m.removed \subseteq p.entry.hosts
  <2>1. TcAt(p.entry).gen = p.entry.gen /\ TcAt(p.entry).hosts = p.entry.hosts
    BY DEF TcAt
  <2>. QED
    BY <1>3, <2>1 DEF TcGood
<1>7. \A c : TcGood(TcAt(p.entry), m, c) => c = TcAt(entry)
  BY <1>6 DEF TcAt
<1>8. entry.hosts \subseteq entry.map
  BY <1>6 DEF TcOK
<1>9. entry.map = map
  OBVIOUS
<1>10. \A h \in TcHosts : p.drains[h] # 0 => h \notin map
  BY <1>3 DEF TcOK, TcDrained, TcDrainOne
<1>11. \A h \in H : h \notin map
  BY <1>6
<1>. HIDE DEF map
<1>12. /\ drains \in TcCountMap /\ pools \in TcPoolMap
       /\ \A h \in TcHosts : TcDrainOne(p.streams, pools, drains, map, h)
       /\ \A h \in TcHosts : h \notin p.entry.hosts /\ p.drains[h] = 0 => drains[h] = 0
  BY <1>4, <1>6, <1>10, <1>11, TcDrainKeeps
<1>. HIDE DEF entry
<1>13. s \in TcState /\ s.drains = p.drains /\ s.streams = p.streams /\ s.pools = p.pools
  BY <1>1, <1>3, <1>5 DEF TcState
<1>14. TcDrainsOf(s, H) = drains /\ TcPoolsOf(s, H) = pools
  BY <1>13 DEF TcDrainsOf, TcPoolsOf
<1>15. r.entry = p.entry
  BY <1>1, <1>3 DEF TcState
<1>. HIDE DEF drains, pools
<1>16. tcOnMembers(r, m) = tcDrain(s, H)
  <2>. HIDE DEF r
  <2>. QED
    BY <1>15 DEF tcOnMembers, entry, map
<1>17. tcDrain(s, H) = q
  <2>1. tcDrain(s, H) = [s EXCEPT !.drains = drains, !.pools = pools]
    BY <1>4, <1>13, <1>14, TcDrainEq
  <2>. HIDE DEF H
  <2>. QED
    BY <1>1, <2>1 DEF TcState, TcWorkerWith
<1>18. /\ q \in TcState /\ q.main = p.main /\ q.fresh = p.fresh /\ q.queue = queue /\ q.posts = p.posts
       /\ q.entry = entry /\ q.pools = pools /\ q.streams = p.streams /\ q.drains = drains
  BY <1>1, <1>2, <1>3, <1>5, <1>12, TcWorkerFields
<1>. HIDE DEF q
<1>19. TcDrained(q)
  BY <1>9, <1>12, <1>18 DEF TcDrained
<1>20. TcOK(q)
  BY <1>7, <1>8, <1>12, <1>18, <1>19, TcRun DEF queue, m
<1>. QED
  BY <1>16, <1>17, <1>20 DEF r, queue, m

LEMMA TcHandleKeeps ==
    ASSUME TcOK(tc), TcHandle
    PROVE  tc'.crashed \/ TcOK(tc')
<1>1. tc \in TcState
  BY DEF TcOK
<1>2. tc.main \in TcClusters /\ tc.main.gen \in Nat
  BY <1>1, TcStateFields DEF TcClusters
<1>. DEFINE m == Head(tc.queue)
            p == [tc EXCEPT !.queue = Tail(@)]
<1>3. /\ tc.queue # <<>> /\ m \in TcMsgs /\ \E c \in TcClusters : TcGood(TcAt(tc.entry), m, c)
  BY TcHeadGood DEF TcHandle
<1>4. m.kind \in {"add", "remove", "members"} /\ m.gen \in Nat
  BY <1>3 DEF TcMsgs
<1>5. CASE m.kind = "add"
  <2>1. tc' = tcOnAdd(p, m)
    BY <1>5 DEF TcHandle
  <2>2. p \in [original : BOOLEAN, main : TcClusters, gens : Nat, fresh : SUBSET TcHosts, used : SUBSET TcHosts,
               queue : {Tail(tc.queue)}, posts : TcPostSets, entry : TcEntries, pools : TcPoolMap, streams : TcPoolMap,
               drains : TcCountMap, crashed : BOOLEAN] /\ p.main = tc.main
    BY <1>1 DEF TcState
  <2>3. CASE p.original /\ p.main.gen = 0
    <3>1. tc' = [p EXCEPT !.crashed = TRUE]
      BY <2>1, <2>3 DEF tcOnAdd
    <3>. QED
      BY <2>2, <3>1
  <2>4. CASE ~(p.original /\ p.main.gen = 0)
    <3>. DEFINE none == {}
                entry == [gen |-> m.gen, hosts |-> none, map |-> none, parent |-> tc.main.gen]
    <3>1. tc' = [tcDropEntry(p) EXCEPT !.entry = entry]
      BY <2>1, <2>2, <2>4 DEF tcOnAdd
    <3>2. entry \in TcEntries /\ entry.hosts = {} /\ entry.map = {}
      BY <1>2, <1>4 DEF TcEntries
    <3>3. \A c : TcGood(TcAt(tc.entry), m, c) => c = TcAt(entry)
      <4>. HIDE DEF m
      <4>. QED
        BY <1>5 DEF TcGood, TcAt
    <3>. HIDE DEF entry
    <3>. QED
      BY <1>3, <3>1, <3>2, <3>3, TcDropKeeps
  <2>. QED
    BY <2>3, <2>4
<1>6. CASE m.kind = "remove"
  <2>1. tc' = tcDropEntry(p)
    BY <1>6 DEF TcHandle, tcOnRemove
  <2>2. tc' = [tc' EXCEPT !.entry = TcNoEntry]
    <3>. DEFINE r == tcDrain(p, p.entry.hosts)
    <3>1. tc' = [r EXCEPT !.entry = TcNoEntry]
      BY <2>1 DEF tcDropEntry
    <3>. HIDE DEF r
    <3>. QED
      BY <3>1
  <2>3. TcNoEntry \in TcEntries /\ TcNoEntry.hosts = {} /\ TcNoEntry.map = {}
    BY DEF TcEntries, TcNoEntry
  <2>4. \A c : TcGood(TcAt(tc.entry), m, c) => c = TcAt(TcNoEntry)
    <3>. HIDE DEF m
    <3>. QED
      BY <1>6 DEF TcGood, TcAt, TcNoEntry, TcNoCluster
  <2>5. TcOK([tcDropEntry(p) EXCEPT !.entry = TcNoEntry])
    BY <1>3, <2>3, <2>4, TcDropKeeps
  <2>. QED
    BY <2>1, <2>2, <2>5
<1>7. CASE m.kind = "members"
  <2>1. tc' = tcOnMembers(p, m)
    BY <1>7 DEF TcHandle
  <2>. QED
    BY <1>3, <1>7, <2>1, TcMembersKeeps
<1>. QED
  BY <1>4, <1>5, <1>6, <1>7

\* connPool(): a host the load balancer has does not drain.
LEMMA TcUseKeeps ==
    ASSUME TcOK(tc), NEW h \in TcHosts, NEW priority \in TcPriorities, NEW fresh \in SUBSET TcHosts,
           NEW used \in SUBSET TcHosts, NEW posts \in TcPostSets, NEW map \in SUBSET TcHosts, tc.entry.map \subseteq map,
           tc.drains[h] = 0, \A g \in map : tc.drains[g] = 0, NEW q,
           q = TcWorkerWith(tc, fresh, used, tc.queue, posts, [tc.entry EXCEPT !.map = map],
                            [tc.pools EXCEPT ![h] = @ \cup {priority}], [tc.streams EXCEPT ![h] = @ \cup {priority}],
                            tc.drains),
           TcPostsOnce([fresh |-> fresh, posts |-> posts]),
           TcComing([fresh |-> fresh, posts |-> posts]) \subseteq TcComing(tc)
    PROVE  TcOK(q)
<1>1. tc \in TcState
  BY DEF TcOK
<1>2. /\ tc.queue \in TcQueues /\ tc.entry \in TcEntries /\ tc.streams \in TcPoolMap /\ tc.pools \in TcPoolMap
      /\ tc.drains \in TcCountMap
  BY <1>1, TcStateFields
<1>. DEFINE entry == [tc.entry EXCEPT !.map = map]
            pools == [tc.pools EXCEPT ![h] = @ \cup {priority}]
            streams == [tc.streams EXCEPT ![h] = @ \cup {priority}]
<1>3. entry \in TcEntries /\ entry.map = map /\ TcAt(entry) = TcAt(tc.entry) /\ entry.hosts = tc.entry.hosts
  BY <1>2 DEF TcEntries, TcAt
<1>4. pools \in TcPoolMap /\ streams \in TcPoolMap
  BY <1>2 DEF TcPoolMap
<1>5. \A g \in TcHosts : g # h => pools[g] = tc.pools[g] /\ streams[g] = tc.streams[g]
  BY <1>2 DEF TcPoolMap
<1>6. pools[h] = tc.pools[h] \cup {priority} /\ streams[h] = tc.streams[h] \cup {priority}
  BY <1>2 DEF TcPoolMap
<1>. HIDE DEF entry, pools, streams
<1>7. /\ q \in TcState /\ q.main = tc.main /\ q.fresh = fresh /\ q.queue = tc.queue /\ q.posts = posts
      /\ q.entry = entry /\ q.pools = pools /\ q.streams = streams /\ q.drains = tc.drains
  BY <1>1, <1>2, <1>3, <1>4, TcWorkerFields DEF entry, pools, streams
<1>8. TcPostsOnce(q) /\ TcComing(q) \subseteq TcComing(tc)
  BY <1>7 DEF TcPostsOnce, TcComing
<1>9. ASSUME NEW g \in TcHosts PROVE TcDrainOne(streams, pools, tc.drains, map, g)
  <2>1. TcDrainOne(tc.streams, tc.pools, tc.drains, tc.entry.map, g)
    BY DEF TcOK, TcDrained
  <2>. QED
    BY <1>5, <1>6, <2>1 DEF TcDrainOne
<1>10. TcDrained(q)
  BY <1>3, <1>7, <1>9 DEF TcDrained
<1>11. q.entry.hosts \subseteq q.entry.map
  BY <1>3, <1>7 DEF TcOK
<1>. QED
  BY <1>3, <1>7, <1>8, <1>10, <1>11, TcKept

LEMMA TcRequestKeeps ==
    ASSUME TcOK(tc), NEW h \in TcHosts, NEW priority \in TcPriorities, TcRequest(h, priority)
    PROVE  TcOK(tc')
<1>1. tc \in TcState
  BY DEF TcOK
<1>2. /\ tc.fresh \in SUBSET TcHosts /\ tc.used \in SUBSET TcHosts /\ tc.posts \in TcPostSets /\ tc.entry \in TcEntries
      /\ tc.streams \in TcPoolMap /\ tc.pools \in TcPoolMap
  BY <1>1, TcStateFields
<1>. DEFINE used == IF tc.original THEN tc.used \cup {h} ELSE tc.used
            pools == [tc.pools EXCEPT ![h] = @ \cup {priority}]
            streams == [tc.streams EXCEPT ![h] = @ \cup {priority}]
            entry == [tc.entry EXCEPT !.map = tc.entry.map]
            q == TcWorkerWith(tc, tc.fresh, used, tc.queue, tc.posts, entry, pools, streams, tc.drains)
<1>3. h \in tc.entry.map /\ \A g \in TcHosts : g \in tc.entry.map => tc.drains[g] = 0
  BY DEF TcRequest, TcOK, TcDrained, TcDrainOne
<1>4. used \in SUBSET TcHosts /\ tc.entry.map \in SUBSET TcHosts /\ entry = tc.entry
  BY <1>2 DEF TcEntries
<1>5. tc' = [[tc EXCEPT !.used = used] EXCEPT !.pools[h] = @ \cup {priority}, !.streams[h] = @ \cup {priority}]
  BY <1>1 DEF TcRequest, tcUsePool, TcState
<1>6. tc' = q
  <2>. HIDE DEF used, entry
  <2>. QED
    BY <1>1, <1>4, <1>5 DEF TcState, TcWorkerWith
<1>7. /\ TcPostsOnce([fresh |-> tc.fresh, posts |-> tc.posts])
      /\ TcComing([fresh |-> tc.fresh, posts |-> tc.posts]) \subseteq TcComing(tc)
  BY DEF TcPostsOnce, TcComing, TcOK
<1>8. /\ tc.entry.map \subseteq tc.entry.map /\ tc.drains[h] = 0 /\ \A g \in tc.entry.map : tc.drains[g] = 0
  BY <1>3, <1>4
<1>. HIDE DEF used
<1>. QED
  BY <1>2, <1>4, <1>6, <1>7, <1>8, TcUseKeeps

LEMMA TcRequestNewHostKeeps ==
    ASSUME TcOK(tc), NEW h \in TcHosts, NEW priority \in TcPriorities, TcRequestNewHost(h, priority)
    PROVE  TcOK(tc')
<1>1. tc \in TcState
  BY DEF TcOK
<1>2. /\ tc.fresh \in SUBSET TcHosts /\ tc.used \in SUBSET TcHosts /\ tc.posts \in TcPostSets /\ tc.entry \in TcEntries
      /\ tc.streams \in TcPoolMap /\ tc.pools \in TcPoolMap /\ tc.main \in TcClusters /\ tc.queue \in TcQueues
  BY <1>1, TcStateFields
<1>. DEFINE fresh == tc.fresh \ {h}
            used == tc.used \cup {h}
            map == tc.entry.map \cup {h}
            posts == IF tc.entry.parent = tc.main.gen THEN tc.posts \cup {<<h, tc.main.gen>>} ELSE tc.posts
            pools == [tc.pools EXCEPT ![h] = @ \cup {priority}]
            streams == [tc.streams EXCEPT ![h] = @ \cup {priority}]
            entry == [tc.entry EXCEPT !.map = map]
            q == TcWorkerWith(tc, fresh, used, tc.queue, posts, entry, pools, streams, tc.drains)
<1>3. h \in tc.fresh
  BY DEF TcRequestNewHost
<1>4. tc.main.gen \in Nat
  BY <1>2 DEF TcClusters
<1>5. fresh \in SUBSET TcHosts /\ used \in SUBSET TcHosts /\ map \in SUBSET TcHosts /\ posts \in TcPostSets
  BY <1>2, <1>4 DEF TcEntries, TcPostSets
<1>6. tc.drains[h] = 0
  <2>1. PICK e : TcAhead(tc.queue, e, TcComing(tc), tc.drains)
    BY DEF TcLinked, TcOK
  <2>. QED
    BY <1>3, <2>1 DEF TcAhead, TcComing
<1>7. \A g \in map : tc.drains[g] = 0
  BY <1>5, <1>6 DEF TcOK, TcDrained, TcDrainOne
<1>8. \A x \in posts : x \in tc.posts \/ (x[1] = h /\ x = <<h, tc.main.gen>>)
  <2>. DEFINE t == <<h, tc.main.gen>>
  <2>1. posts \subseteq tc.posts \cup {t} /\ t[1] = h
    OBVIOUS
  <2>. HIDE DEF posts, t
  <2>2. ASSUME NEW x \in posts PROVE x \in tc.posts \/ (x[1] = h /\ x = t)
    <3>1. x \in tc.posts \/ x = t
      BY <2>1
    <3>2. x = t => x[1] = t[1]
      BY Zenon
    <3>. QED
      BY <2>1, <3>1, <3>2
  <2>. QED
    BY <2>2 DEF t
<1>9. TcPostsOnce([fresh |-> fresh, posts |-> posts])
  <2>1. TcPostsOnce(tc)
    BY DEF TcOK
  <2>2. \A x \in tc.posts : x[1] \notin fresh /\ x[1] # h
    BY <1>3, <2>1 DEF TcPostsOnce
  <2>3. h \notin fresh
    OBVIOUS
  <2>4. \A x, y \in tc.posts : x[1] = y[1] => x = y
    BY <2>1 DEF TcPostsOnce
  <2>. HIDE DEF fresh, posts
  <2>. QED
    BY <1>8, <2>2, <2>3, <2>4 DEF TcPostsOnce
<1>10. TcComing([fresh |-> fresh, posts |-> posts]) \subseteq TcComing(tc)
  <2>1. fresh \subseteq tc.fresh
    OBVIOUS
  <2>. HIDE DEF fresh, posts
  <2>. QED
    BY <1>3, <1>8, <2>1 DEF TcComing
<1>11. tc' = [[tc EXCEPT !.fresh = fresh, !.used = used, !.entry = entry, !.posts = posts]
                 EXCEPT !.pools[h] = @ \cup {priority}, !.streams[h] = @ \cup {priority}]
  <2>1. [tc EXCEPT !.fresh = @ \ {h}, !.used = @ \cup {h}, !.entry.map = @ \cup {h},
                   !.posts = IF tc.entry.parent = tc.main.gen THEN @ \cup {<<h, tc.main.gen>>} ELSE @]
           = [tc EXCEPT !.fresh = fresh, !.used = used, !.entry = entry, !.posts = posts]
    <3>1. [tc.entry EXCEPT !.map = @ \cup {h}] = entry
      BY <1>2 DEF TcEntries
    <3>. HIDE DEF entry
    <3>. QED
      BY <1>1, <3>1 DEF TcState
  <2>. HIDE DEF fresh, used, entry, posts
  <2>. QED
    BY <2>1 DEF TcRequestNewHost, tcUsePool
<1>12. tc' = q
  <2>. HIDE DEF fresh, used, entry, posts
  <2>. QED
    BY <1>1, <1>11 DEF TcState, TcWorkerWith
<1>13. tc.entry.map \subseteq map
  OBVIOUS
<1>. HIDE DEF fresh, used, posts, map
<1>. QED
  BY <1>5, <1>6, <1>7, <1>9, <1>10, <1>12, <1>13, TcUseKeeps

LEMMA TcIdleKeeps ==
    ASSUME TcOK(tc), NEW h \in TcHosts, NEW priority \in TcPriorities, TcIdle(h, priority)
    PROVE  TcOK(tc')
<1>1. tc \in TcState
  BY DEF TcOK
<1>2. /\ tc.fresh \in SUBSET TcHosts /\ tc.used \in SUBSET TcHosts /\ tc.posts \in TcPostSets /\ tc.entry \in TcEntries
      /\ tc.streams \in TcPoolMap /\ tc.pools \in TcPoolMap /\ tc.queue \in TcQueues /\ tc.drains \in TcCountMap
  BY <1>1, TcStateFields
<1>. DEFINE n == tc.drains[h]
            left == n - 1
            streams == [tc.streams EXCEPT ![h] = @ \ {priority}]
            drains == IF n = 0 THEN tc.drains ELSE [tc.drains EXCEPT ![h] = left]
            pools == IF n = 0 THEN tc.pools ELSE [tc.pools EXCEPT ![h] = IF left = 0 THEN {} ELSE @]
            q == TcWorkerWith(tc, tc.fresh, tc.used, tc.queue, tc.posts, tc.entry, pools, streams, drains)
<1>3. tc' = q
  <2>1. CASE n = 0
    BY <1>1, <2>1 DEF TcIdle, TcState, TcWorkerWith
  <2>2. CASE n # 0
    <3>1. tc' = [[tc EXCEPT !.streams[h] = @ \ {priority}] EXCEPT !.drains[h] = left, !.pools[h] = IF left = 0 THEN {} ELSE @]
      BY <2>2 DEF TcIdle
    <3>. HIDE DEF left
    <3>. QED
      BY <1>1, <2>2, <3>1 DEF TcState, TcWorkerWith
  <2>. QED
    BY <2>1, <2>2
<1>4. /\ tc.streams[h] \in SUBSET TcPriorities /\ tc.pools[h] \in SUBSET TcPriorities /\ n \in Nat
      /\ tc.streams[h] \subseteq tc.pools[h] /\ n \in {0, Cardinality(tc.streams[h])} /\ priority \in tc.streams[h]
      /\ n # 0 => h \notin tc.entry.map
  BY <1>2 DEF TcPoolMap, TcCountMap, TcOK, TcDrained, TcDrainOne, TcIdle
<1>5. /\ streams[h] = tc.streams[h] \ {priority} /\ \A g \in TcHosts : g # h => streams[g] = tc.streams[g]
      /\ streams \in TcPoolMap
  BY <1>2 DEF TcPoolMap
<1>6. /\ drains[h] = (IF n = 0 THEN 0 ELSE left) /\ \A g \in TcHosts : g # h => drains[g] = tc.drains[g]
      /\ drains \in TcCountMap
  BY <1>2, <1>4 DEF TcCountMap
<1>7. /\ pools[h] = (IF n = 0 \/ left # 0 THEN tc.pools[h] ELSE {}) /\ \A g \in TcHosts : g # h => pools[g] = tc.pools[g]
      /\ pools \in TcPoolMap
  BY <1>2, <1>4 DEF TcPoolMap
<1>8. /\ Cardinality(streams[h]) = Cardinality(tc.streams[h]) - 1 /\ Cardinality(tc.streams[h]) \in Nat
      /\ streams[h] \in SUBSET TcPriorities /\ (Cardinality(streams[h]) = 0 => streams[h] = {})
  <2>1. streams[h] \in SUBSET TcPriorities
    BY <1>4, <1>5
  <2>2. Cardinality(streams[h]) = 0 => streams[h] = {}
    BY <2>1, TcPoolCount
  <2>. QED
    BY <1>4, <1>5, <2>1, <2>2, TcPoolCount
<1>. HIDE DEF streams, drains, pools
<1>9. TcDrainOne(streams, pools, drains, tc.entry.map, h)
  <2>1. CASE n = 0
    <3>1. pools[h] = tc.pools[h] /\ drains[h] = 0
      BY <1>6, <1>7, <2>1
    <3>. QED
      BY <1>4, <1>5, <3>1 DEF TcDrainOne
  <2>2. CASE n # 0
    <3>1. drains[h] = Cardinality(streams[h])
      BY <1>4, <1>6, <1>8, <2>2
    <3>2. streams[h] \subseteq pools[h]
      BY <1>4, <1>5, <1>6, <1>7, <1>8, <2>2, <3>1
    <3>. QED
      BY <1>4, <2>2, <3>1, <3>2 DEF TcDrainOne
  <2>. QED
    BY <2>1, <2>2
<1>10. /\ q \in TcState /\ q.main = tc.main /\ q.fresh = tc.fresh /\ q.queue = tc.queue /\ q.posts = tc.posts
       /\ q.entry = tc.entry /\ q.pools = pools /\ q.streams = streams /\ q.drains = drains
  BY <1>1, <1>2, <1>5, <1>6, <1>7, TcWorkerFields
<1>. HIDE DEF q
<1>11. TcDrained(q)
  <2>1. ASSUME NEW g \in TcHosts, g # h PROVE TcDrainOne(streams, pools, drains, tc.entry.map, g)
    BY <1>5, <1>6, <1>7, <2>1 DEF TcDrainOne, TcOK, TcDrained
  <2>. QED
    BY <1>9, <1>10, <2>1 DEF TcDrained
<1>12. \A g \in TcHosts : tc.drains[g] = 0 => q.drains[g] = 0
  BY <1>6, <1>10
<1>13. TcPostsOnce(q) /\ TcComing(q) \subseteq TcComing(tc) /\ q.entry.hosts \subseteq q.entry.map
  BY <1>10 DEF TcPostsOnce, TcComing, TcOK
<1>14. TcOK(q)
  BY <1>10, <1>11, <1>12, <1>13, TcKept
<1>. QED
  BY <1>3, <1>14

----------------------------------------------------------------------------
LEMMA TcInitOK ==
    ASSUME TcInit
    PROVE  TcOK(tc)
<1>1. PICK original \in BOOLEAN :
         tc = [original |-> original, main |-> TcNoCluster, gens |-> 0, fresh |-> TcHosts, used |-> {}, queue |-> <<>>,
               posts |-> {}, entry |-> TcNoEntry, pools |-> [h \in TcHosts |-> {}], streams |-> [h \in TcHosts |-> {}],
               drains |-> [h \in TcHosts |-> 0], crashed |-> FALSE]
  BY DEF TcInit
<1>. DEFINE none == {}
            pools == [h \in TcHosts |-> none]
            drains == [h \in TcHosts |-> 0]
            empty == <<>>
            zero == 0
            no == FALSE
<1>2. /\ TcNoCluster \in TcClusters /\ TcNoEntry \in TcEntries /\ none \in SUBSET TcHosts /\ none \in TcPostSets
      /\ pools \in TcPoolMap /\ drains \in TcCountMap /\ empty \in TcQueues /\ zero \in Nat /\ no \in BOOLEAN
  BY DEF TcNoCluster, TcNoEntry, TcClusters, TcEntries, TcPostSets, TcPoolMap, TcCountMap, TcQueues
<1>3. tc = [original |-> original, main |-> TcNoCluster, gens |-> zero, fresh |-> TcHosts, used |-> none, queue |-> empty,
            posts |-> none, entry |-> TcNoEntry, pools |-> pools, streams |-> pools, drains |-> drains, crashed |-> no]
  BY <1>1
<1>. HIDE DEF none, pools, drains, empty, zero, no
<1>4. tc \in TcState
  BY <1>2, <1>3 DEF TcState
<1>5. /\ tc.main = TcNoCluster /\ tc.fresh = TcHosts /\ tc.queue = empty /\ tc.posts = none /\ tc.entry = TcNoEntry
      /\ tc.pools = pools /\ tc.streams = pools /\ tc.drains = drains
  BY <1>3
<1>6. TcNoEntry.hosts = {} /\ TcNoEntry.map = {} /\ TcNoCluster.hosts = {} /\ TcAt(TcNoEntry) = TcNoCluster
  BY DEF TcNoEntry, TcNoCluster, TcAt
<1>7. \A h \in TcHosts : drains[h] = 0 /\ pools[h] = {}
  BY DEF drains, pools, none
<1>8. TcDrained(tc)
  BY <1>5, <1>7 DEF TcDrained, TcDrainOne
<1>9. TcPostsOnce(tc) /\ TcComing(tc) = TcHosts
  BY <1>5 DEF TcPostsOnce, TcComing, none
<1>10. TcLinked(empty, TcNoCluster, TcNoCluster, TcHosts, drains)
  <2>. DEFINE e == [i \in 0..0 |-> TcNoCluster]
  <2>1. Len(empty) = 0 /\ 1..Len(empty) = {} /\ 0..Len(empty) = 0..0 /\ e[0] = TcNoCluster
    BY DEF empty
  <2>2. e \in [0..0 -> TcClusters] /\ \A i \in 0..0 : e[i] = TcNoCluster
    BY <1>2
  <2>. HIDE DEF e
  <2>3. TcChain(empty, TcNoCluster, TcNoCluster, e)
    BY <2>1, <2>2 DEF TcChain
  <2>4. TcAhead(empty, e, TcHosts, drains)
    BY <1>6, <1>7, <2>1, <2>2 DEF TcAhead
  <2>. QED
    BY <2>3, <2>4 DEF TcLinked
<1>. QED
  BY <1>4, <1>5, <1>6, <1>8, <1>9, <1>10 DEF TcOK

LEMMA TcStep ==
    ASSUME TcInv, [TcNext]_tc
    PROVE  TcInv'
<1>1. CASE UNCHANGED tc
  BY <1>1 DEF TcInv, TcOK, TcDrained, TcPostsOnce, TcLinked, TcComing, TcAt
<1>2. CASE TcNext
  <2>1. ~tc.crashed
    BY <1>2 DEF TcNext, TcAddOrUpdate, TcUpdateHosts, TcRemove, TcCleanup, TcHandle, TcAddHostOfOther,
                TcAddHostOfWorker, TcRequest, TcRequestNewHost, TcIdle, TcMayPost
  <2>2. TcOK(tc)
    BY <2>1 DEF TcInv
  <2>3. tc'.crashed \/ TcOK(tc')
    BY <1>2, <2>2, TcAddOrUpdateKeeps, TcUpdateHostsKeeps, TcRemoveKeeps, TcCleanupKeeps, TcHandleKeeps,
       TcAddHostOfOtherKeeps, TcAddHostOfWorkerKeeps, TcRequestKeeps, TcRequestNewHostKeeps, TcIdleKeeps DEF TcNext
  <2>. QED
    BY <2>3 DEF TcInv
<1>. QED
  BY <1>1, <1>2

\* Two sequences of clusters that start alike and go on alike are the same.
LEMMA TcSameReplay ==
    ASSUME NEW N \in Nat, NEW q, NEW e, NEW w, e[0] = w[0],
           \A i \in 1..N : e[i] = tcReplay(e[i - 1], q[i]), \A i \in 1..N : w[i] = tcReplay(w[i - 1], q[i])
    PROVE  e[N] = w[N]
<1>. DEFINE T == {i \in 0..N : e[i] # w[i]}
<1>1. SUFFICES ASSUME N \in T PROVE FALSE
  OBVIOUS
<1>2. PICK m \in T : \A n \in T : m <= n
  <2>1. T \subseteq Nat /\ T # {}
    BY <1>1
  <2>. HIDE DEF T
  <2>. QED
    BY <2>1, NatLeast
<1>3. m \in 0..N /\ e[m] # w[m] /\ m # 0
  BY <1>2
<1>4. m \in 1..N /\ m - 1 \in 0..N /\ m - 1 < m
  BY <1>3
<1>5. e[m - 1] = w[m - 1]
  BY <1>2, <1>4
<1>. QED
  BY <1>3, <1>4, <1>5

\* A closure that is as it should be does what the chain says.
LEMMA TcGoodReplay ==
    ASSUME NEW a \in TcClusters, NEW m, NEW b, TcGood(a, m, b)
    PROVE  b = tcReplay(a, m)
<1>1. CASE m.kind = "add"
  <2>1. b = [gen |-> m.gen, hosts |-> {}]
    BY <1>1 DEF TcGood
  <2>2. tcReplay(a, m) = [gen |-> m.gen, hosts |-> {}]
    BY <1>1 DEF tcReplay
  <2>. QED
    BY <2>1, <2>2
<1>2. CASE m.kind = "remove"
  BY <1>2 DEF TcGood, tcReplay
<1>3. CASE m.kind = "members"
  <2>1. a.gen # 0 /\ a.gen = m.gen /\ b = [gen |-> a.gen, hosts |-> m.hosts]
    BY <1>3 DEF TcGood
  <2>2. [a EXCEPT !.hosts = m.hosts] = [gen |-> a.gen, hosts |-> m.hosts]
    BY DEF TcClusters
  <2>3. tcReplay(a, m) = [a EXCEPT !.hosts = m.hosts]
    BY <1>3, <2>1 DEF tcReplay
  <2>. QED
    BY <2>1, <2>2, <2>3
<1>. QED
  BY <1>1, <1>2, <1>3 DEF TcGood

LEMMA TcReplayedIsMain ==
    ASSUME TcOK(tc)
    PROVE  TcReplayed = tc.main
<1>. DEFINE q == tc.queue
            N == Len(q)
            a == [gen |-> tc.entry.gen, hosts |-> tc.entry.hosts]
            W(w) == w = [i \in 0..N |-> IF i = 0 THEN a ELSE tcReplay(w[i - 1], q[i])]
            w0 == CHOOSE w : W(w)
<1>1. tc \in TcState
  BY DEF TcOK
<1>2. q \in TcQueues
  BY <1>1, TcStateFields
<1>3. N \in Nat
  BY <1>2 DEF TcQueues
<1>4. PICK e : TcChain(q, a, tc.main, e)
  BY DEF TcOK, TcLinked, TcAt
<1>5. /\ e \in [0..N -> TcClusters] /\ e[0] = a /\ e[N] = tc.main
      /\ \A i \in 1..N : TcGood(e[i - 1], q[i], e[i])
  BY <1>4 DEF TcChain
<1>6. \A i \in 1..N : e[i] = tcReplay(e[i - 1], q[i])
  <2>. HIDE DEF N, q
  <2>1. \A i \in 1..N : i - 1 \in 0..N
    BY <1>3
  <2>2. \A i \in 1..N : e[i - 1] \in TcClusters
    BY <1>5, <2>1
  <2>. QED
    BY <1>5, <2>2, TcGoodReplay
<1>7. W(e)
  <2>1. \A i \in 0..N : e[i] = IF i = 0 THEN a ELSE tcReplay(e[i - 1], q[i])
    BY <1>3, <1>5, <1>6
  <2>2. e = [i \in 0..N |-> e[i]]
    BY <1>5
  <2>. QED
    BY <2>1, <2>2
<1>8. W(w0)
  BY <1>7
<1>9. TcReplayed = w0[N]
  BY DEF TcReplayed
<1>. HIDE DEF w0
<1>10. w0[0] = a /\ \A i \in 1..N : w0[i] = tcReplay(w0[i - 1], q[i])
  BY <1>3, <1>8
<1>. HIDE DEF q, N, a
<1>11. e[N] = w0[N]
  <2>1. e[0] = w0[0]
    BY <1>5, <1>10
  <2>. QED
    BY <1>3, <1>6, <1>10, <2>1, TcSameReplay
<1>. QED
  BY <1>5, <1>9, <1>11

\* Whatever the main thread does to the cluster and its hosts, and however requests, the
\* worker's own hosts and drains interleave with it: the closures that are posted lead the
\* worker from the cluster it has to the one the main thread has, and each finds the entry and
\* the incarnation it is for; no pool with streams is deleted, drains_remaining_ counts the
\* pools of a host that still have some.
THEOREM TcSoundHolds == TcSpec => []TcSound
<1>1. TcInit => TcInv
  BY TcInitOK DEF TcInv
<1>2. TcInv /\ [TcNext]_tc => TcInv'
  BY TcStep
<1>3. TcInv => TcSound
  <2>. SUFFICES ASSUME TcOK(tc) PROVE TcSound
    BY DEF TcInv, TcSound
  <2>1. TcReplayed = tc.main
    BY TcReplayedIsMain
  <2>2. ASSUME NEW h \in TcHosts
        PROVE  /\ tc.streams[h] \subseteq tc.pools[h] /\ tc.drains[h] \in {0, Cardinality(tc.streams[h])}
               /\ tc.drains[h] > 0 => h \notin tc.entry.hosts
    <3>1. tc.drains \in TcCountMap /\ tc.entry.hosts \subseteq tc.entry.map
      BY TcStateFields DEF TcOK
    <3>2. tc.drains[h] \in Nat
      BY <3>1 DEF TcCountMap
    <3>3. TcDrainOne(tc.streams, tc.pools, tc.drains, tc.entry.map, h)
      BY DEF TcOK, TcDrained
    <3>. QED
      BY <3>1, <3>2, <3>3 DEF TcDrainOne
  <2>3. tc.entry.hosts \subseteq tc.entry.map
    BY DEF TcOK
  <2>. QED
    BY <2>1, <2>2, <2>3 DEF TcSound
<1>. QED
  BY <1>1, <1>2, <1>3, PTL DEF TcSpec

----------------------------------------------------------------------------
(***************************************************************************)
(* The listener manager.  LmSound is not inductive: that every listener a  *)
(* post or an answer refers to still exists rests on the order in which    *)
(* the workers and the main thread run them.                               *)
(*   - LmQueued: what a worker is sent about a listener comes in the order *)
(*     add, stop, remove, and when its draining has ended nothing follows  *)
(*     the removal;                                                        *)
(*   - LmTabled: a worker that has a listener will not be given it again,  *)
(*     and has still to be told to remove it;                              *)
(*   - LmAnswered: that it could not listen is said before that it has     *)
(*     removed the listener, so that the last answer really is the last;   *)
(*   - LmReplaced: the listener that replaces another is added before the  *)
(*     other is stopped;                                                   *)
(*   - LmCounted: workers_pending_removal_ is the number of workers that   *)
(*     have still to be heard.                                             *)
(***************************************************************************)

\* Lists in which order matters: what is in them, and what comes after it.

LmIn(x, q) == \E i \in DOMAIN q : q[i] = x

\* Nothing is in it twice.
LmOnce(q) == \A i, j \in DOMAIN q : q[i] = q[j] => i = j

\* Wherever a is, b comes later.
LmThen(q, a, b) == \A i \in DOMAIN q : q[i] = a => \E j \in DOMAIN q : i < j /\ q[j] = b

LmPostOf(op, l) == [op |-> op, l |-> l]
LmAnswerOf(what, l, w) == [what |-> what, l |-> l, w |-> w]

LmOps == {"add", "stop", "remove"}
LmPosts == [op : LmOps, l : LmTags]
LmWhats == {"failed", "removed"}
LmAnswers == [what : LmWhats, l : LmTags, w : LmWorkers]
LmTagMap == [LmTags -> Nat]
LmNameMap == [LmTags -> LmNames \cup {""}]
LmQueues == [LmWorkers -> Seq(LmPosts)]
LmTables == [LmWorkers -> [LmTags -> {"none", "listening", "stopped"}]]
LmState ==
    [started : BOOLEAN, next : Nat \ {0}, active : SUBSET LmTags, warming : SUBSET LmTags, draining : SUBSET LmTags,
     name : LmNameMap, socket : LmTagMap, waits : SUBSET LmTags, by : LmTagMap, ticks : LmTagMap, left : LmTagMap,
     failed : SUBSET LmTags, queue : LmQueues, main : Seq(LmAnswers), on : LmTables, threw : BOOLEAN]

LmLive(p) == p.active \cup p.draining

\* A listener is in one list, and has been numbered.
LmListed(p) ==
    /\ p.active \cap p.warming = {} /\ p.draining \cap (p.active \cup p.warming) = {}
    /\ p.next <= LmMaxListeners + 1
    /\ \A l \in LmLive(p) \cup p.warming : l < p.next
    /\ \A l \in LmTags : p.ticks[l] <= LmDrainTime /\ (l \notin p.draining => p.ticks[l] = 0)
    /\ ~p.started => p.warming = {}

LmHas(p, w, op, l) == LmIn(LmPostOf(op, l), p.queue[w])
LmOrder(p, w, a, l, b, k) == LmThen(p.queue[w], LmPostOf(a, l), LmPostOf(b, k))
LmTold(p, what, l, w) == LmIn(LmAnswerOf(what, l, w), p.main)
LmToldLast(p, l, w) == LmThen(p.main, LmAnswerOf("failed", l, w), LmAnswerOf("removed", l, w))

\* What is posted to worker w about l is about a listener there is, in the order add, stop,
\* remove; and when its draining has ended, all of it comes before the removal.
LmQueued(p, w, l) ==
    /\ LmHas(p, w, "add", l) => p.started /\ l \in LmLive(p)
    /\ LmHas(p, w, "stop", l) => l \in p.draining
    /\ LmHas(p, w, "remove", l) => l \in p.draining /\ p.ticks[l] = LmDrainTime
    /\ l \in p.draining => LmOrder(p, w, "add", l, "stop", l)
    /\ l \in p.draining /\ p.ticks[l] = LmDrainTime =>
          LmOrder(p, w, "add", l, "remove", l) /\ LmOrder(p, w, "stop", l, "remove", l)

\* What worker w has of l.
LmTabled(p, w, l) ==
    /\ p.on[w][l] # "none" => p.started /\ l \in LmLive(p) /\ ~LmHas(p, w, "add", l)
    /\ p.on[w][l] = "stopped" => l \in p.draining /\ ~LmHas(p, w, "stop", l)
    /\ p.on[w][l] # "none" /\ l \in p.draining /\ p.ticks[l] = LmDrainTime => LmHas(p, w, "remove", l)

\* What it answered.
LmAnswered(p, w, l) ==
    /\ LmTold(p, "failed", l, w) => p.started /\ l \in LmLive(p) /\ ~LmHas(p, w, "add", l)
    /\ LmTold(p, "removed", l, w) =>
          p.started /\ l \in p.draining /\ p.ticks[l] = LmDrainTime /\ ~LmHas(p, w, "remove", l)
    /\ l \in p.draining /\ p.ticks[l] = LmDrainTime /\ ~LmHas(p, w, "remove", l) => LmToldLast(p, l, w)

\* The listener that replaced l is added before l is stopped.
LmReplaced(p, l) ==
    p.by[l] # 0 => /\ p.started /\ l \in p.draining /\ p.by[l] < p.next /\ p.by[l] \notin p.warming
                   /\ \A w \in LmWorkers : LmOrder(p, w, "add", p.by[l], "stop", l)

LmBase(p) ==
    /\ p \in LmState /\ LmListed(p) /\ LmOnce(p.main)
    /\ \A w \in LmWorkers : LmOnce(p.queue[w])
    /\ \A w \in LmWorkers, l \in LmTags : LmQueued(p, w, l) /\ LmTabled(p, w, l) /\ LmAnswered(p, w, l)
    /\ \A l \in LmTags : LmReplaced(p, l)

\* The workers from which the main thread has not yet heard that l is removed.
LmPending(p, l) ==
    {w \in LmWorkers : LmHas(p, w, "remove", l) \/ LmTold(p, "removed", l, w)}

LmCounted(p) ==
    \A l \in p.draining : p.left[l] = Cardinality(IF p.ticks[l] = LmDrainTime THEN LmPending(p, l) ELSE LmWorkers)

LmUnique(p, list) == \A l, o \in list : p.name[l] = p.name[o] => l = o

LmShared(p) == \A l, o \in LmLive(p) \cup p.warming : p.socket[l] = p.socket[o]

LmOK(p) == LmBase(p) /\ LmCounted(p) /\ LmUnique(p, p.active) /\ LmUnique(p, p.warming) /\ LmShared(p)

LmInv == LmOK(lm)

LEMMA LmAppended ==
    ASSUME NEW S, NEW q \in Seq(S), NEW x \in S
    PROVE  /\ Append(q, x) \in Seq(S)
           /\ \A y : LmIn(y, Append(q, x)) <=> LmIn(y, q) \/ y = x
           /\ LmOnce(q) /\ ~LmIn(x, q) => LmOnce(Append(q, x))
           /\ \A a : a # x => LmThen(Append(q, x), a, x)
           /\ \A a, b : a # x /\ LmThen(q, a, b) => LmThen(Append(q, x), a, b)
<1>. DEFINE n == Len(q)
            r == Append(q, x)
<1>1. /\ n \in Nat /\ DOMAIN q = 1..n /\ r \in Seq(S) /\ Len(r) = n + 1
      /\ r[n + 1] = x /\ \A i \in 1..n : r[i] = q[i]
  OBVIOUS
<1>2. DOMAIN r = 1..(n + 1)
  BY <1>1
<1>. HIDE DEF n, r
<1>3. \A y : LmIn(y, r) <=> LmIn(y, q) \/ y = x
  <2>. TAKE y
  <2>1. LmIn(y, r) <=> \E i \in 1..(n + 1) : r[i] = y
    BY <1>2 DEF LmIn
  <2>2. LmIn(y, q) <=> \E i \in 1..n : q[i] = y
    BY <1>1 DEF LmIn
  <2>3. \A i \in 1..(n + 1) : i \in 1..n \/ i = n + 1
    BY <1>1
  <2>4. 1..n \subseteq 1..(n + 1) /\ n + 1 \in 1..(n + 1)
    BY <1>1
  <2>. QED
    BY <1>1, <2>1, <2>2, <2>3, <2>4
<1>4. LmOnce(q) /\ ~LmIn(x, q) => LmOnce(r)
  BY <1>1, <1>2 DEF LmOnce, LmIn
<1>5. \A a : a # x => LmThen(r, a, x)
  BY <1>1, <1>2 DEF LmThen
<1>6. \A a, b : a # x /\ LmThen(q, a, b) => LmThen(r, a, b)
  <2>. SUFFICES ASSUME NEW a, NEW b, a # x, LmThen(q, a, b) PROVE LmThen(r, a, b)
    OBVIOUS
  <2>. SUFFICES ASSUME NEW i \in 1..(n + 1), r[i] = a PROVE \E j \in 1..(n + 1) : i < j /\ r[j] = b
    BY <1>2 DEF LmThen
  <2>1. i \in 1..n /\ q[i] = a
    BY <1>1
  <2>2. PICK j \in 1..n : i < j /\ q[j] = b
    BY <1>1, <2>1 DEF LmThen
  <2>. QED
    BY <1>1, <2>2
<1>. QED
  BY <1>1, <1>3, <1>4, <1>5, <1>6 DEF r

LEMMA LmTaken ==
    ASSUME NEW S, NEW q \in Seq(S), q # <<>>, LmOnce(q)
    PROVE  /\ Tail(q) \in Seq(S) /\ Head(q) \in S /\ LmIn(Head(q), q)
           /\ \A y : LmIn(y, Tail(q)) <=> LmIn(y, q) /\ y # Head(q)
           /\ LmOnce(Tail(q))
           /\ \A a, b : LmThen(q, a, b) => LmThen(Tail(q), a, b)
           /\ \A a, b : LmThen(q, a, b) /\ b = Head(q) => ~LmIn(a, q)
<1>. DEFINE n == Len(q)
            h == Head(q)
            r == Tail(q)
<1>1. /\ n \in Nat /\ n >= 1 /\ DOMAIN q = 1..n /\ r \in Seq(S) /\ Len(r) = n - 1 /\ h \in S /\ h = q[1]
      /\ \A i \in 1..(n - 1) : r[i] = q[i + 1]
  OBVIOUS
<1>2. DOMAIN r = 1..(n - 1)
  BY <1>1
<1>. HIDE DEF n, h, r
<1>3. \A i, j \in 1..n : q[i] = q[j] => i = j
  BY <1>1 DEF LmOnce
<1>4. LmIn(h, q)
  BY <1>1 DEF LmIn
<1>5. ASSUME NEW y PROVE LmIn(y, r) <=> LmIn(y, q) /\ y # h
  <2>1. LmIn(y, r) => LmIn(y, q) /\ y # h
    <3>. SUFFICES ASSUME NEW i \in 1..(n - 1), r[i] = y PROVE LmIn(y, q) /\ y # h
      BY <1>2 DEF LmIn
    <3>1. i + 1 \in 1..n /\ q[i + 1] = y /\ i + 1 # 1 /\ 1 \in 1..n
      BY <1>1
    <3>. QED
      BY <1>1, <1>3, <3>1 DEF LmIn
  <2>2. ASSUME LmIn(y, q), y # h PROVE LmIn(y, r)
    <3>1. PICK i \in 1..n : q[i] = y
      BY <1>1, <2>2 DEF LmIn
    <3>2. i - 1 \in 1..(n - 1) /\ r[i - 1] = y
      BY <1>1, <2>2, <3>1
    <3>. QED
      BY <1>2, <3>2 DEF LmIn
  <2>. QED
    BY <2>1, <2>2
<1>6. LmOnce(r)
  <2>. SUFFICES ASSUME NEW i \in 1..(n - 1), NEW j \in 1..(n - 1), r[i] = r[j] PROVE i = j
    BY <1>2 DEF LmOnce
  <2>1. i + 1 \in 1..n /\ j + 1 \in 1..n /\ q[i + 1] = q[j + 1]
    BY <1>1
  <2>. QED
    BY <1>3, <2>1
<1>7. ASSUME NEW a, NEW b, LmThen(q, a, b) PROVE LmThen(r, a, b)
  <2>. SUFFICES ASSUME NEW i \in 1..(n - 1), r[i] = a PROVE \E j \in 1..(n - 1) : i < j /\ r[j] = b
    BY <1>2 DEF LmThen
  <2>1. i + 1 \in 1..n /\ q[i + 1] = a
    BY <1>1
  <2>2. PICK j \in 1..n : i + 1 < j /\ q[j] = b
    BY <1>1, <1>7, <2>1 DEF LmThen
  <2>3. j - 1 \in 1..(n - 1) /\ i < j - 1 /\ r[j - 1] = b
    BY <1>1, <2>2
  <2>. QED
    BY <2>3
<1>8. ASSUME NEW a, NEW b, LmThen(q, a, b), b = h PROVE ~LmIn(a, q)
  <2>. SUFFICES ASSUME NEW i \in 1..n, q[i] = a PROVE FALSE
    BY <1>1 DEF LmIn
  <2>1. PICK j \in 1..n : i < j /\ q[j] = b
    BY <1>1, <1>8 DEF LmThen
  <2>2. j = 1
    BY <1>1, <1>3, <1>8, <2>1
  <2>. QED
    BY <1>1, <2>1, <2>2
<1>. QED
  BY <1>1, <1>4, <1>5, <1>6, <1>7, <1>8 DEF h, r

LEMMA LmLater ==
    ASSUME NEW q, NEW a, NEW b
    PROVE  /\ LmThen(q, a, b) /\ LmIn(a, q) => LmIn(b, q)
           /\ ~LmIn(a, q) => LmThen(q, a, b)
BY DEF LmThen, LmIn

LEMMA LmJoined ==
    ASSUME NEW S, NEW q \in Seq(S), NEW t \in Seq(S)
    PROVE  /\ q \o t \in Seq(S)
           /\ \A y : LmIn(y, q \o t) <=> LmIn(y, q) \/ LmIn(y, t)
           /\ LmOnce(q) /\ LmOnce(t) /\ (\A y : ~(LmIn(y, q) /\ LmIn(y, t))) => LmOnce(q \o t)
           /\ \A a, b : LmThen(q, a, b) /\ ~LmIn(a, t) => LmThen(q \o t, a, b)
<1>. DEFINE n == Len(q)
            m == Len(t)
            r == q \o t
<1>1. /\ n \in Nat /\ m \in Nat /\ DOMAIN q = 1..n /\ DOMAIN t = 1..m /\ r \in Seq(S) /\ Len(r) = n + m
      /\ \A i \in 1..(n + m) : r[i] = IF i <= n THEN q[i] ELSE t[i - n]
  OBVIOUS
<1>2. DOMAIN r = 1..(n + m)
  BY <1>1
<1>. HIDE DEF n, m, r
<1>3. /\ \A i \in 1..n : i \in 1..(n + m) /\ r[i] = q[i]
      /\ \A i \in 1..m : n + i \in 1..(n + m) /\ r[n + i] = t[i]
      /\ \A i \in 1..(n + m) : i \in 1..n \/ (i > n /\ i - n \in 1..m /\ r[i] = t[i - n])
  BY <1>1
<1>4. ASSUME NEW y PROVE LmIn(y, r) <=> LmIn(y, q) \/ LmIn(y, t)
  <2>1. ASSUME LmIn(y, r) PROVE LmIn(y, q) \/ LmIn(y, t)
    <3>1. PICK i \in 1..(n + m) : r[i] = y
      BY <1>2, <2>1 DEF LmIn
    <3>. QED
      BY <1>1, <1>3, <3>1 DEF LmIn
  <2>2. ASSUME LmIn(y, q) PROVE LmIn(y, r)
    BY <1>1, <1>2, <1>3, <2>2 DEF LmIn
  <2>3. ASSUME LmIn(y, t) PROVE LmIn(y, r)
    <3>1. PICK i \in 1..m : t[i] = y
      BY <1>1, <2>3 DEF LmIn
    <3>. QED
      BY <1>2, <1>3, <3>1 DEF LmIn
  <2>. QED
    BY <2>1, <2>2, <2>3
<1>5. ASSUME LmOnce(q), LmOnce(t), \A y : ~(LmIn(y, q) /\ LmIn(y, t)) PROVE LmOnce(r)
  <2>. SUFFICES ASSUME NEW i \in 1..(n + m), NEW j \in 1..(n + m), r[i] = r[j] PROVE i = j
    BY <1>2 DEF LmOnce
  <2>1. CASE i \in 1..n /\ j \in 1..n
    BY <1>1, <1>3, <1>5, <2>1 DEF LmOnce
  <2>2. CASE i > n /\ j > n
    <3>1. i - n \in 1..m /\ j - n \in 1..m /\ t[i - n] = t[j - n]
      BY <1>1, <1>3, <2>2
    <3>2. i - n = j - n
      BY <1>1, <1>5, <3>1 DEF LmOnce
    <3>. QED
      BY <1>1, <3>2
  <2>3. CASE i \in 1..n /\ j > n
    <3>1. q[i] = r[i] /\ j - n \in 1..m /\ t[j - n] = r[i]
      BY <1>1, <1>3, <2>3
    <3>2. LmIn(r[i], q) /\ LmIn(r[i], t)
      BY <1>1, <2>3, <3>1 DEF LmIn
    <3>. QED
      BY <1>5, <3>2
  <2>4. CASE i > n /\ j \in 1..n
    <3>1. q[j] = r[j] /\ i - n \in 1..m /\ t[i - n] = r[j]
      BY <1>1, <1>3, <2>4
    <3>2. LmIn(r[j], q) /\ LmIn(r[j], t)
      BY <1>1, <2>4, <3>1 DEF LmIn
    <3>. QED
      BY <1>5, <3>2
  <2>. QED
    BY <1>1, <2>1, <2>2, <2>3, <2>4
<1>6. ASSUME NEW a, NEW b, LmThen(q, a, b), ~LmIn(a, t) PROVE LmThen(r, a, b)
  <2>. SUFFICES ASSUME NEW i \in 1..(n + m), r[i] = a PROVE \E j \in 1..(n + m) : i < j /\ r[j] = b
    BY <1>2 DEF LmThen
  <2>1. i \in 1..n /\ q[i] = a
    BY <1>1, <1>3, <1>6 DEF LmIn
  <2>2. PICK j \in 1..n : i < j /\ q[j] = b
    BY <1>1, <1>6, <2>1 DEF LmThen
  <2>. QED
    BY <1>3, <2>2
<1>. QED
  BY <1>1, <1>4, <1>5, <1>6 DEF r

LEMMA LmEmpty ==
    /\ \A y : ~LmIn(y, <<>>)
    /\ LmOnce(<<>>)
BY DEF LmIn, LmOnce

LEMMA LmPostsDiffer ==
    ASSUME NEW op \in LmOps, NEW l \in LmTags
    PROVE  /\ LmPostOf(op, l) \in LmPosts
           /\ LmPostOf(op, l).op = op /\ LmPostOf(op, l).l = l
           /\ \A op2, l2 : LmPostOf(op, l) = LmPostOf(op2, l2) <=> op = op2 /\ l = l2
BY DEF LmPostOf, LmPosts

LEMMA LmPostIs ==
    ASSUME NEW m \in LmPosts
    PROVE  m.op \in LmOps /\ m.l \in LmTags /\ m = LmPostOf(m.op, m.l)
BY DEF LmPostOf, LmPosts

LEMMA LmAnswersDiffer ==
    ASSUME NEW what \in LmWhats, NEW l \in LmTags, NEW w \in LmWorkers
    PROVE  /\ LmAnswerOf(what, l, w) \in LmAnswers
           /\ LmAnswerOf(what, l, w).what = what /\ LmAnswerOf(what, l, w).l = l /\ LmAnswerOf(what, l, w).w = w
           /\ \A what2, l2, w2 : LmAnswerOf(what, l, w) = LmAnswerOf(what2, l2, w2) <=> what = what2 /\ l = l2 /\ w = w2
BY DEF LmAnswerOf, LmAnswers

LEMMA LmAnswerIs ==
    ASSUME NEW m \in LmAnswers
    PROVE  /\ m.what \in LmWhats /\ m.l \in LmTags /\ m.w \in LmWorkers
           /\ m = LmAnswerOf(m.what, m.l, m.w)
BY DEF LmAnswerOf, LmAnswers

LEMMA LmTypes ==
    ASSUME NEW p \in LmState
    PROVE  /\ p.started \in BOOLEAN /\ p.next \in Nat \ {0} /\ p.active \subseteq LmTags /\ p.warming \subseteq LmTags
           /\ p.draining \subseteq LmTags /\ p.name \in LmNameMap /\ p.socket \in LmTagMap /\ p.waits \subseteq LmTags
           /\ p.by \in LmTagMap /\ p.ticks \in LmTagMap /\ p.left \in LmTagMap /\ p.failed \subseteq LmTags
           /\ p.queue \in LmQueues /\ p.main \in Seq(LmAnswers) /\ p.on \in LmTables /\ p.threw \in BOOLEAN
           /\ \A w \in LmWorkers : p.queue[w] \in Seq(LmPosts)
           /\ \A w \in LmWorkers : p.on[w] \in [LmTags -> {"none", "listening", "stopped"}]
           /\ \A w \in LmWorkers, l \in LmTags : p.on[w][l] \in {"none", "listening", "stopped"}
           /\ \A l \in LmTags : p.by[l] \in Nat /\ p.ticks[l] \in Nat /\ p.left[l] \in Nat /\ p.socket[l] \in Nat
<1>1. /\ p.started \in BOOLEAN /\ p.next \in Nat \ {0} /\ p.active \subseteq LmTags /\ p.warming \subseteq LmTags
      /\ p.draining \subseteq LmTags /\ p.name \in LmNameMap /\ p.socket \in LmTagMap /\ p.waits \subseteq LmTags
      /\ p.by \in LmTagMap /\ p.ticks \in LmTagMap /\ p.left \in LmTagMap /\ p.failed \subseteq LmTags
      /\ p.queue \in LmQueues /\ p.main \in Seq(LmAnswers) /\ p.on \in LmTables /\ p.threw \in BOOLEAN
  BY DEF LmState
<1>2. \A w \in LmWorkers : p.queue[w] \in Seq(LmPosts)
  BY <1>1 DEF LmQueues
<1>3. \A w \in LmWorkers : p.on[w] \in [LmTags -> {"none", "listening", "stopped"}]
  BY <1>1 DEF LmTables
<1>4. \A w \in LmWorkers, l \in LmTags : p.on[w][l] \in {"none", "listening", "stopped"}
  BY <1>3
<1>5. \A l \in LmTags : p.by[l] \in Nat /\ p.ticks[l] \in Nat /\ p.left[l] \in Nat /\ p.socket[l] \in Nat
  BY <1>1 DEF LmTagMap
<1>. QED
  BY <1>1, <1>2, <1>3, <1>4, <1>5

\* The fields of which LmBase speaks, but for the lists of posts and listeners.
LmSameRest(p, q) ==
    q.started = p.started /\ q.next = p.next /\ q.by = p.by /\ q.main = p.main /\ q.on = p.on

LEMMA LmBaseSame ==
    ASSUME NEW p, LmBase(p), NEW q \in LmState, LmSameRest(p, q), q.active = p.active, q.warming = p.warming,
           q.draining = p.draining, q.ticks = p.ticks, q.queue = p.queue
    PROVE  LmBase(q)
<1>1. LmLive(q) = LmLive(p)
  BY DEF LmLive
<1>2. LmListed(q)
  BY <1>1 DEF LmBase, LmListed, LmSameRest
<1>3. /\ \A w, op, l : LmHas(q, w, op, l) <=> LmHas(p, w, op, l)
      /\ \A w, a, l, b, k : LmOrder(q, w, a, l, b, k) <=> LmOrder(p, w, a, l, b, k)
      /\ \A what, l, w : LmTold(q, what, l, w) <=> LmTold(p, what, l, w)
      /\ \A l, w : LmToldLast(q, l, w) <=> LmToldLast(p, l, w)
  BY DEF LmHas, LmOrder, LmTold, LmToldLast, LmSameRest
<1>4. \A w \in LmWorkers, l \in LmTags : LmQueued(q, w, l) /\ LmTabled(q, w, l) /\ LmAnswered(q, w, l)
  BY <1>1, <1>3 DEF LmBase, LmQueued, LmTabled, LmAnswered, LmSameRest
<1>5. \A l \in LmTags : LmReplaced(q, l)
  BY <1>3 DEF LmBase, LmReplaced, LmSameRest
<1>. QED
  BY <1>2, <1>4, <1>5 DEF LmBase, LmSameRest

\* A post to every worker.
LmPostedTo(p, op, l) == [w \in LmWorkers |-> Append(p.queue[w], LmPostOf(op, l))]

LEMMA LmPosted ==
    ASSUME NEW p, LmBase(p), NEW op \in LmOps, NEW l \in LmTags, NEW q, q.queue = LmPostedTo(p, op, l),
           \A w \in LmWorkers : ~LmHas(p, w, op, l)
    PROVE  /\ q.queue \in LmQueues
           /\ \A w \in LmWorkers : LmOnce(q.queue[w])
           /\ \A w \in LmWorkers : \A op2, l2 : LmHas(q, w, op2, l2) <=> LmHas(p, w, op2, l2) \/ (op2 = op /\ l2 = l)
           /\ \A w \in LmWorkers : \A op2, l2 : ~(op2 = op /\ l2 = l) => LmOrder(q, w, op2, l2, op, l)
           /\ \A w \in LmWorkers : \A a, k, b, m : ~(a = op /\ k = l) /\ LmOrder(p, w, a, k, b, m) => LmOrder(q, w, a, k, b, m)
<1>. DEFINE x == LmPostOf(op, l)
<1>1. x \in LmPosts /\ \A op2, l2 : x = LmPostOf(op2, l2) <=> op = op2 /\ l = l2
  BY LmPostsDiffer
<1>2. \A w \in LmWorkers : p.queue[w] \in Seq(LmPosts) /\ LmOnce(p.queue[w]) /\ ~LmIn(x, p.queue[w])
  BY LmTypes DEF LmBase, LmHas
<1>3. \A w \in LmWorkers : q.queue[w] = Append(p.queue[w], x)
  BY DEF LmPostedTo
<1>. HIDE DEF x
<1>4. ASSUME NEW w \in LmWorkers
      PROVE  /\ q.queue[w] \in Seq(LmPosts) /\ LmOnce(q.queue[w])
             /\ \A y : LmIn(y, q.queue[w]) <=> LmIn(y, p.queue[w]) \/ y = x
             /\ \A a : a # x => LmThen(q.queue[w], a, x)
             /\ \A a, b : a # x /\ LmThen(p.queue[w], a, b) => LmThen(q.queue[w], a, b)
  <2>. DEFINE r == p.queue[w]
              t == Append(r, x)
  <2>1. r \in Seq(LmPosts) /\ LmOnce(r) /\ ~LmIn(x, r)
    BY <1>2
  <2>2. q.queue[w] = t
    BY <1>3
  <2>. HIDE DEF r
  <2>3. /\ t \in Seq(LmPosts) /\ LmOnce(t) /\ \A y : LmIn(y, t) <=> LmIn(y, r) \/ y = x
        /\ \A a : a # x => LmThen(t, a, x)
        /\ \A a, b : a # x /\ LmThen(r, a, b) => LmThen(t, a, b)
    BY <1>1, <2>1, LmAppended
  <2>. HIDE DEF t
  <2>. QED
    BY <2>2, <2>3 DEF r
<1>5. q.queue \in LmQueues
  BY <1>2, <1>4 DEF LmQueues, LmPostedTo
<1>6. \A w \in LmWorkers : \A op2, l2 : LmHas(q, w, op2, l2) <=> LmHas(p, w, op2, l2) \/ (op2 = op /\ l2 = l)
  BY <1>1, <1>4 DEF LmHas
<1>7. \A w \in LmWorkers : \A op2, l2 : ~(op2 = op /\ l2 = l) => LmOrder(q, w, op2, l2, op, l)
  BY <1>1, <1>4 DEF LmOrder, x
<1>8. \A w \in LmWorkers : \A a, k, b, m : ~(a = op /\ k = l) /\ LmOrder(p, w, a, k, b, m) => LmOrder(q, w, a, k, b, m)
  BY <1>1, <1>4 DEF LmOrder
<1>. QED
  BY <1>4, <1>5, <1>6, <1>7, <1>8

\* A listener that has warmed is posted and becomes active.
LEMMA LmAddBase ==
    ASSUME NEW p, LmBase(p), NEW q \in LmState, NEW l \in p.warming, LmSameRest(p, q),
           q.active = p.active \cup {l}, q.warming = p.warming \ {l}, q.draining = p.draining, q.ticks = p.ticks,
           q.queue = LmPostedTo(p, "add", l)
    PROVE  LmBase(q)
<1>1. /\ p \in LmState /\ l \in LmTags /\ LmListed(p) /\ p.started /\ l \notin LmLive(p) /\ l \notin p.draining
      /\ LmLive(q) = LmLive(p) \cup {l}
  BY LmTypes DEF LmBase, LmListed, LmLive
<1>2. LmListed(q)
  BY <1>1 DEF LmListed, LmSameRest
<1>3. \A w \in LmWorkers : ~LmHas(p, w, "add", l)
  BY <1>1 DEF LmBase, LmQueued
<1>4. /\ \A w \in LmWorkers : LmOnce(q.queue[w])
      /\ \A w \in LmWorkers : \A op2, l2 : LmHas(q, w, op2, l2) <=> LmHas(p, w, op2, l2) \/ (op2 = "add" /\ l2 = l)
      /\ \A w \in LmWorkers : \A a, k, b, m : ~(a = "add" /\ k = l) /\ LmOrder(p, w, a, k, b, m) => LmOrder(q, w, a, k, b, m)
  BY <1>1, <1>3, LmPosted DEF LmOps
<1>5. /\ \A what, k, w : LmTold(q, what, k, w) <=> LmTold(p, what, k, w)
      /\ \A k, w : LmToldLast(q, k, w) <=> LmToldLast(p, k, w)
  BY DEF LmTold, LmToldLast, LmSameRest
<1>6. ASSUME NEW w \in LmWorkers, NEW k \in LmTags
      PROVE  LmQueued(q, w, k) /\ LmTabled(q, w, k) /\ LmAnswered(q, w, k)
  <2>1. LmQueued(p, w, k) /\ LmTabled(p, w, k) /\ LmAnswered(p, w, k)
    BY DEF LmBase
  <2>2. LmQueued(q, w, k)
    BY <1>1, <1>4, <2>1 DEF LmQueued, LmSameRest
  <2>3. LmTabled(q, w, k)
    BY <1>1, <1>4, <2>1 DEF LmTabled, LmSameRest
  <2>4. LmAnswered(q, w, k)
    BY <1>1, <1>4, <1>5, <2>1 DEF LmAnswered, LmSameRest
  <2>. QED
    BY <2>2, <2>3, <2>4
<1>7. ASSUME NEW k \in LmTags PROVE LmReplaced(q, k)
  BY <1>4 DEF LmBase, LmReplaced, LmSameRest
<1>. QED
  BY <1>2, <1>4, <1>6, <1>7 DEF LmBase, LmSameRest

\* An active listener begins to drain: it is to be stopped.
LEMMA LmStopBase ==
    ASSUME NEW p, LmBase(p), NEW q \in LmState, NEW l \in p.active, LmSameRest(p, q),
           q.active = p.active \ {l}, q.warming = p.warming, q.draining = p.draining \cup {l}, q.ticks = p.ticks,
           q.queue = LmPostedTo(p, "stop", l)
    PROVE  LmBase(q)
<1>1. /\ p \in LmState /\ l \in LmTags /\ LmListed(p) /\ l \in LmLive(p) /\ l \notin p.draining /\ l \notin p.warming
      /\ LmLive(q) = LmLive(p) /\ p.ticks[l] = 0 /\ LmDrainTime # 0
  BY LmTypes, LmAssumption DEF LmBase, LmListed, LmLive
<1>2. LmListed(q)
  BY <1>1 DEF LmListed, LmSameRest
<1>3. \A w \in LmWorkers : ~LmHas(p, w, "stop", l)
  BY <1>1 DEF LmBase, LmQueued
<1>4. /\ \A w \in LmWorkers : LmOnce(q.queue[w])
      /\ \A w \in LmWorkers : \A op2, l2 : LmHas(q, w, op2, l2) <=> LmHas(p, w, op2, l2) \/ (op2 = "stop" /\ l2 = l)
      /\ \A w \in LmWorkers : \A op2, l2 : ~(op2 = "stop" /\ l2 = l) => LmOrder(q, w, op2, l2, "stop", l)
      /\ \A w \in LmWorkers : \A a, k, b, m : ~(a = "stop" /\ k = l) /\ LmOrder(p, w, a, k, b, m) => LmOrder(q, w, a, k, b, m)
  BY <1>1, <1>3, LmPosted DEF LmOps
<1>5. /\ \A what, k, w : LmTold(q, what, k, w) <=> LmTold(p, what, k, w)
      /\ \A k, w : LmToldLast(q, k, w) <=> LmToldLast(p, k, w)
  BY DEF LmTold, LmToldLast, LmSameRest
<1>6. ASSUME NEW w \in LmWorkers, NEW k \in LmTags
      PROVE  LmQueued(q, w, k) /\ LmTabled(q, w, k) /\ LmAnswered(q, w, k)
  <2>1. LmQueued(p, w, k) /\ LmTabled(p, w, k) /\ LmAnswered(p, w, k)
    BY DEF LmBase
  <2>2. LmQueued(q, w, k)
    BY <1>1, <1>4, <2>1 DEF LmQueued, LmSameRest
  <2>3. LmTabled(q, w, k)
    BY <1>1, <1>4, <2>1 DEF LmTabled, LmSameRest
  <2>4. LmAnswered(q, w, k)
    BY <1>1, <1>4, <1>5, <2>1 DEF LmAnswered, LmSameRest
  <2>. QED
    BY <2>2, <2>3, <2>4
<1>7. ASSUME NEW k \in LmTags PROVE LmReplaced(q, k)
  BY <1>4 DEF LmBase, LmReplaced, LmSameRest
<1>. QED
  BY <1>2, <1>4, <1>6, <1>7 DEF LmBase, LmSameRest

\* A tick that does not end the draining.
LEMMA LmTickBase ==
    ASSUME NEW p, LmBase(p), NEW q \in LmState, NEW l \in p.draining, LmSameRest(p, q),
           q.active = p.active, q.warming = p.warming, q.draining = p.draining, q.queue = p.queue,
           p.ticks[l] + 1 < LmDrainTime, q.ticks[l] = p.ticks[l] + 1, \A k \in LmTags \ {l} : q.ticks[k] = p.ticks[k]
    PROVE  LmBase(q)
<1>1. /\ p \in LmState /\ l \in LmTags /\ LmListed(p) /\ LmLive(q) = LmLive(p) /\ p.ticks[l] \in Nat
      /\ p.ticks[l] # LmDrainTime /\ q.ticks[l] # LmDrainTime /\ q.ticks[l] <= LmDrainTime /\ LmDrainTime \in Nat
  BY LmTypes, LmAssumption DEF LmBase, LmListed, LmLive
<1>2. LmListed(q)
  BY <1>1 DEF LmListed, LmSameRest
<1>3. \A k \in LmTags : q.ticks[k] = LmDrainTime <=> p.ticks[k] = LmDrainTime
  BY <1>1
<1>4. /\ \A w, op, k : LmHas(q, w, op, k) <=> LmHas(p, w, op, k)
      /\ \A w, a, k, b, m : LmOrder(q, w, a, k, b, m) <=> LmOrder(p, w, a, k, b, m)
      /\ \A what, k, w : LmTold(q, what, k, w) <=> LmTold(p, what, k, w)
      /\ \A k, w : LmToldLast(q, k, w) <=> LmToldLast(p, k, w)
  BY DEF LmHas, LmOrder, LmTold, LmToldLast, LmSameRest
<1>5. \A w \in LmWorkers, k \in LmTags : LmQueued(q, w, k) /\ LmTabled(q, w, k) /\ LmAnswered(q, w, k)
  BY <1>1, <1>3, <1>4 DEF LmBase, LmQueued, LmTabled, LmAnswered, LmSameRest
<1>6. \A k \in LmTags : LmReplaced(q, k)
  BY <1>4 DEF LmBase, LmReplaced, LmSameRest
<1>. QED
  BY <1>2, <1>5, <1>6 DEF LmBase, LmSameRest

\* The last tick: it is to be removed.
LEMMA LmRemoveBase ==
    ASSUME NEW p, LmBase(p), NEW q \in LmState, NEW l \in p.draining, LmSameRest(p, q),
           q.active = p.active, q.warming = p.warming, q.draining = p.draining, q.queue = LmPostedTo(p, "remove", l),
           p.ticks[l] # LmDrainTime, q.ticks[l] = LmDrainTime, \A k \in LmTags \ {l} : q.ticks[k] = p.ticks[k]
    PROVE  LmBase(q) /\ \A w \in LmWorkers : LmHas(q, w, "remove", l)
<1>1. p \in LmState /\ l \in LmTags /\ LmListed(p) /\ LmLive(q) = LmLive(p) /\ LmDrainTime \in Nat
  BY LmTypes, LmAssumption DEF LmBase, LmListed, LmLive
<1>2. LmListed(q)
  BY <1>1 DEF LmListed, LmSameRest
<1>3. \A w \in LmWorkers : ~LmHas(p, w, "remove", l)
  BY <1>1 DEF LmBase, LmQueued
<1>4. /\ \A w \in LmWorkers : LmOnce(q.queue[w])
      /\ \A w \in LmWorkers : \A op2, l2 : LmHas(q, w, op2, l2) <=> LmHas(p, w, op2, l2) \/ (op2 = "remove" /\ l2 = l)
      /\ \A w \in LmWorkers : \A op2, l2 : ~(op2 = "remove" /\ l2 = l) => LmOrder(q, w, op2, l2, "remove", l)
      /\ \A w \in LmWorkers : \A a, k, b, m : ~(a = "remove" /\ k = l) /\ LmOrder(p, w, a, k, b, m) => LmOrder(q, w, a, k, b, m)
  BY <1>1, <1>3, LmPosted DEF LmOps
<1>5. /\ \A what, k, w : LmTold(q, what, k, w) <=> LmTold(p, what, k, w)
      /\ \A k, w : LmToldLast(q, k, w) <=> LmToldLast(p, k, w)
  BY DEF LmTold, LmToldLast, LmSameRest
<1>6. ASSUME NEW w \in LmWorkers, NEW k \in LmTags
      PROVE  LmQueued(q, w, k) /\ LmTabled(q, w, k) /\ LmAnswered(q, w, k)
  <2>1. LmQueued(p, w, k) /\ LmTabled(p, w, k) /\ LmAnswered(p, w, k)
    BY DEF LmBase
  <2>2. LmQueued(q, w, k)
    BY <1>1, <1>4, <2>1 DEF LmQueued, LmSameRest
  <2>3. LmTabled(q, w, k)
    BY <1>1, <1>4, <2>1 DEF LmTabled, LmSameRest
  <2>4. LmAnswered(q, w, k)
    BY <1>1, <1>4, <1>5, <2>1 DEF LmAnswered, LmSameRest
  <2>. QED
    BY <2>2, <2>3, <2>4
<1>7. ASSUME NEW k \in LmTags PROVE LmReplaced(q, k)
  BY <1>4 DEF LmBase, LmReplaced, LmSameRest
<1>. QED
  BY <1>2, <1>4, <1>6, <1>7 DEF LmBase, LmSameRest

\* A listener to which nothing refers any more is destroyed.
LmUnheld(p, l) ==
    \A w \in LmWorkers : /\ \A op \in LmOps : ~LmHas(p, w, op, l)
                         /\ \A what \in {"failed", "removed"} : ~LmTold(p, what, l, w)
                         /\ p.on[w][l] = "none"

LEMMA LmGoneBase ==
    ASSUME NEW p, LmBase(p), NEW q \in LmState, NEW ls, \A l \in ls : l \in LmTags /\ LmUnheld(p, l),
           q.started = p.started, q.next = p.next, q.main = p.main, q.on = p.on, q.queue = p.queue,
           q.active = p.active \ ls, q.warming = p.warming \ ls, q.draining = p.draining \ ls,
           \A l \in LmTags : q.ticks[l] = (IF l \in ls THEN 0 ELSE p.ticks[l]) /\ q.by[l] = (IF l \in ls THEN 0 ELSE p.by[l])
    PROVE  LmBase(q)
<1>1. p \in LmState /\ LmListed(p) /\ LmLive(q) = LmLive(p) \ ls /\ LmDrainTime \in Nat /\ p.draining \subseteq LmTags
  BY LmTypes, LmAssumption DEF LmBase, LmListed, LmLive
<1>2. LmListed(q)
  BY <1>1 DEF LmListed
<1>4. /\ \A w, op, k : LmHas(q, w, op, k) <=> LmHas(p, w, op, k)
      /\ \A w, a, k, b, m : LmOrder(q, w, a, k, b, m) <=> LmOrder(p, w, a, k, b, m)
      /\ \A what, k, w : LmTold(q, what, k, w) <=> LmTold(p, what, k, w)
      /\ \A k, w : LmToldLast(q, k, w) <=> LmToldLast(p, k, w)
  BY DEF LmHas, LmOrder, LmTold, LmToldLast
<1>5. ASSUME NEW w \in LmWorkers, NEW k \in LmTags
      PROVE  LmQueued(q, w, k) /\ LmTabled(q, w, k) /\ LmAnswered(q, w, k)
  <2>1. LmQueued(p, w, k) /\ LmTabled(p, w, k) /\ LmAnswered(p, w, k)
    BY DEF LmBase
  <2>2. CASE k \in ls
    BY <1>1, <1>4, <2>2 DEF LmQueued, LmTabled, LmAnswered, LmUnheld, LmOps
  <2>3. CASE k \notin ls
    BY <1>1, <1>4, <2>1, <2>3 DEF LmQueued, LmTabled, LmAnswered
  <2>. QED
    BY <2>2, <2>3
<1>6. \A k \in LmTags : LmReplaced(q, k)
  BY <1>1, <1>4 DEF LmBase, LmReplaced
<1>. QED
  BY <1>2, <1>5, <1>6 DEF LmBase

\* A listener is created.
LEMMA LmBornBase ==
    ASSUME NEW p, LmBase(p), NEW q \in LmState, p.next <= LmMaxListeners, q.next = p.next + 1,
           q.started = p.started, q.main = p.main, q.on = p.on, q.queue = p.queue, q.ticks = p.ticks, q.by = p.by,
           q.draining = p.draining, q.active = (IF p.started THEN p.active ELSE p.active \cup {p.next}),
           q.warming = (IF p.started THEN p.warming \cup {p.next} ELSE p.warming)
    PROVE  LmBase(q)
<1>1. /\ p \in LmState /\ LmListed(p) /\ p.next \in Nat /\ LmMaxListeners \in Nat /\ p.draining \subseteq LmTags
      /\ LmLive(p) \subseteq LmTags /\ p.warming \subseteq LmTags /\ \A k \in LmTags : k \in Nat /\ p.by[k] \in Nat
  BY LmTypes, LmAssumption DEF LmBase, LmListed, LmLive, LmTags
<1>2. LmLive(p) \subseteq LmLive(q) /\ p.next \notin LmLive(p) /\ p.next \notin p.warming
  BY <1>1 DEF LmLive, LmListed
<1>3. LmListed(q)
  <2>1. q.active \cap q.warming = {} /\ q.draining \cap (q.active \cup q.warming) = {}
    BY <1>1, <1>2 DEF LmListed, LmLive
  <2>2. \A l \in LmLive(q) \cup q.warming : l < q.next
    <3>1. \A l \in LmLive(q) \cup q.warming : l \in LmLive(p) \cup p.warming \/ l = p.next
      BY DEF LmLive
    <3>2. \A l \in LmLive(p) \cup p.warming : l < p.next /\ l \in Nat
      BY <1>1 DEF LmListed
    <3>. QED
      BY <1>1, <3>1, <3>2
  <2>3. q.next <= LmMaxListeners + 1
    BY <1>1
  <2>. QED
    BY <1>1, <2>1, <2>2, <2>3 DEF LmListed
<1>4. /\ \A w, op, k : LmHas(q, w, op, k) <=> LmHas(p, w, op, k)
      /\ \A w, a, k, b, m : LmOrder(q, w, a, k, b, m) <=> LmOrder(p, w, a, k, b, m)
      /\ \A what, k, w : LmTold(q, what, k, w) <=> LmTold(p, what, k, w)
      /\ \A k, w : LmToldLast(q, k, w) <=> LmToldLast(p, k, w)
  BY DEF LmHas, LmOrder, LmTold, LmToldLast
<1>5. \A w \in LmWorkers, k \in LmTags : LmQueued(q, w, k) /\ LmTabled(q, w, k) /\ LmAnswered(q, w, k)
  BY <1>2, <1>4 DEF LmBase, LmQueued, LmTabled, LmAnswered
<1>6. ASSUME NEW k \in LmTags PROVE LmReplaced(q, k)
  <2>1. LmReplaced(p, k)
    BY DEF LmBase
  <2>2. p.by[k] < p.next => p.by[k] < q.next /\ p.by[k] # p.next
    BY <1>1
  <2>. QED
    BY <1>4, <2>1, <2>2 DEF LmReplaced
<1>. QED
  BY <1>3, <1>5, <1>6 DEF LmBase

\* It is noted which listener replaced another.
LEMMA LmByBase ==
    ASSUME NEW p, LmBase(p), p.started, NEW q \in LmState, NEW l \in p.active, NEW o \in p.draining,
           \A w \in LmWorkers : LmOrder(p, w, "add", l, "stop", o),
           q.started = p.started, q.next = p.next, q.main = p.main, q.on = p.on, q.queue = p.queue, q.ticks = p.ticks,
           q.active = p.active, q.warming = p.warming, q.draining = p.draining,
           q.by[o] = l, \A k \in LmTags \ {o} : q.by[k] = p.by[k]
    PROVE  LmBase(q)
<1>1. p \in LmState /\ LmListed(p) /\ LmLive(q) = LmLive(p) /\ l < p.next /\ l \notin p.warming
  BY DEF LmBase, LmListed, LmLive
<1>2. LmListed(q)
  BY <1>1 DEF LmListed
<1>4. /\ \A w, op, k : LmHas(q, w, op, k) <=> LmHas(p, w, op, k)
      /\ \A w, a, k, b, m : LmOrder(q, w, a, k, b, m) <=> LmOrder(p, w, a, k, b, m)
      /\ \A what, k, w : LmTold(q, what, k, w) <=> LmTold(p, what, k, w)
      /\ \A k, w : LmToldLast(q, k, w) <=> LmToldLast(p, k, w)
  BY DEF LmHas, LmOrder, LmTold, LmToldLast
<1>5. \A w \in LmWorkers, k \in LmTags : LmQueued(q, w, k) /\ LmTabled(q, w, k) /\ LmAnswered(q, w, k)
  BY <1>1, <1>4 DEF LmBase, LmQueued, LmTabled, LmAnswered
<1>6. ASSUME NEW k \in LmTags PROVE LmReplaced(q, k)
  <2>1. LmReplaced(p, k)
    BY DEF LmBase
  <2>. QED
    BY <1>1, <1>4, <2>1 DEF LmReplaced
<1>. QED
  BY <1>2, <1>5, <1>6 DEF LmBase

\* A worker takes its next post.
LmPop(p, q, v, op, l) ==
    /\ p.queue[v] # <<>> /\ Head(p.queue[v]).op = op /\ Head(p.queue[v]).l = l
    /\ q.queue = [p.queue EXCEPT ![v] = Tail(p.queue[v])]

LEMMA LmPopped ==
    ASSUME NEW p, LmBase(p), NEW v \in LmWorkers, NEW q, NEW op0, NEW l0, LmPop(p, q, v, op0, l0)
    PROVE  /\ l0 \in LmTags /\ LmHas(p, v, op0, l0) /\ q.queue \in LmQueues
           /\ \A w \in LmWorkers : LmOnce(q.queue[w])
           /\ \A w \in LmWorkers : \A op, k : LmHas(q, w, op, k) <=> LmHas(p, w, op, k) /\ ~(w = v /\ op = op0 /\ k = l0)
           /\ \A w \in LmWorkers : \A a, k, b, n : LmOrder(p, w, a, k, b, n) => LmOrder(q, w, a, k, b, n)
<1>. DEFINE r == p.queue[v]
            t == Tail(r)
            m == Head(r)
<1>1. /\ r \in Seq(LmPosts) /\ r # <<>> /\ LmOnce(r) /\ p.queue \in LmQueues /\ m.op = op0 /\ m.l = l0
      /\ q.queue = [p.queue EXCEPT ![v] = t]
  BY LmTypes DEF LmBase, LmPop
<1>2. /\ q.queue[v] = t
      /\ \A w \in LmWorkers : w # v => q.queue[w] = p.queue[w]
  BY <1>1 DEF LmQueues
<1>. HIDE DEF r
<1>3. /\ t \in Seq(LmPosts) /\ m \in LmPosts /\ LmIn(m, r) /\ LmOnce(t)
      /\ \A y : LmIn(y, t) <=> LmIn(y, r) /\ y # m
      /\ \A a, b : LmThen(r, a, b) => LmThen(t, a, b)
  BY <1>1, LmTaken
<1>. HIDE DEF t, m
<1>4. q.queue \in LmQueues
  BY <1>1, <1>3 DEF LmQueues
<1>5. m.op \in LmOps /\ m.l \in LmTags /\ m = LmPostOf(m.op, m.l)
  BY <1>3, LmPostIs
<1>6. \A op, k : m = LmPostOf(op, k) <=> m.op = op /\ m.l = k
  <2>1. \A op, k : LmPostOf(m.op, m.l) = LmPostOf(op, k) <=> m.op = op /\ m.l = k
    BY <1>5, LmPostsDiffer
  <2>. QED
    BY <1>5, <2>1
<1>7. LmHas(p, v, m.op, m.l)
  BY <1>3, <1>5 DEF LmHas, r
<1>8. \A w \in LmWorkers : LmOnce(q.queue[w])
  BY <1>2, <1>3 DEF LmBase
<1>9. ASSUME NEW w \in LmWorkers, NEW op, NEW k
      PROVE  LmHas(q, w, op, k) <=> LmHas(p, w, op, k) /\ ~(w = v /\ op = m.op /\ k = m.l)
  <2>1. CASE w = v
    <3>1. LmHas(q, w, op, k) <=> LmIn(LmPostOf(op, k), t)
      BY <1>2, <2>1 DEF LmHas
    <3>2. LmHas(p, w, op, k) <=> LmIn(LmPostOf(op, k), r)
      BY <2>1 DEF LmHas, r
    <3>. QED
      BY <1>3, <1>6, <2>1, <3>1, <3>2
  <2>2. CASE w # v
    BY <1>2, <2>2 DEF LmHas
  <2>. QED
    BY <2>1, <2>2
<1>10. ASSUME NEW w \in LmWorkers, NEW a, NEW k, NEW b, NEW n, LmOrder(p, w, a, k, b, n) PROVE LmOrder(q, w, a, k, b, n)
  <2>1. CASE w = v
    BY <1>2, <1>3, <1>10, <2>1 DEF LmOrder, r
  <2>2. CASE w # v
    BY <1>2, <1>10, <2>2 DEF LmOrder
  <2>. QED
    BY <2>1, <2>2
<1>. QED
  BY <1>1, <1>4, <1>5, <1>7, <1>8, <1>9, <1>10

\* An order of posts, seen from the first.
LEMMA LmOrdered ==
    ASSUME NEW p, NEW w, NEW a, NEW k, NEW b, NEW n
    PROVE  /\ LmOrder(p, w, a, k, b, n) /\ LmHas(p, w, a, k) => LmHas(p, w, b, n)
           /\ ~LmHas(p, w, a, k) => LmOrder(p, w, a, k, b, n)
BY LmLater DEF LmOrder, LmHas

LEMMA LmToldOrdered ==
    ASSUME NEW p, NEW w, NEW l
    PROVE  /\ LmToldLast(p, l, w) /\ LmTold(p, "failed", l, w) => LmTold(p, "removed", l, w)
           /\ ~LmTold(p, "failed", l, w) => LmToldLast(p, l, w)
BY LmLater DEF LmToldLast, LmTold

\* An answer.
LmAnswering(p, q, what, l, v) == q.main = Append(p.main, LmAnswerOf(what, l, v))

LEMMA LmSaid ==
    ASSUME NEW p, LmBase(p), NEW what, what \in LmWhats, NEW l \in LmTags, NEW v \in LmWorkers, NEW q,
           LmAnswering(p, q, what, l, v), ~LmTold(p, what, l, v)
    PROVE  /\ q.main \in Seq(LmAnswers) /\ LmOnce(q.main)
           /\ \A what2, k, w : LmTold(q, what2, k, w) <=> LmTold(p, what2, k, w) \/ (what2 = what /\ k = l /\ w = v)
           /\ \A k, w : LmToldLast(p, k, w) /\ ~(what = "failed" /\ k = l /\ w = v) => LmToldLast(q, k, w)
           /\ what = "removed" => LmToldLast(q, l, v)
<1>. DEFINE x == LmAnswerOf(what, l, v)
            r == p.main
            t == Append(r, x)
<1>1. r \in Seq(LmAnswers) /\ LmOnce(r) /\ q.main = t /\ ~LmIn(x, r)
  BY LmTypes DEF LmBase, LmTold, LmAnswering
<1>2. x \in LmAnswers /\ \A what2, k, w : x = LmAnswerOf(what2, k, w) <=> what = what2 /\ l = k /\ v = w
  BY LmAnswersDiffer
<1>. HIDE DEF x, r
<1>3. /\ t \in Seq(LmAnswers) /\ LmOnce(t) /\ \A y : LmIn(y, t) <=> LmIn(y, r) \/ y = x
      /\ \A a : a # x => LmThen(t, a, x)
      /\ \A a, b : a # x /\ LmThen(r, a, b) => LmThen(t, a, b)
  BY <1>1, <1>2, LmAppended
<1>. HIDE DEF t
<1>4. \A what2, k, w : LmTold(q, what2, k, w) <=> LmTold(p, what2, k, w) \/ (what2 = what /\ k = l /\ w = v)
  BY <1>1, <1>2, <1>3 DEF LmTold, r
<1>5. \A k, w : LmToldLast(p, k, w) /\ ~(what = "failed" /\ k = l /\ w = v) => LmToldLast(q, k, w)
  BY <1>1, <1>2, <1>3 DEF LmToldLast, r
<1>6. what = "removed" => LmToldLast(q, l, v)
  BY <1>1, <1>2, <1>3 DEF LmToldLast, x
<1>. QED
  BY <1>1, <1>3, <1>4, <1>5, <1>6

\* The fields a worker does not touch.
LmMainSame(p, q) ==
    /\ q.started = p.started /\ q.next = p.next /\ q.by = p.by /\ q.active = p.active /\ q.warming = p.warming
    /\ q.draining = p.draining /\ q.ticks = p.ticks

\* It listens.
LEMMA LmListensBase ==
    ASSUME NEW p, LmBase(p), NEW v \in LmWorkers, NEW q \in LmState, NEW l, LmPop(p, q, v, "add", l), LmMainSame(p, q),
           q.main = p.main, q.on[v][l] = "listening", \A w \in LmWorkers, k \in LmTags : ~(w = v /\ k = l) => q.on[w][k] = p.on[w][k]
    PROVE  LmBase(q) /\ \A k : LmPending(q, k) = LmPending(p, k)
<1>1. /\ l \in LmTags /\ LmHas(p, v, "add", l)
      /\ \A w \in LmWorkers : LmOnce(q.queue[w])
      /\ \A w \in LmWorkers : \A op, k : LmHas(q, w, op, k) <=> LmHas(p, w, op, k) /\ ~(w = v /\ op = "add" /\ k = l)
      /\ \A w \in LmWorkers : \A a, k, b, n : LmOrder(p, w, a, k, b, n) => LmOrder(q, w, a, k, b, n)
  BY LmPopped
<1>2. LmListed(q) /\ LmLive(q) = LmLive(p)
  BY DEF LmBase, LmListed, LmLive, LmMainSame
<1>3. /\ \A what, k, w : LmTold(q, what, k, w) <=> LmTold(p, what, k, w)
      /\ \A k, w : LmToldLast(q, k, w) <=> LmToldLast(p, k, w)
  BY DEF LmTold, LmToldLast
<1>4. ASSUME NEW w \in LmWorkers, NEW k \in LmTags
      PROVE  LmQueued(q, w, k) /\ LmTabled(q, w, k) /\ LmAnswered(q, w, k)
  <2>1. LmQueued(p, w, k) /\ LmTabled(p, w, k) /\ LmAnswered(p, w, k)
    BY DEF LmBase
  <2>2. LmQueued(q, w, k)
    BY <1>1, <1>2, <2>1 DEF LmQueued, LmMainSame
  <2>3. LmTabled(q, w, k)
    <3>1. CASE w = v /\ k = l
      BY <1>1, <1>2, <2>1, <3>1, LmOrdered DEF LmTabled, LmQueued, LmMainSame
    <3>2. CASE ~(w = v /\ k = l)
      BY <1>1, <1>2, <2>1, <3>2 DEF LmTabled, LmMainSame
    <3>. QED
      BY <3>1, <3>2
  <2>4. LmAnswered(q, w, k)
    BY <1>1, <1>2, <1>3, <2>1 DEF LmAnswered, LmMainSame
  <2>. QED
    BY <2>2, <2>3, <2>4
<1>5. ASSUME NEW k \in LmTags PROVE LmReplaced(q, k)
  BY <1>1 DEF LmBase, LmReplaced, LmMainSame
<1>6. \A k : LmPending(q, k) = LmPending(p, k)
  BY <1>1, <1>3 DEF LmPending
<1>. QED
  BY <1>1, <1>2, <1>4, <1>5, <1>6 DEF LmBase, LmMainSame

\* It cannot listen, and says so.
LEMMA LmFailsBase ==
    ASSUME NEW p, LmBase(p), NEW v \in LmWorkers, NEW q \in LmState, NEW l, LmPop(p, q, v, "add", l), LmMainSame(p, q),
           LmAnswering(p, q, "failed", l, v), q.on = p.on
    PROVE  LmBase(q) /\ \A k : LmPending(q, k) = LmPending(p, k)
<1>1. /\ l \in LmTags /\ LmHas(p, v, "add", l)
      /\ \A w \in LmWorkers : LmOnce(q.queue[w])
      /\ \A w \in LmWorkers : \A op, k : LmHas(q, w, op, k) <=> LmHas(p, w, op, k) /\ ~(w = v /\ op = "add" /\ k = l)
      /\ \A w \in LmWorkers : \A a, k, b, n : LmOrder(p, w, a, k, b, n) => LmOrder(q, w, a, k, b, n)
  BY LmPopped
<1>2. LmListed(q) /\ LmLive(q) = LmLive(p)
  BY DEF LmBase, LmListed, LmLive, LmMainSame
<1>3. LmQueued(p, v, l) /\ LmAnswered(p, v, l)
  BY <1>1 DEF LmBase
<1>4. ~LmTold(p, "failed", l, v)
  BY <1>1, <1>3 DEF LmAnswered
<1>5. /\ LmOnce(q.main)
      /\ \A what, k, w : LmTold(q, what, k, w) <=> LmTold(p, what, k, w) \/ (what = "failed" /\ k = l /\ w = v)
      /\ \A k, w : LmToldLast(p, k, w) /\ ~(k = l /\ w = v) => LmToldLast(q, k, w)
  <2>. DEFINE said == "failed"
  <2>1. LmAnswering(p, q, said, l, v) /\ ~LmTold(p, said, l, v) /\ said \in LmWhats /\ l \in LmTags
    BY <1>1, <1>4 DEF LmWhats
  <2>2. said = "failed"
    OBVIOUS
  <2>. HIDE DEF said
  <2>3. /\ q.main \in Seq(LmAnswers) /\ LmOnce(q.main)
        /\ \A what2, k, w : LmTold(q, what2, k, w) <=> LmTold(p, what2, k, w) \/ (what2 = said /\ k = l /\ w = v)
        /\ \A k, w : LmToldLast(p, k, w) /\ ~(said = "failed" /\ k = l /\ w = v) => LmToldLast(q, k, w)
        /\ said = "removed" => LmToldLast(q, l, v)
    BY <2>1, LmSaid
  <2>. QED
    BY <2>2, <2>3
<1>6. ASSUME NEW w \in LmWorkers, NEW k \in LmTags
      PROVE  LmQueued(q, w, k) /\ LmTabled(q, w, k) /\ LmAnswered(q, w, k)
  <2>1. LmQueued(p, w, k) /\ LmTabled(p, w, k) /\ LmAnswered(p, w, k)
    BY DEF LmBase
  <2>2. LmQueued(q, w, k)
    BY <1>1, <1>2, <2>1 DEF LmQueued, LmMainSame
  <2>3. LmTabled(q, w, k)
    BY <1>1, <1>2, <2>1 DEF LmTabled, LmMainSame
  <2>4. LmAnswered(q, w, k)
    <3>1. CASE w = v /\ k = l
      BY <1>1, <1>2, <1>5, <2>1, <3>1, LmOrdered DEF LmAnswered, LmQueued, LmMainSame
    <3>2. CASE ~(w = v /\ k = l)
      BY <1>1, <1>2, <1>5, <2>1, <3>2 DEF LmAnswered, LmMainSame
    <3>. QED
      BY <3>1, <3>2
  <2>. QED
    BY <2>2, <2>3, <2>4
<1>7. ASSUME NEW k \in LmTags PROVE LmReplaced(q, k)
  BY <1>1 DEF LmBase, LmReplaced, LmMainSame
<1>8. \A k : LmPending(q, k) = LmPending(p, k)
  BY <1>1, <1>5 DEF LmPending
<1>. QED
  BY <1>1, <1>2, <1>5, <1>6, <1>7, <1>8 DEF LmBase, LmMainSame

\* It stops listening.
LEMMA LmStopsBase ==
    ASSUME NEW p, LmBase(p), NEW v \in LmWorkers, NEW q \in LmState, NEW l, LmPop(p, q, v, "stop", l), LmMainSame(p, q),
           q.main = p.main, q.on[v][l] = (IF p.on[v][l] = "listening" THEN "stopped" ELSE p.on[v][l]),
           \A w \in LmWorkers, k \in LmTags : ~(w = v /\ k = l) => q.on[w][k] = p.on[w][k]
    PROVE  LmBase(q) /\ \A k : LmPending(q, k) = LmPending(p, k)
<1>1. /\ l \in LmTags /\ LmHas(p, v, "stop", l)
      /\ \A w \in LmWorkers : LmOnce(q.queue[w])
      /\ \A w \in LmWorkers : \A op, k : LmHas(q, w, op, k) <=> LmHas(p, w, op, k) /\ ~(w = v /\ op = "stop" /\ k = l)
      /\ \A w \in LmWorkers : \A a, k, b, n : LmOrder(p, w, a, k, b, n) => LmOrder(q, w, a, k, b, n)
  BY LmPopped
<1>2. LmListed(q) /\ LmLive(q) = LmLive(p)
  BY DEF LmBase, LmListed, LmLive, LmMainSame
<1>3. /\ \A what, k, w : LmTold(q, what, k, w) <=> LmTold(p, what, k, w)
      /\ \A k, w : LmToldLast(q, k, w) <=> LmToldLast(p, k, w)
  BY DEF LmTold, LmToldLast
<1>4. ASSUME NEW w \in LmWorkers, NEW k \in LmTags
      PROVE  LmQueued(q, w, k) /\ LmTabled(q, w, k) /\ LmAnswered(q, w, k)
  <2>1. LmQueued(p, w, k) /\ LmTabled(p, w, k) /\ LmAnswered(p, w, k)
    BY DEF LmBase
  <2>2. LmQueued(q, w, k)
    BY <1>1, <1>2, <2>1 DEF LmQueued, LmMainSame
  <2>3. LmTabled(q, w, k)
    <3>1. CASE w = v /\ k = l
      BY <1>1, <1>2, <2>1, <3>1 DEF LmTabled, LmQueued, LmMainSame
    <3>2. CASE ~(w = v /\ k = l)
      BY <1>1, <1>2, <2>1, <3>2 DEF LmTabled, LmMainSame
    <3>. QED
      BY <3>1, <3>2
  <2>4. LmAnswered(q, w, k)
    BY <1>1, <1>2, <1>3, <2>1 DEF LmAnswered, LmMainSame
  <2>. QED
    BY <2>2, <2>3, <2>4
<1>5. ASSUME NEW k \in LmTags PROVE LmReplaced(q, k)
  BY <1>1 DEF LmBase, LmReplaced, LmMainSame
<1>6. \A k : LmPending(q, k) = LmPending(p, k)
  BY <1>1, <1>3 DEF LmPending
<1>. QED
  BY <1>1, <1>2, <1>4, <1>5, <1>6 DEF LmBase, LmMainSame

\* It has removed the listener, and says so.
LEMMA LmRemovesBase ==
    ASSUME NEW p, LmBase(p), p.started, NEW v \in LmWorkers, NEW q \in LmState, NEW l, LmPop(p, q, v, "remove", l), LmMainSame(p, q),
           LmAnswering(p, q, "removed", l, v), q.on[v][l] = "none",
           \A w \in LmWorkers, k \in LmTags : ~(w = v /\ k = l) => q.on[w][k] = p.on[w][k]
    PROVE  LmBase(q) /\ \A k : LmPending(q, k) = LmPending(p, k)
<1>1. /\ l \in LmTags /\ LmHas(p, v, "remove", l)
      /\ \A w \in LmWorkers : LmOnce(q.queue[w])
      /\ \A w \in LmWorkers : \A op, k : LmHas(q, w, op, k) <=> LmHas(p, w, op, k) /\ ~(w = v /\ op = "remove" /\ k = l)
      /\ \A w \in LmWorkers : \A a, k, b, n : LmOrder(p, w, a, k, b, n) => LmOrder(q, w, a, k, b, n)
  BY LmPopped
<1>2. LmListed(q) /\ LmLive(q) = LmLive(p)
  BY DEF LmBase, LmListed, LmLive, LmMainSame
<1>3. LmQueued(p, v, l) /\ LmAnswered(p, v, l)
  BY <1>1 DEF LmBase
<1>4. ~LmTold(p, "removed", l, v)
  BY <1>1, <1>3 DEF LmAnswered
<1>5. /\ LmOnce(q.main)
      /\ \A what, k, w : LmTold(q, what, k, w) <=> LmTold(p, what, k, w) \/ (what = "removed" /\ k = l /\ w = v)
      /\ \A k, w : LmToldLast(p, k, w) => LmToldLast(q, k, w)
      /\ LmToldLast(q, l, v)
  <2>. DEFINE said == "removed"
  <2>1. LmAnswering(p, q, said, l, v) /\ ~LmTold(p, said, l, v) /\ said \in LmWhats /\ l \in LmTags
    BY <1>1, <1>4 DEF LmWhats
  <2>2. said = "removed"
    OBVIOUS
  <2>. HIDE DEF said
  <2>3. /\ q.main \in Seq(LmAnswers) /\ LmOnce(q.main)
        /\ \A what2, k, w : LmTold(q, what2, k, w) <=> LmTold(p, what2, k, w) \/ (what2 = said /\ k = l /\ w = v)
        /\ \A k, w : LmToldLast(p, k, w) /\ ~(said = "failed" /\ k = l /\ w = v) => LmToldLast(q, k, w)
        /\ said = "removed" => LmToldLast(q, l, v)
    BY <2>1, LmSaid
  <2>. QED
    BY <2>2, <2>3
<1>6. ASSUME NEW w \in LmWorkers, NEW k \in LmTags
      PROVE  LmQueued(q, w, k) /\ LmTabled(q, w, k) /\ LmAnswered(q, w, k)
  <2>1. LmQueued(p, w, k) /\ LmTabled(p, w, k) /\ LmAnswered(p, w, k)
    BY DEF LmBase
  <2>2. LmQueued(q, w, k)
    BY <1>1, <1>2, <2>1 DEF LmQueued, LmMainSame
  <2>3. LmTabled(q, w, k)
    <3>1. CASE w = v /\ k = l
      BY <3>1 DEF LmTabled
    <3>2. CASE ~(w = v /\ k = l)
      BY <1>1, <1>2, <2>1, <3>2 DEF LmTabled, LmMainSame
    <3>. QED
      BY <3>1, <3>2
  <2>4. LmAnswered(q, w, k)
    <3>1. CASE w = v /\ k = l
      BY <1>1, <1>2, <1>3, <1>5, <2>1, <3>1 DEF LmAnswered, LmQueued, LmMainSame
    <3>2. CASE ~(w = v /\ k = l)
      BY <1>1, <1>2, <1>5, <2>1, <3>2 DEF LmAnswered, LmMainSame
    <3>. QED
      BY <3>1, <3>2
  <2>. QED
    BY <2>2, <2>3, <2>4
<1>7. ASSUME NEW k \in LmTags PROVE LmReplaced(q, k)
  BY <1>1 DEF LmBase, LmReplaced, LmMainSame
<1>8. \A k : LmPending(q, k) = LmPending(p, k)
  BY <1>1, <1>5 DEF LmPending
<1>. QED
  BY <1>1, <1>2, <1>5, <1>6, <1>7, <1>8 DEF LmBase, LmMainSame

\* The main thread takes the next answer.
LmHear(p, q, what, l, v) == p.main # <<>> /\ Head(p.main) = LmAnswerOf(what, l, v) /\ q.main = Tail(p.main)

LEMMA LmHeard ==
    ASSUME NEW p, LmBase(p), NEW what, what \in LmWhats, NEW l \in LmTags, NEW v \in LmWorkers, NEW q,
           LmHear(p, q, what, l, v)
    PROVE  /\ q.main \in Seq(LmAnswers) /\ LmOnce(q.main) /\ LmTold(p, what, l, v)
           /\ \A what2, k, w : LmTold(q, what2, k, w) <=> LmTold(p, what2, k, w) /\ ~(what2 = what /\ k = l /\ w = v)
           /\ \A k, w : LmToldLast(p, k, w) => LmToldLast(q, k, w)
           /\ what = "removed" /\ LmToldLast(p, l, v) => ~LmTold(p, "failed", l, v)
<1>. DEFINE x == LmAnswerOf(what, l, v)
            r == p.main
            t == Tail(r)
            h == Head(r)
<1>1. r \in Seq(LmAnswers) /\ LmOnce(r) /\ q.main = t /\ h = x /\ r # <<>>
  BY LmTypes DEF LmBase, LmHear
<1>2. \A what2, k, w : x = LmAnswerOf(what2, k, w) <=> what = what2 /\ l = k /\ v = w
  BY LmAnswersDiffer
<1>. HIDE DEF x, r
<1>3. /\ t \in Seq(LmAnswers) /\ LmIn(h, r) /\ LmOnce(t)
      /\ \A y : LmIn(y, t) <=> LmIn(y, r) /\ y # h
      /\ \A a, b : LmThen(r, a, b) => LmThen(t, a, b)
      /\ \A a, b : LmThen(r, a, b) /\ b = h => ~LmIn(a, r)
  BY <1>1, LmTaken
<1>. HIDE DEF t, h
<1>4. \A what2, k, w : LmTold(q, what2, k, w) <=> LmTold(p, what2, k, w) /\ ~(what2 = what /\ k = l /\ w = v)
  BY <1>1, <1>2, <1>3 DEF LmTold, r
<1>5. \A k, w : LmToldLast(p, k, w) => LmToldLast(q, k, w)
  BY <1>1, <1>3 DEF LmToldLast, r
<1>6. what = "removed" /\ LmToldLast(p, l, v) => ~LmTold(p, "failed", l, v)
  BY <1>1, <1>3 DEF LmToldLast, LmTold, r, x
<1>7. LmTold(p, what, l, v)
  BY <1>1, <1>3 DEF LmTold, r, x
<1>. QED
  BY <1>1, <1>3, <1>4, <1>5, <1>6, <1>7

LmHearsOnly(p, q) == LmMainSame(p, q) /\ q.queue = p.queue /\ q.on = p.on

LEMMA LmHeardBase ==
    ASSUME NEW p, LmBase(p), NEW what, what \in LmWhats, NEW l \in LmTags, NEW v \in LmWorkers, NEW q \in LmState,
           LmHear(p, q, what, l, v), LmHearsOnly(p, q)
    PROVE  /\ LmBase(q) /\ LmTold(p, what, l, v)
           /\ \A k : LmPending(q, k) = IF what = "removed" /\ k = l THEN LmPending(p, k) \ {v} ELSE LmPending(p, k)
           /\ what = "removed" /\ LmPending(p, l) = {v} => LmUnheld(q, l)
<1>1. /\ LmOnce(q.main) /\ LmTold(p, what, l, v)
      /\ \A what2, k, w : LmTold(q, what2, k, w) <=> LmTold(p, what2, k, w) /\ ~(what2 = what /\ k = l /\ w = v)
      /\ \A k, w : LmToldLast(p, k, w) => LmToldLast(q, k, w)
      /\ what = "removed" /\ LmToldLast(p, l, v) => ~LmTold(p, "failed", l, v)
  BY LmHeard
<1>2. LmListed(q) /\ LmLive(q) = LmLive(p)
  BY DEF LmBase, LmListed, LmLive, LmMainSame, LmHearsOnly
<1>3. /\ \A w, op, k : LmHas(q, w, op, k) <=> LmHas(p, w, op, k)
      /\ \A w, a, k, b, m : LmOrder(q, w, a, k, b, m) <=> LmOrder(p, w, a, k, b, m)
  BY DEF LmHas, LmOrder, LmHearsOnly
<1>4. ASSUME NEW w \in LmWorkers, NEW k \in LmTags
      PROVE  LmQueued(q, w, k) /\ LmTabled(q, w, k) /\ LmAnswered(q, w, k)
  <2>1. LmQueued(p, w, k) /\ LmTabled(p, w, k) /\ LmAnswered(p, w, k)
    BY DEF LmBase
  <2>. QED
    BY <1>1, <1>2, <1>3, <2>1 DEF LmQueued, LmTabled, LmAnswered, LmMainSame, LmHearsOnly
<1>5. ASSUME NEW k \in LmTags PROVE LmReplaced(q, k)
  BY <1>3 DEF LmBase, LmReplaced, LmMainSame, LmHearsOnly
<1>6. LmBase(q)
  BY <1>1, <1>2, <1>4, <1>5 DEF LmBase, LmMainSame, LmHearsOnly
<1>7. ASSUME NEW k
      PROVE  LmPending(q, k) = IF what = "removed" /\ k = l THEN LmPending(p, k) \ {v} ELSE LmPending(p, k)
  <2>1. what = "removed" => ~LmHas(p, v, "remove", l)
    <3>1. LmAnswered(p, v, l)
      BY DEF LmBase
    <3>. QED
      BY <1>1, <3>1 DEF LmAnswered
  <2>. QED
    BY <1>1, <1>3, <2>1 DEF LmPending
<1>8. ASSUME what = "removed", LmPending(p, l) = {v} PROVE LmUnheld(q, l)
  <2>1. LmAnswered(p, v, l)
    BY DEF LmBase
  <2>2. l \in p.draining /\ p.ticks[l] = LmDrainTime /\ ~LmHas(p, v, "remove", l)
    BY <1>1, <1>8, <2>1 DEF LmAnswered
  <2>3. \A w \in LmWorkers : ~LmHas(p, w, "remove", l) /\ (LmTold(p, "removed", l, w) => w = v)
    BY <1>8, <2>2 DEF LmPending
  <2>4. ASSUME NEW w \in LmWorkers
        PROVE  /\ \A op \in LmOps : ~LmHas(q, w, op, l)
               /\ \A k \in LmWhats : ~LmTold(q, k, l, w)
               /\ q.on[w][l] = "none"
    <3>1. LmQueued(p, w, l) /\ LmTabled(p, w, l) /\ LmAnswered(p, w, l)
      BY DEF LmBase
    <3>2. ~LmHas(p, w, "add", l) /\ ~LmHas(p, w, "stop", l) /\ ~LmHas(p, w, "remove", l)
      BY <2>2, <2>3, <3>1, LmOrdered DEF LmQueued
    <3>3. p.on[w][l] = "none"
      BY <2>2, <3>1, <3>2 DEF LmTabled
    <3>4. ~LmTold(q, "removed", l, w)
      BY <1>1, <1>8, <2>3
    <3>5. LmToldLast(p, l, w)
      BY <2>2, <3>1, <3>2 DEF LmAnswered
    <3>6. ~LmTold(p, "failed", l, w)
      BY <1>1, <1>8, <2>3, <3>5, LmToldOrdered
    <3>. QED
      BY <1>1, <1>3, <3>2, <3>3, <3>4, <3>6 DEF LmOps, LmWhats, LmHearsOnly
  <2>. QED
    BY <2>4 DEF LmUnheld, LmWhats
<1>. QED
  BY <1>1, <1>6, <1>7, <1>8

\* The workers start, and are given what is active.
LmAdds(order) == [i \in DOMAIN order |-> LmPostOf("add", order[i])]

LEMMA LmAddsOf ==
    ASSUME NEW S, S \subseteq LmTags, IsFiniteSet(S), NEW order \in SetToSeqs(S)
    PROVE  /\ LmAdds(order) \in Seq(LmPosts) /\ LmOnce(LmAdds(order))
           /\ \A op, k : LmIn(LmPostOf(op, k), LmAdds(order)) => op = "add" /\ k \in S
<1>. DEFINE n == Cardinality(S)
            t == LmAdds(order)
<1>1. n \in Nat
  BY FS_CardinalityType
<1>. HIDE DEF n
<1>2. order \in [1..n -> S] /\ \A i, j \in 1..n : i # j => order[i] # order[j]
  BY DEF SetToSeqs, n
<1>3. DOMAIN t = 1..n /\ \A i \in 1..n : t[i] = LmPostOf("add", order[i]) /\ order[i] \in S
  BY <1>2 DEF LmAdds
<1>. HIDE DEF t
<1>4. \A i \in 1..n : t[i] \in LmPosts /\ \A op, k : t[i] = LmPostOf(op, k) <=> op = "add" /\ k = order[i]
  <2>. TAKE i \in 1..n
  <2>1. order[i] \in LmTags /\ "add" \in LmOps
    BY <1>3 DEF LmOps
  <2>2. /\ LmPostOf("add", order[i]) \in LmPosts
        /\ \A op, k : LmPostOf("add", order[i]) = LmPostOf(op, k) <=> "add" = op /\ order[i] = k
    BY <2>1, LmPostsDiffer
  <2>. QED
    BY <1>3, <2>2
<1>5. t \in [1..n -> LmPosts]
  <2>1. t = [i \in 1..n |-> t[i]]
    BY <1>2 DEF t, LmAdds
  <2>. QED
    BY <1>4, <2>1
<1>6. t \in Seq(LmPosts)
  BY <1>1, <1>5
<1>7. LmOnce(t)
  <2>. SUFFICES ASSUME NEW i \in 1..n, NEW j \in 1..n, t[i] = t[j] PROVE i = j
    BY <1>3 DEF LmOnce
  <2>1. order[i] = order[j]
    BY <1>3, <1>4
  <2>. QED
    BY <1>2, <2>1
<1>8. \A op, k : LmIn(LmPostOf(op, k), t) => op = "add" /\ k \in S
  BY <1>3, <1>4 DEF LmIn
<1>. QED
  BY <1>6, <1>7, <1>8 DEF t

LmBegins(p, q, order) == q.queue = [w \in LmWorkers |-> p.queue[w] \o LmAdds(order)]

LEMMA LmStartBase ==
    ASSUME NEW p, LmBase(p), ~p.started, NEW order \in SetToSeqs(p.active), NEW q \in LmState, LmBegins(p, q, order),
           q.started, q.next = p.next, q.by = p.by, q.active = p.active, q.warming = p.warming, q.draining = p.draining,
           q.ticks = p.ticks, q.main = p.main, q.on = p.on
    PROVE  LmBase(q) /\ \A k : LmPending(q, k) = LmPending(p, k)
<1>. DEFINE t == LmAdds(order)
<1>1. p \in LmState /\ p.active \subseteq LmTags /\ LmListed(p) /\ LmLive(q) = LmLive(p) /\ p.active \subseteq LmLive(p)
  BY LmTypes DEF LmBase, LmLive
<1>2. IsFiniteSet(p.active)
  <2>1. IsFiniteSet(LmTags)
    BY FS_Interval, LmAssumption DEF LmTags
  <2>. QED
    BY <1>1, <2>1, FS_Subset
<1>3. /\ t \in Seq(LmPosts) /\ LmOnce(t)
      /\ \A op, k : LmIn(LmPostOf(op, k), t) => op = "add" /\ k \in p.active
  BY <1>1, <1>2, LmAddsOf
<1>4. LmListed(q)
  BY <1>1 DEF LmListed
<1>. HIDE DEF t
<1>5. ASSUME NEW w \in LmWorkers
      PROVE  /\ LmOnce(q.queue[w])
             /\ \A op, k : LmHas(q, w, op, k) <=> LmHas(p, w, op, k) \/ LmIn(LmPostOf(op, k), t)
             /\ \A a, k, b, n : LmOrder(p, w, a, k, b, n) /\ ~LmIn(LmPostOf(a, k), t) => LmOrder(q, w, a, k, b, n)
  <2>. DEFINE r == p.queue[w]
              s == r \o t
  <2>1. r \in Seq(LmPosts) /\ LmOnce(r)
    BY <1>1, LmTypes DEF LmBase
  <2>2. q.queue[w] = s
    BY DEF LmBegins, t
  <2>3. \A y : ~(LmIn(y, r) /\ LmIn(y, t))
    <3>. SUFFICES ASSUME NEW y, LmIn(y, r), LmIn(y, t) PROVE FALSE
      OBVIOUS
    <3>1. y \in LmPosts
      <4>1. PICK i \in DOMAIN r : r[i] = y
        BY DEF LmIn
      <4>. HIDE DEF r
      <4>. QED
        BY <2>1, <4>1
    <3>2. y = LmPostOf(y.op, y.l) /\ y.l \in LmTags
      BY <3>1, LmPostIs
    <3>3. y.op = "add"
      BY <1>3, <3>2
    <3>4. LmHas(p, w, "add", y.l)
      BY <3>2, <3>3 DEF LmHas
    <3>5. LmQueued(p, w, y.l)
      BY <3>2 DEF LmBase
    <3>. QED
      BY <3>4, <3>5 DEF LmQueued
  <2>. HIDE DEF r
  <2>4. /\ LmOnce(s)
        /\ \A y : LmIn(y, s) <=> LmIn(y, r) \/ LmIn(y, t)
        /\ \A a, b : LmThen(r, a, b) /\ ~LmIn(a, t) => LmThen(s, a, b)
    BY <1>3, <2>1, <2>3, LmJoined
  <2>. HIDE DEF s
  <2>. QED
    BY <2>2, <2>4 DEF LmHas, LmOrder, r
<1>6. ASSUME NEW w \in LmWorkers, NEW k \in LmTags
      PROVE  /\ LmHas(q, w, "add", k) => k \in p.active
             /\ LmHas(q, w, "stop", k) <=> LmHas(p, w, "stop", k)
             /\ LmHas(q, w, "remove", k) <=> LmHas(p, w, "remove", k)
             /\ \A b, n : LmOrder(p, w, "stop", k, b, n) => LmOrder(q, w, "stop", k, b, n)
             /\ p.on[w][k] = "none" /\ ~LmTold(p, "failed", k, w) /\ ~LmTold(p, "removed", k, w)
  <2>1. LmQueued(p, w, k) /\ LmTabled(p, w, k) /\ LmAnswered(p, w, k)
    BY DEF LmBase
  <2>. QED
    BY <1>3, <1>5, <2>1 DEF LmQueued, LmTabled, LmAnswered
<1>7. /\ \A what, k, w : LmTold(q, what, k, w) <=> LmTold(p, what, k, w)
      /\ \A k, w : LmToldLast(q, k, w) <=> LmToldLast(p, k, w)
  BY DEF LmTold, LmToldLast
<1>8. ASSUME NEW w \in LmWorkers, NEW k \in LmTags
      PROVE  LmQueued(q, w, k) /\ LmTabled(q, w, k) /\ LmAnswered(q, w, k)
  <2>1. LmQueued(p, w, k) /\ LmTabled(p, w, k) /\ LmAnswered(p, w, k)
    BY DEF LmBase
  <2>2. k \in p.draining => ~LmHas(q, w, "add", k)
    BY <1>1, <1>6 DEF LmListed
  <2>3. LmQueued(q, w, k)
    BY <1>1, <1>6, <2>1, <2>2, LmOrdered DEF LmQueued
  <2>4. LmTabled(q, w, k) /\ LmAnswered(q, w, k)
    BY <1>6, <1>7, LmToldOrdered DEF LmTabled, LmAnswered
  <2>. QED
    BY <2>3, <2>4
<1>9. ASSUME NEW k \in LmTags PROVE LmReplaced(q, k)
  <2>1. LmReplaced(p, k)
    BY DEF LmBase
  <2>2. CASE p.by[k] = 0
    BY <2>2 DEF LmReplaced
  <2>3. CASE p.by[k] # 0
    <3>. QED
      BY <2>1, <2>3 DEF LmReplaced
  <2>. QED
    BY <2>2, <2>3
<1>10. \A k : LmPending(q, k) = LmPending(p, k)
  BY <1>3, <1>5, <1>7 DEF LmPending
<1>. QED
  BY <1>4, <1>5, <1>8, <1>9, <1>10 DEF LmBase

\* What else is known of listeners.
LmSameNames(p, q) ==
    q.name = p.name /\ q.socket = p.socket /\ q.waits = p.waits /\ q.failed = p.failed /\ q.threw = p.threw

LEMMA LmCountedSame ==
    ASSUME NEW p, LmCounted(p), NEW q, q.draining = p.draining, q.ticks = p.ticks, q.left = p.left,
           \A k : LmPending(q, k) = LmPending(p, k)
    PROVE  LmCounted(q)
BY DEF LmCounted

\* drainSequenceTick(), by its fields.
LmTicked(p, q, l) ==
    /\ LmSameRest(p, q)
    /\ q.active = p.active /\ q.warming = p.warming /\ q.draining = p.draining /\ q.left = p.left
    /\ q.ticks = [p.ticks EXCEPT ![l] = @ + 1]
    /\ q.queue = IF p.ticks[l] + 1 = LmDrainTime THEN LmPostedTo(p, "remove", l) ELSE p.queue

LEMMA LmTickedOK ==
    ASSUME NEW p, LmBase(p), LmCounted(p), NEW l \in p.draining, p.ticks[l] # LmDrainTime, NEW q \in LmState, LmTicked(p, q, l)
    PROVE  /\ LmBase(q) /\ LmCounted(q)
           /\ \A w \in LmWorkers : \A a, k, b, n : a # "remove" /\ LmOrder(p, w, a, k, b, n) => LmOrder(q, w, a, k, b, n)
<1>1. /\ p \in LmState /\ l \in LmTags /\ LmListed(p) /\ p.ticks[l] \in Nat /\ p.ticks \in LmTagMap /\ LmDrainTime \in Nat
      /\ p.ticks[l] + 1 <= LmDrainTime /\ p.draining \subseteq LmTags
  BY LmTypes, LmAssumption DEF LmBase, LmListed
<1>2. q.ticks[l] = p.ticks[l] + 1 /\ \A k \in LmTags \ {l} : q.ticks[k] = p.ticks[k]
  BY <1>1 DEF LmTagMap, LmTicked
<1>3. \A what, k, w : LmTold(q, what, k, w) <=> LmTold(p, what, k, w)
  BY DEF LmTold, LmTicked, LmSameRest
<1>4. CASE p.ticks[l] + 1 # LmDrainTime
  <2>1. q.queue = p.queue /\ p.ticks[l] + 1 < LmDrainTime
    BY <1>1, <1>4 DEF LmTicked
  <2>2. LmBase(q)
    BY <1>2, <2>1, LmTickBase DEF LmTicked
  <2>3. /\ \A w, op, k : LmHas(q, w, op, k) <=> LmHas(p, w, op, k)
        /\ \A w, a, k, b, n : LmOrder(q, w, a, k, b, n) <=> LmOrder(p, w, a, k, b, n)
    BY <2>1 DEF LmHas, LmOrder
  <2>4. \A k : LmPending(q, k) = LmPending(p, k)
    BY <1>3, <2>3 DEF LmPending
  <2>5. \A k \in LmTags : q.ticks[k] = LmDrainTime <=> p.ticks[k] = LmDrainTime
    BY <1>1, <1>2, <1>4
  <2>6. LmCounted(q)
    BY <1>1, <2>4, <2>5 DEF LmCounted, LmTicked
  <2>. QED
    BY <2>2, <2>3, <2>6
<1>5. CASE p.ticks[l] + 1 = LmDrainTime
  <2>1. q.queue = LmPostedTo(p, "remove", l) /\ q.ticks[l] = LmDrainTime
    BY <1>2, <1>5 DEF LmTicked
  <2>2. LmBase(q) /\ \A w \in LmWorkers : LmHas(q, w, "remove", l)
    BY <1>2, <2>1, LmRemoveBase DEF LmTicked
  <2>3. \A w \in LmWorkers : ~LmHas(p, w, "remove", l)
    BY <1>1 DEF LmBase, LmQueued
  <2>4. /\ \A w \in LmWorkers : \A op2, l2 : LmHas(q, w, op2, l2) <=> LmHas(p, w, op2, l2) \/ (op2 = "remove" /\ l2 = l)
        /\ \A w \in LmWorkers : \A a, k, b, m : ~(a = "remove" /\ k = l) /\ LmOrder(p, w, a, k, b, m) => LmOrder(q, w, a, k, b, m)
    BY <1>1, <2>1, <2>3, LmPosted DEF LmOps
  <2>5. \A k \in LmTags \ {l} : LmPending(q, k) = LmPending(p, k)
    BY <1>3, <2>4 DEF LmPending
  <2>6. LmPending(q, l) = LmWorkers
    BY <2>2 DEF LmPending
  <2>7. LmCounted(q)
    <3>. SUFFICES ASSUME NEW k \in q.draining
                  PROVE  q.left[k] = Cardinality(IF q.ticks[k] = LmDrainTime THEN LmPending(q, k) ELSE LmWorkers)
      BY DEF LmCounted
    <3>1. k \in p.draining /\ k \in LmTags /\ q.left[k] = p.left[k]
      BY <1>1 DEF LmTicked
    <3>2. p.left[k] = Cardinality(IF p.ticks[k] = LmDrainTime THEN LmPending(p, k) ELSE LmWorkers)
      BY <3>1 DEF LmCounted
    <3>3. CASE k = l
      BY <2>1, <2>6, <3>1, <3>2, <3>3
    <3>4. CASE k # l
      BY <1>2, <2>5, <3>1, <3>2, <3>4
    <3>. QED
      BY <3>3, <3>4
  <2>. QED
    BY <2>2, <2>4, <2>7
<1>. QED
  BY <1>4, <1>5

\* drainListener(), by its fields.
LmStopped(p, l) == [p EXCEPT !.active = @ \ {l}, !.draining = @ \cup {l}, !.left[l] = Cardinality(LmWorkers),
                             !.queue = LmPostedTo(p, "stop", l)]

LEMMA LmStoppedOK ==
    ASSUME NEW p, LmBase(p), LmCounted(p), NEW l \in p.active
    PROVE  LET q == LmStopped(p, l)
           IN  /\ q \in LmState /\ LmBase(q) /\ LmCounted(q) /\ LmSameRest(p, q) /\ LmSameNames(p, q)
               /\ q.active = p.active \ {l} /\ q.draining = p.draining \cup {l} /\ q.warming = p.warming /\ q.ticks = p.ticks
               /\ q.left = [p.left EXCEPT ![l] = Cardinality(LmWorkers)] /\ q.ticks[l] = 0
               /\ q.queue = LmPostedTo(p, "stop", l)
               /\ \A w \in LmWorkers : \A k : LmOrder(q, w, "add", k, "stop", l)
<1>. DEFINE q == LmStopped(p, l)
<1>1. /\ p \in LmState /\ l \in LmTags /\ LmListed(p) /\ l \notin p.draining /\ p.ticks[l] = 0 /\ 0 # LmDrainTime
      /\ p.draining \subseteq LmTags /\ p.active \subseteq LmTags /\ p.left \in LmTagMap
  BY LmTypes, LmAssumption DEF LmBase, LmListed
<1>2. \A w \in LmWorkers : ~LmHas(p, w, "stop", l)
  BY <1>1 DEF LmBase, LmQueued
<1>3. /\ q.active = p.active \ {l} /\ q.draining = p.draining \cup {l} /\ q.warming = p.warming /\ q.ticks = p.ticks
      /\ q.left = [p.left EXCEPT ![l] = Cardinality(LmWorkers)] /\ q.queue = LmPostedTo(p, "stop", l)
      /\ LmSameRest(p, q) /\ LmSameNames(p, q)
  BY <1>1 DEF LmStopped, LmSameRest, LmSameNames, LmState
<1>4. /\ q.queue \in LmQueues
      /\ \A w \in LmWorkers : \A op2, l2 : LmHas(q, w, op2, l2) <=> LmHas(p, w, op2, l2) \/ (op2 = "stop" /\ l2 = l)
      /\ \A w \in LmWorkers : \A op2, l2 : ~(op2 = "stop" /\ l2 = l) => LmOrder(q, w, op2, l2, "stop", l)
  <2>. HIDE DEF q
  <2>. QED
    BY <1>1, <1>2, <1>3, LmPosted DEF LmOps
<1>5. q.left \in LmTagMap
  <2>1. Cardinality(LmWorkers) \in Nat
    BY LmAssumption, FS_CardinalityType
  <2>. QED
    BY <1>1, <1>3, <2>1 DEF LmTagMap
<1>6. q \in LmState
  <2>1. q = [p EXCEPT !.active = q.active, !.draining = q.draining, !.left = q.left, !.queue = q.queue]
    BY <1>1 DEF LmStopped, LmState
  <2>2. q.active \subseteq LmTags /\ q.draining \subseteq LmTags
    BY <1>1, <1>3
  <2>. HIDE DEF q
  <2>. QED
    BY <1>1, <1>4, <1>5, <2>1, <2>2 DEF LmState
<1>. HIDE DEF q
<1>7. LmBase(q)
  BY <1>3, <1>6, LmStopBase
<1>8. \A what, k, w : LmTold(q, what, k, w) <=> LmTold(p, what, k, w)
  BY <1>3 DEF LmTold, LmSameRest
<1>9. \A k : LmPending(q, k) = LmPending(p, k)
  BY <1>4, <1>8 DEF LmPending
<1>10. LmCounted(q)
  BY <1>1, <1>3, <1>9 DEF LmCounted, LmTagMap
<1>. QED
  BY <1>1, <1>3, <1>4, <1>6, <1>7, <1>10 DEF q

LmDrained(p, q, l) ==
    /\ LmTicked(LmStopped(p, l), q, l)

LEMMA LmDrainedOK ==
    ASSUME NEW p, LmBase(p), LmCounted(p), NEW l \in p.active, NEW q \in LmState, LmDrained(p, q, l)
    PROVE  /\ LmBase(q) /\ LmCounted(q) /\ LmSameRest(p, q)
           /\ q.active = p.active \ {l} /\ q.draining = p.draining \cup {l} /\ q.warming = p.warming
           /\ \A w \in LmWorkers : \A k : LmOrder(q, w, "add", k, "stop", l)
<1>. DEFINE s == LmStopped(p, l)
<1>1. /\ s \in LmState /\ LmBase(s) /\ LmCounted(s) /\ LmSameRest(p, s)
      /\ s.active = p.active \ {l} /\ s.draining = p.draining \cup {l} /\ s.warming = p.warming
      /\ s.ticks[l] = 0
      /\ \A w \in LmWorkers : \A k : LmOrder(s, w, "add", k, "stop", l)
  BY LmStoppedOK
<1>2. LmTicked(s, q, l)
  BY DEF LmDrained
<1>3. s.ticks[l] # LmDrainTime /\ l \in s.draining
  BY <1>1, LmAssumption
<1>. HIDE DEF s
<1>4. /\ LmBase(q) /\ LmCounted(q)
      /\ \A w \in LmWorkers : \A a, k, b, n : a # "remove" /\ LmOrder(s, w, a, k, b, n) => LmOrder(q, w, a, k, b, n)
  BY <1>1, <1>2, <1>3, LmTickedOK
<1>5. LmSameRest(p, q) /\ q.active = p.active \ {l} /\ q.draining = p.draining \cup {l} /\ q.warming = p.warming
  BY <1>1, <1>2 DEF LmTicked, LmSameRest
<1>6. \A w \in LmWorkers : \A k : LmOrder(q, w, "add", k, "stop", l)
  BY <1>1, <1>4
<1>. QED
  BY <1>4, <1>5, <1>6

\* The operators of the model, by their fields.
LEMMA LmPostedType ==
    ASSUME NEW p \in LmState, NEW op \in LmOps, NEW l \in LmTags
    PROVE  LmPostedTo(p, op, l) \in LmQueues
<1>1. LmPostOf(op, l) \in LmPosts
  BY LmPostsDiffer
<1>2. \A w \in LmWorkers : p.queue[w] \in Seq(LmPosts)
  BY LmTypes
<1>3. \A w \in LmWorkers : Append(p.queue[w], LmPostOf(op, l)) \in Seq(LmPosts)
  BY <1>1, <1>2
<1>. QED
  BY <1>3 DEF LmPostedTo, LmQueues

LEMMA LmPostIsOne ==
    ASSUME NEW p \in LmState, NEW op \in LmOps, NEW l \in LmTags
    PROVE  /\ lmPost(p, op, l) = [p EXCEPT !.queue = LmPostedTo(p, op, l)]
           /\ lmPost(p, op, l) \in LmState
<1>1. lmPost(p, op, l) = [p EXCEPT !.queue = LmPostedTo(p, op, l)]
  BY DEF lmPost, LmPostedTo, LmPostOf, LmState
<1>2. LmPostedTo(p, op, l) \in LmQueues
  BY LmPostedType
<1>. QED
  BY <1>1, <1>2 DEF LmState

LEMMA LmTickIs ==
    ASSUME NEW p \in LmState, NEW l \in LmTags
    PROVE  lmTick(p, l) \in LmState /\ LmTicked(p, lmTick(p, l), l) /\ LmSameNames(p, lmTick(p, l))
<1>. DEFINE t == [p EXCEPT !.ticks[l] = @ + 1]
<1>1. p.ticks \in LmTagMap /\ p.ticks[l] \in Nat
  BY LmTypes
<1>2. [p.ticks EXCEPT ![l] = @ + 1] \in LmTagMap
  BY <1>1 DEF LmTagMap
<1>3. /\ t \in LmState /\ t.ticks = [p.ticks EXCEPT ![l] = @ + 1] /\ LmSameRest(p, t) /\ LmSameNames(p, t)
      /\ t.active = p.active /\ t.warming = p.warming /\ t.draining = p.draining /\ t.left = p.left
      /\ t.queue = p.queue
  BY <1>2 DEF LmState, LmSameRest, LmSameNames
<1>4. t.ticks[l] = p.ticks[l] + 1
  BY <1>1, <1>3 DEF LmTagMap
<1>5. lmTick(p, l) = IF t.ticks[l] = LmDrainTime THEN lmPost(t, "remove", l) ELSE t
  BY DEF lmTick
<1>. HIDE DEF t
<1>6. CASE t.ticks[l] = LmDrainTime
  <2>1. lmPost(t, "remove", l) = [t EXCEPT !.queue = LmPostedTo(t, "remove", l)] /\ lmPost(t, "remove", l) \in LmState
    BY <1>3, LmPostIsOne DEF LmOps
  <2>2. LmPostedTo(t, "remove", l) = LmPostedTo(p, "remove", l)
    BY <1>3 DEF LmPostedTo
  <2>. DEFINE r == lmPost(t, "remove", l)
  <2>3. /\ r.queue = LmPostedTo(p, "remove", l) /\ r.ticks = t.ticks /\ LmSameRest(t, r) /\ LmSameNames(t, r)
        /\ r.active = t.active /\ r.warming = t.warming /\ r.draining = t.draining /\ r.left = t.left
    BY <1>3, <2>1, <2>2 DEF LmState, LmSameRest, LmSameNames
  <2>. HIDE DEF r
  <2>4. lmTick(p, l) = r
    BY <1>5, <1>6 DEF r
  <2>. QED
    BY <1>3, <1>4, <1>6, <2>1, <2>3, <2>4 DEF LmTicked, LmSameRest, LmSameNames, r
<1>7. CASE t.ticks[l] # LmDrainTime
  BY <1>3, <1>4, <1>5, <1>7 DEF LmTicked
<1>. QED
  BY <1>6, <1>7

LEMMA LmDrainIs ==
    ASSUME NEW p \in LmState, NEW l \in LmTags
    PROVE  lmDrain(p, l) \in LmState /\ LmDrained(p, lmDrain(p, l), l) /\ LmSameNames(p, lmDrain(p, l))
<1>. DEFINE t == [p EXCEPT !.active = @ \ {l}, !.draining = @ \cup {l}, !.left[l] = Cardinality(LmWorkers)]
            s == LmStopped(p, l)
<1>1. p.left \in LmTagMap /\ p.active \subseteq LmTags /\ p.draining \subseteq LmTags /\ Cardinality(LmWorkers) \in Nat
  BY LmTypes, LmAssumption, FS_CardinalityType
<1>2. [p.left EXCEPT ![l] = Cardinality(LmWorkers)] \in LmTagMap
  BY <1>1 DEF LmTagMap
<1>3. t = [p EXCEPT !.active = p.active \ {l}, !.draining = p.draining \cup {l}, !.left = [p.left EXCEPT ![l] = Cardinality(LmWorkers)]]
  BY DEF LmState
<1>4. t \in LmState /\ t.queue = p.queue
  BY <1>1, <1>2, <1>3 DEF LmState
<1>5. LmPostedTo(t, "stop", l) = LmPostedTo(p, "stop", l)
  BY <1>4 DEF LmPostedTo
<1>6. s = [t EXCEPT !.queue = LmPostedTo(p, "stop", l)]
  BY DEF LmStopped, LmState
<1>7. lmDrain(p, l) = lmTick(lmPost(t, "stop", l), l)
  BY DEF lmDrain
<1>8. LmSameNames(p, s)
  BY DEF LmStopped, LmState, LmSameNames
<1>. HIDE DEF t, s
<1>9. lmPost(t, "stop", l) = s /\ s \in LmState
  <2>1. "stop" \in LmOps
    BY DEF LmOps
  <2>2. lmPost(t, "stop", l) = [t EXCEPT !.queue = LmPostedTo(t, "stop", l)] /\ lmPost(t, "stop", l) \in LmState
    BY <1>4, <2>1, LmPostIsOne
  <2>. QED
    BY <1>5, <1>6, <2>2
<1>10. lmDrain(p, l) \in LmState /\ LmTicked(s, lmDrain(p, l), l) /\ LmSameNames(s, lmDrain(p, l))
  BY <1>7, <1>9, LmTickIs
<1>. QED
  BY <1>8, <1>10 DEF LmDrained, LmSameNames, s

\* Draining touches neither the other active listeners nor the warming ones.
LEMMA LmDrainedMoved ==
    ASSUME NEW p \in LmState, NEW q, NEW r \in LmState, NEW s, NEW o, LmDrained(p, q, o),
           LmSameRest(p, r), r.queue = p.queue, r.ticks = p.ticks, r.left = p.left, r.draining = p.draining,
           LmSameRest(q, s), s.queue = q.queue, s.ticks = q.ticks, s.left = q.left, s.draining = q.draining,
           s.active = r.active \ {o}, s.warming = r.warming
    PROVE  LmDrained(r, s, o)
<1>. DEFINE a == LmStopped(p, o)
            b == LmStopped(r, o)
<1>1. LmPostedTo(p, "stop", o) = LmPostedTo(r, "stop", o)
  BY DEF LmPostedTo
<1>2. /\ LmSameRest(a, b) /\ a.queue = b.queue /\ a.ticks = b.ticks /\ a.left = b.left /\ a.draining = b.draining
      /\ b.active = r.active \ {o} /\ b.warming = r.warming
  BY <1>1 DEF LmStopped, LmState, LmSameRest
<1>3. LmPostedTo(a, "remove", o) = LmPostedTo(b, "remove", o)
  BY <1>2 DEF LmPostedTo
<1>4. LmTicked(a, q, o)
  BY DEF LmDrained
<1>. HIDE DEF a, b
<1>5. LmTicked(b, s, o)
  BY <1>2, <1>3, <1>4 DEF LmTicked, LmSameRest
<1>. QED
  BY <1>5 DEF LmDrained, b

\* What draining and destroying listeners leaves alone.
LmSameSoFar(p, q) == q.started = p.started /\ q.next = p.next /\ q.threw = p.threw

LEMMA LmDrainAllOK ==
    ASSUME NEW p, LmOK(p), NEW ls, ls \subseteq p.active, \A a, b \in ls : a = b
    PROVE  LmOK(lmDrainAll(p, ls)) /\ LmSameSoFar(p, lmDrainAll(p, ls))
<1>1. CASE ls = {}
  BY <1>1 DEF lmDrainAll, LmSameSoFar
<1>2. CASE ls # {}
  <2>. DEFINE l == CHOOSE k \in ls : TRUE
              q == lmDrain(p, l)
  <2>1. l \in ls
    BY <1>2
  <2>2. lmDrainAll(p, ls) = q
    BY <1>2 DEF lmDrainAll
  <2>. HIDE DEF l
  <2>3. p \in LmState /\ LmBase(p) /\ LmCounted(p) /\ l \in p.active /\ l \in LmTags
    BY <2>1, LmTypes DEF LmOK, LmBase
  <2>4. q \in LmState /\ LmDrained(p, q, l) /\ LmSameNames(p, q)
    BY <2>3, LmDrainIs
  <2>. HIDE DEF q
  <2>5. /\ LmBase(q) /\ LmCounted(q) /\ LmSameRest(p, q)
        /\ q.active = p.active \ {l} /\ q.draining = p.draining \cup {l} /\ q.warming = p.warming
    BY <2>3, <2>4, LmDrainedOK
  <2>6. LmUnique(q, q.active) /\ LmUnique(q, q.warming)
    BY <2>4, <2>5 DEF LmOK, LmUnique, LmSameNames
  <2>7. LmShared(q)
    <3>1. LmLive(q) \cup q.warming = LmLive(p) \cup p.warming
      BY <2>3, <2>5 DEF LmLive
    <3>. QED
      BY <2>4, <3>1 DEF LmOK, LmShared, LmSameNames
  <2>. QED
    BY <2>2, <2>4, <2>5, <2>6, <2>7 DEF LmOK, LmSameSoFar, LmSameRest, LmSameNames
<1>. QED
  BY <1>1, <1>2

LmForgets(p, q, ls) ==
    /\ LmSameSoFar(p, q) /\ q.main = p.main /\ q.on = p.on /\ q.queue = p.queue
    /\ q.active = p.active \ ls /\ q.warming = p.warming \ ls /\ q.draining = p.draining \ ls /\ q.waits = p.waits \ ls
    /\ \A l \in LmTags : IF l \in ls THEN q.ticks[l] = 0 /\ q.by[l] = 0
                         ELSE /\ q.ticks[l] = p.ticks[l] /\ q.by[l] = p.by[l] /\ q.name[l] = p.name[l]
                              /\ q.socket[l] = p.socket[l] /\ q.left[l] = p.left[l]

LEMMA LmDestroyIs ==
    ASSUME NEW p \in LmState, NEW ls
    PROVE  lmDestroy(p, ls) \in LmState /\ LmForgets(p, lmDestroy(p, ls), ls)
<1>. DEFINE keep(f, none) == [l \in LmTags |-> IF l \in ls THEN none ELSE f[l]]
            q == lmDestroy(p, ls)
<1>1. /\ p.active \subseteq LmTags /\ p.warming \subseteq LmTags /\ p.draining \subseteq LmTags /\ p.waits \subseteq LmTags
      /\ p.name \in LmNameMap /\ p.socket \in LmTagMap /\ p.by \in LmTagMap /\ p.ticks \in LmTagMap /\ p.left \in LmTagMap
      /\ p.failed \subseteq LmTags
  BY LmTypes
<1>2. keep(p.name, "") \in LmNameMap
  BY <1>1 DEF LmNameMap
<1>3. \A f \in LmTagMap : keep(f, 0) \in LmTagMap
  BY DEF LmTagMap
<1>4. keep(p.socket, 0) \in LmTagMap /\ keep(p.by, 0) \in LmTagMap /\ keep(p.ticks, 0) \in LmTagMap /\ keep(p.left, 0) \in LmTagMap
  <2>. HIDE DEF keep
  <2>. QED
    BY <1>1, <1>3
<1>5. q = [p EXCEPT !.warming = p.warming \ ls, !.active = p.active \ ls, !.draining = p.draining \ ls, !.waits = p.waits \ ls,
                    !.name = keep(p.name, ""), !.socket = keep(p.socket, 0),
                    !.by = keep(p.by, 0), !.ticks = keep(p.ticks, 0), !.left = keep(p.left, 0), !.failed = p.failed \ ls]
  BY DEF lmDestroy, LmState
<1>6. \A f, none : \A l \in LmTags : keep(f, none)[l] = IF l \in ls THEN none ELSE f[l]
  OBVIOUS
<1>. HIDE DEF q, keep
<1>7. q \in LmState
  BY <1>1, <1>2, <1>4, <1>5 DEF LmState
<1>8. /\ LmSameSoFar(p, q) /\ q.main = p.main /\ q.on = p.on /\ q.queue = p.queue
      /\ q.active = p.active \ ls /\ q.warming = p.warming \ ls /\ q.draining = p.draining \ ls /\ q.waits = p.waits \ ls
      /\ q.name = keep(p.name, "") /\ q.socket = keep(p.socket, 0)
      /\ q.by = keep(p.by, 0) /\ q.ticks = keep(p.ticks, 0) /\ q.left = keep(p.left, 0)
  BY <1>5 DEF LmState, LmSameSoFar
<1>9. ASSUME NEW l \in LmTags
      PROVE  IF l \in ls THEN q.ticks[l] = 0 /\ q.by[l] = 0
             ELSE /\ q.ticks[l] = p.ticks[l] /\ q.by[l] = p.by[l] /\ q.name[l] = p.name[l]
                  /\ q.socket[l] = p.socket[l] /\ q.left[l] = p.left[l]
  <2>1. /\ keep(p.name, "")[l] = IF l \in ls THEN "" ELSE p.name[l]
        /\ keep(p.socket, 0)[l] = IF l \in ls THEN 0 ELSE p.socket[l]
    BY <1>6
  <2>2. /\ keep(p.by, 0)[l] = IF l \in ls THEN 0 ELSE p.by[l]
        /\ keep(p.ticks, 0)[l] = IF l \in ls THEN 0 ELSE p.ticks[l]
        /\ keep(p.left, 0)[l] = IF l \in ls THEN 0 ELSE p.left[l]
    BY <1>6
  <2>. QED
    BY <1>8, <2>1, <2>2
<1>10. LmForgets(p, q, ls)
  BY <1>8, <1>9 DEF LmForgets
<1>. QED
  BY <1>7, <1>10 DEF q

\* The invariant, but for the count of some listeners.
LmOKBut(p, ls) ==
    /\ LmBase(p) /\ LmUnique(p, p.active) /\ LmUnique(p, p.warming) /\ LmShared(p)
    /\ \A l \in p.draining \ ls :
          p.left[l] = Cardinality(IF p.ticks[l] = LmDrainTime THEN LmPending(p, l) ELSE LmWorkers)

LEMMA LmOKIsBut ==
    ASSUME NEW p, LmOK(p), NEW ls
    PROVE  LmOKBut(p, ls)
BY DEF LmOK, LmOKBut, LmCounted

LEMMA LmDestroyOK ==
    ASSUME NEW p, NEW ls, LmOKBut(p, ls), \A l \in ls : l \in LmTags /\ LmUnheld(p, l)
    PROVE  LmOK(lmDestroy(p, ls))
<1>. DEFINE q == lmDestroy(p, ls)
<1>1. p \in LmState /\ p.draining \subseteq LmTags /\ p.active \subseteq LmTags /\ p.warming \subseteq LmTags
  BY LmTypes DEF LmOKBut, LmBase
<1>2. q \in LmState /\ LmForgets(p, q, ls)
  BY <1>1, LmDestroyIs
<1>. HIDE DEF q
<1>3. LmBase(q)
  BY <1>2, LmGoneBase DEF LmOKBut, LmForgets, LmSameSoFar
<1>4. \A k : LmPending(q, k) = LmPending(p, k)
  BY <1>2 DEF LmPending, LmHas, LmTold, LmForgets
<1>5. LmCounted(q)
  BY <1>1, <1>2, <1>4 DEF LmCounted, LmForgets, LmOKBut
<1>6. LmUnique(q, q.active) /\ LmUnique(q, q.warming)
  BY <1>1, <1>2 DEF LmOKBut, LmUnique, LmForgets
<1>7. LmShared(q)
  BY <1>1, <1>2 DEF LmOKBut, LmShared, LmLive, LmForgets
<1>. QED
  BY <1>3, <1>5, <1>6, <1>7 DEF LmOK, q

\* Nothing refers to a listener that is warming, or to any before the workers start.
LEMMA LmNotHeld ==
    ASSUME NEW p, LmBase(p), NEW l, l \in p.warming \/ (l \in p.active /\ ~p.started)
    PROVE  l \in LmTags /\ LmUnheld(p, l)
<1>1. l \in LmTags /\ l \notin p.draining /\ (p.started => l \notin LmLive(p))
  BY LmTypes DEF LmBase, LmListed, LmLive
<1>2. ASSUME NEW w \in LmWorkers
      PROVE  /\ \A op \in LmOps : ~LmHas(p, w, op, l)
             /\ \A what \in {"failed", "removed"} : ~LmTold(p, what, l, w)
             /\ p.on[w][l] = "none"
  <2>1. LmQueued(p, w, l) /\ LmTabled(p, w, l) /\ LmAnswered(p, w, l)
    BY <1>1 DEF LmBase
  <2>. QED
    BY <1>1, <2>1 DEF LmQueued, LmTabled, LmAnswered, LmOps
<1>. QED
  BY <1>1, <1>2 DEF LmUnheld

LEMMA LmRemoveOK ==
    ASSUME NEW p, LmOK(p), NEW name
    PROVE  LmOK(lmRemove(p, name)) /\ LmSameSoFar(p, lmRemove(p, name))
<1>. DEFINE ws == lmNamed(p, p.warming, name)
            as == lmNamed(p, p.active, name)
            q == lmDestroy(p, ws)
<1>1. p \in LmState /\ LmBase(p) /\ LmListed(p)
  BY DEF LmOK, LmBase
<1>2. ws \subseteq p.warming /\ as \subseteq p.active /\ as \cap ws = {}
  BY <1>1 DEF lmNamed, LmListed
<1>3. \A a, b \in as : a = b
  BY DEF LmOK, LmUnique, lmNamed
<1>. HIDE DEF ws, as
<1>4. \A l \in ws : l \in LmTags /\ LmUnheld(p, l)
  BY <1>1, <1>2, LmNotHeld
<1>5. LmOK(q)
  BY <1>4, LmOKIsBut, LmDestroyOK
<1>6. LmForgets(p, q, ws)
  BY <1>1, LmDestroyIs
<1>. HIDE DEF q
<1>7. as \subseteq q.active
  BY <1>2, <1>6 DEF LmForgets
<1>8. LmOK(lmDrainAll(q, as)) /\ LmSameSoFar(q, lmDrainAll(q, as))
  BY <1>3, <1>5, <1>7, LmDrainAllOK
<1>9. lmRemove(p, name) = lmDrainAll(q, as)
  BY DEF lmRemove, q, as, ws
<1>. QED
  BY <1>6, <1>8, <1>9 DEF LmForgets, LmSameSoFar

\* A listener that has warmed is posted and becomes active; the one it replaces drains.
LmJoins(p, l) == [p EXCEPT !.queue = LmPostedTo(p, "add", l), !.active = @ \cup {l}, !.warming = @ \ {l}]

LEMMA LmJoinsOK ==
    ASSUME NEW p, LmOK(p), NEW l \in p.warming
    PROVE  LET q == LmJoins(p, l)
           IN  /\ q \in LmState /\ LmBase(q) /\ LmCounted(q) /\ LmSameRest(p, q) /\ LmSameNames(p, q)
               /\ q.active = p.active \cup {l} /\ q.warming = p.warming \ {l} /\ q.draining = p.draining
               /\ q.ticks = p.ticks /\ q.left = p.left /\ q.queue = LmPostedTo(p, "add", l)
<1>. DEFINE q == LmJoins(p, l)
<1>1. p \in LmState /\ l \in LmTags /\ p.active \subseteq LmTags /\ p.warming \subseteq LmTags /\ LmBase(p) /\ l \notin LmLive(p)
  BY LmTypes DEF LmOK, LmBase, LmListed, LmLive
<1>2. LmPostedTo(p, "add", l) \in LmQueues
  BY <1>1, LmPostedType DEF LmOps
<1>3. /\ q \in LmState /\ LmSameRest(p, q) /\ LmSameNames(p, q)
      /\ q.active = p.active \cup {l} /\ q.warming = p.warming \ {l} /\ q.draining = p.draining
      /\ q.ticks = p.ticks /\ q.left = p.left /\ q.queue = LmPostedTo(p, "add", l)
  BY <1>1, <1>2 DEF LmJoins, LmState, LmSameRest, LmSameNames
<1>. HIDE DEF q
<1>4. LmBase(q)
  BY <1>1, <1>3, LmAddBase
<1>5. \A w \in LmWorkers : ~LmHas(p, w, "add", l)
  BY <1>1 DEF LmBase, LmQueued
<1>6. \A w \in LmWorkers : \A op2, l2 : LmHas(q, w, op2, l2) <=> LmHas(p, w, op2, l2) \/ (op2 = "add" /\ l2 = l)
  BY <1>1, <1>3, <1>5, LmPosted DEF LmOps
<1>7. \A what, k, w : LmTold(q, what, k, w) <=> LmTold(p, what, k, w)
  BY <1>3 DEF LmTold, LmSameRest
<1>8. \A k : LmPending(q, k) = LmPending(p, k)
  BY <1>6, <1>7 DEF LmPending
<1>9. LmCounted(q)
  BY <1>3, <1>8, LmCountedSame DEF LmOK
<1>. QED
  BY <1>3, <1>4, <1>9 DEF q

LEMMA LmOnWarmedOK ==
    ASSUME NEW p, LmOK(p), NEW l \in p.warming
    PROVE  LmOK(lmOnWarmed(p, l)) /\ LmSameSoFar(p, lmOnWarmed(p, l))
<1>. DEFINE old == lmNamed(p, p.active, p.name[l])
            r == LmJoins(p, l)
            p1 == lmPost(p, "add", l)
            p2 == lmDrainAll(p1, old)
            by == [k \in LmTags |-> IF k \in old THEN l ELSE p2.by[k]]
            q == lmOnWarmed(p, l)
<1>1. /\ p \in LmState /\ LmBase(p) /\ LmListed(p) /\ l \in LmTags /\ l \notin p.active /\ p.active \subseteq LmTags
      /\ p.warming \subseteq LmTags /\ p.started /\ l \notin p.draining
  BY LmTypes DEF LmOK, LmBase, LmListed
<1>2. /\ r \in LmState /\ LmBase(r) /\ LmCounted(r) /\ LmSameRest(p, r) /\ LmSameNames(p, r)
      /\ r.active = p.active \cup {l} /\ r.warming = p.warming \ {l} /\ r.draining = p.draining
      /\ r.ticks = p.ticks /\ r.left = p.left /\ r.queue = LmPostedTo(p, "add", l)
  BY LmJoinsOK
<1>3. /\ p1 \in LmState /\ LmSameRest(p, p1) /\ LmSameNames(p, p1)
      /\ p1.active = p.active /\ p1.warming = p.warming /\ p1.draining = p.draining
      /\ p1.ticks = p.ticks /\ p1.left = p.left /\ p1.queue = LmPostedTo(p, "add", l)
  <2>1. p1 = [p EXCEPT !.queue = LmPostedTo(p, "add", l)] /\ p1 \in LmState
    BY <1>1, LmPostIsOne DEF LmOps
  <2>. QED
    BY <1>1, <2>1 DEF LmState, LmSameRest, LmSameNames
<1>4. old \subseteq p.active /\ \A a, b \in old : a = b
  BY DEF LmOK, LmUnique, lmNamed
<1>5. \A k \in p.active : k \notin old => p.name[k] # p.name[l]
  BY DEF lmNamed
<1>6. q = [p2 EXCEPT !.active = p2.active \cup {l}, !.warming = p2.warming \ {l}, !.by = by] \/ p2 \notin LmState
  BY DEF lmOnWarmed, LmState
<1>. HIDE DEF old, r, p1
\* It is enough to find a state s in which the invariant holds and which is q but for by.
<1>7. ASSUME NEW s \in LmState, LmBase(s), LmCounted(s), LmSameNames(p, s), LmSameRest(p, s),
             s.active = (p.active \ old) \cup {l}, s.warming = p.warming \ {l}, s.draining = p.draining \cup old,
             q \in LmState, q.active = s.active, q.warming = s.warming, q.draining = s.draining, LmSameNames(s, q),
             q.started = s.started, q.next = s.next, q.main = s.main, q.on = s.on, q.queue = s.queue, q.ticks = s.ticks,
             q.left = s.left, LmBase(q)
      PROVE  LmOK(q) /\ LmSameSoFar(p, q)
  <2>. HIDE DEF q
  <2>1. \A k : LmPending(q, k) = LmPending(s, k)
    BY <1>7 DEF LmPending, LmHas, LmTold
  <2>2. LmCounted(q)
    BY <1>7, <2>1, LmCountedSame
  <2>3. q.name = p.name /\ q.socket = p.socket
    BY <1>7 DEF LmSameNames
  <2>4. LmUnique(q, q.active)
    BY <1>5, <1>7, <2>3 DEF LmUnique, LmOK
  <2>5. LmUnique(q, q.warming)
    BY <1>7, <2>3 DEF LmUnique, LmOK
  <2>6. LmShared(q)
    <3>1. LmLive(q) \cup q.warming = LmLive(p) \cup p.warming
      BY <1>4, <1>7 DEF LmLive
    <3>. QED
      BY <2>3, <3>1 DEF LmShared, LmOK
  <2>. QED
    BY <1>7, <2>2, <2>4, <2>5, <2>6 DEF LmOK, LmSameSoFar, LmSameNames, LmSameRest
<1>8. CASE old = {}
  <2>1. p2 = p1
    BY <1>8 DEF lmDrainAll
  <2>2. by = p1.by
    <3>1. p1.by \in [LmTags -> Nat]
      BY <1>3, LmTypes DEF LmTagMap
    <3>. QED
      BY <1>8, <2>1, <3>1
  <2>. HIDE DEF p2, by
  <2>3. q = [p1 EXCEPT !.active = p1.active \cup {l}, !.warming = p1.warming \ {l}, !.by = p1.by]
    BY <1>3, <1>6, <2>1, <2>2
  <2>. HIDE DEF q
  <2>4. /\ q \in LmState /\ LmSameRest(p1, q) /\ LmSameNames(p1, q)
        /\ q.active = p1.active \cup {l} /\ q.warming = p1.warming \ {l} /\ q.draining = p1.draining
        /\ q.ticks = p1.ticks /\ q.left = p1.left /\ q.queue = p1.queue
    <3>1. p1.active \cup {l} \subseteq LmTags /\ p1.warming \ {l} \subseteq LmTags
      BY <1>1, <1>3
    <3>. QED
      BY <1>3, <2>3, <3>1 DEF LmState, LmSameRest, LmSameNames
  <2>5. LmSameRest(r, q)
    BY <1>2, <1>3, <2>4 DEF LmSameRest
  <2>6. LmBase(q)
    BY <1>2, <1>3, <2>4, <2>5, LmBaseSame
  <2>7. LmSameNames(r, q)
    BY <1>2, <1>3, <2>4 DEF LmSameNames
  <2>. QED
    BY <1>2, <1>3, <1>7, <1>8, <2>4, <2>5, <2>6, <2>7 DEF LmSameRest, q
<1>9. CASE old # {}
  <2>. DEFINE o == CHOOSE k \in old : TRUE
  <2>1. o \in old
    BY <1>9
  <2>2. p2 = lmDrain(p1, o)
    BY <1>9 DEF lmDrainAll
  <2>. HIDE DEF o, p2
  <2>3. old = {o} /\ o \in p.active /\ o # l /\ o \in LmTags
    BY <1>1, <1>4, <2>1
  <2>4. p2 \in LmState /\ LmDrained(p1, p2, o) /\ LmSameNames(p1, p2)
    BY <1>3, <2>2, <2>3, LmDrainIs
  <2>5. LmSameRest(p1, p2) /\ p2.active = p1.active \ {o} /\ p2.warming = p1.warming /\ p2.draining = p1.draining \cup {o}
    BY <1>3, <2>4 DEF LmDrained, LmTicked, LmStopped, LmState, LmSameRest
  <2>6. by \in LmTagMap /\ by[o] = l /\ \A k \in LmTags \ {o} : by[k] = p.by[k]
    <3>1. p2.by = p.by /\ p.by \in [LmTags -> Nat] /\ l \in Nat
      BY <1>1, <1>3, <2>5, LmTypes DEF LmSameRest, LmTagMap, LmTags
    <3>. QED
      BY <2>3, <3>1 DEF LmTagMap
  <2>. HIDE DEF by
  <2>. DEFINE s == [p2 EXCEPT !.active = p2.active \cup {l}, !.warming = p2.warming \ {l}]
  <2>7. p2.active \cup {l} \subseteq LmTags /\ p2.warming \ {l} \subseteq LmTags
    BY <1>1, <1>3, <2>5
  <2>8. /\ s \in LmState /\ LmSameRest(p2, s) /\ LmSameNames(p2, s)
        /\ s.active = p2.active \cup {l} /\ s.warming = p2.warming \ {l} /\ s.draining = p2.draining
        /\ s.ticks = p2.ticks /\ s.left = p2.left /\ s.queue = p2.queue
    BY <2>4, <2>7 DEF LmState, LmSameRest, LmSameNames
  <2>9. q = [s EXCEPT !.by = by]
    BY <1>6, <2>4 DEF LmState
  <2>. HIDE DEF s, q
  <2>10. /\ q \in LmState /\ LmSameNames(s, q) /\ q.started = s.started /\ q.next = s.next /\ q.main = s.main /\ q.on = s.on
         /\ q.active = s.active /\ q.warming = s.warming /\ q.draining = s.draining
         /\ q.ticks = s.ticks /\ q.left = s.left /\ q.queue = s.queue /\ q.by = by
    BY <2>6, <2>8, <2>9 DEF LmState, LmSameNames
  <2>11. s.active = r.active \ {o} /\ s.warming = r.warming /\ LmSameRest(p1, r)
    <3>1. s.active = r.active \ {o}
      BY <1>2, <1>3, <2>3, <2>5, <2>8
    <3>2. s.warming = r.warming
      BY <1>2, <1>3, <2>5, <2>8
    <3>. QED
      BY <1>2, <1>3, <3>1, <3>2 DEF LmSameRest
  <2>12. LmDrained(r, s, o)
    BY <1>2, <1>3, <2>4, <2>8, <2>11, LmDrainedMoved
  <2>13. o \in r.active
    BY <1>2, <2>3
  <2>14. /\ LmBase(s) /\ LmCounted(s) /\ LmSameRest(r, s)
         /\ s.active = r.active \ {o} /\ s.draining = r.draining \cup {o} /\ s.warming = r.warming
         /\ \A w \in LmWorkers : \A k : LmOrder(s, w, "add", k, "stop", o)
    BY <1>2, <2>8, <2>12, <2>13, LmDrainedOK
  <2>15. l \in s.active /\ o \in s.draining /\ s.started
    BY <1>1, <1>2, <2>3, <2>14 DEF LmSameRest
  <2>16. \A k \in LmTags \ {o} : q.by[k] = s.by[k]
    BY <1>2, <2>6, <2>10, <2>14 DEF LmSameRest
  <2>17. LmBase(q)
    BY <2>6, <2>10, <2>14, <2>15, <2>16, LmByBase
  <2>18. LmSameNames(p, s) /\ LmSameRest(p, s)
    BY <1>2, <1>3, <2>4, <2>8, <2>14 DEF LmSameNames, LmSameRest
  <2>19. s.active = (p.active \ old) \cup {l} /\ s.warming = p.warming \ {l} /\ s.draining = p.draining \cup old
    BY <1>2, <2>3, <2>14
  <2>. QED
    BY <1>7, <2>8, <2>10, <2>14, <2>17, <2>18, <2>19 DEF q
<1>. QED
  BY <1>8, <1>9 DEF q

\* The socket of a new listener is that of every other, if there is another.
LEMMA LmSocketOf ==
    ASSUME NEW p, LmOK(p), NEW name, lmSocket(p, name) # {}
    PROVE  LET z == CHOOSE s \in lmSocket(p, name) : TRUE
           IN  z \in Nat /\ \A k \in LmLive(p) \cup p.warming : p.socket[k] = z
<1>. DEFINE same == lmNamed(p, p.warming \cup p.active, name)
            from == IF same # {} THEN same ELSE p.draining
            z == CHOOSE s \in lmSocket(p, name) : TRUE
<1>1. p \in LmState /\ LmLive(p) \cup p.warming \subseteq LmTags /\ p.next \in Nat
  BY LmTypes DEF LmOK, LmBase, LmLive
<1>2. from \subseteq LmLive(p) \cup p.warming
  BY DEF lmNamed, LmLive
<1>3. lmSocket(p, name) = CASE from # {} -> {p.socket[CHOOSE l \in from : TRUE]}
                            [] from = {} /\ p.active \cup p.warming = {} -> {p.next}
                            [] OTHER -> {}
  BY DEF lmSocket
<1>4. from = {} => p.draining = {}
  OBVIOUS
<1>. HIDE DEF from
<1>5. CASE from # {}
  <2>. DEFINE o == CHOOSE l \in from : TRUE
  <2>1. o \in from
    BY <1>5
  <2>. HIDE DEF o
  <2>2. lmSocket(p, name) = {p.socket[o]}
    BY <1>3, <1>5 DEF o
  <2>3. z = p.socket[o]
    BY <2>2
  <2>4. o \in LmLive(p) \cup p.warming /\ o \in LmTags
    BY <1>1, <1>2, <2>1
  <2>5. p.socket[o] \in Nat
    BY <1>1, <2>4, LmTypes
  <2>6. \A k \in LmLive(p) \cup p.warming : p.socket[k] = p.socket[o]
    BY <2>4 DEF LmOK, LmShared
  <2>. HIDE DEF z
  <2>. QED
    BY <2>3, <2>5, <2>6 DEF z
<1>6. CASE from = {}
  <2>1. p.active \cup p.warming = {} /\ lmSocket(p, name) = {p.next}
    BY <1>3, <1>6
  <2>2. z = p.next
    BY <2>1
  <2>3. LmLive(p) \cup p.warming = {}
    BY <1>4, <1>6, <2>1 DEF LmLive
  <2>. HIDE DEF z
  <2>. QED
    BY <1>1, <2>2, <2>3 DEF z
<1>. QED
  BY <1>5, <1>6

\* A listener is created, by its fields.
LmBorn(p, q, name, socket) ==
    /\ q.next = p.next + 1 /\ q.started = p.started /\ q.threw = p.threw
    /\ q.main = p.main /\ q.on = p.on /\ q.queue = p.queue /\ q.ticks = p.ticks /\ q.by = p.by /\ q.left = p.left
    /\ q.draining = p.draining
    /\ q.active = (IF p.started THEN p.active ELSE p.active \cup {p.next})
    /\ q.warming = (IF p.started THEN p.warming \cup {p.next} ELSE p.warming)
    /\ q.name = [p.name EXCEPT ![p.next] = name] /\ q.socket = [p.socket EXCEPT ![p.next] = socket]

LEMMA LmBornOK ==
    ASSUME NEW p, LmOK(p), p.next <= LmMaxListeners, NEW q \in LmState, NEW name, NEW socket,
           LmBorn(p, q, name, socket), lmNamed(p, IF p.started THEN p.warming ELSE p.active, name) = {},
           \A k \in LmLive(p) \cup p.warming : p.socket[k] = socket
    PROVE  LmOK(q)
<1>1. /\ p \in LmState /\ LmBase(p) /\ LmListed(p) /\ LmLive(p) \cup p.warming \subseteq LmTags
      /\ p.active \subseteq LmTags /\ p.warming \subseteq LmTags /\ p.next \in LmTags
      /\ p.name \in LmNameMap /\ p.socket \in LmTagMap
  <2>1. p \in LmState /\ LmBase(p) /\ LmListed(p)
    BY DEF LmOK, LmBase
  <2>2. p.next \in LmTags
    BY <2>1, LmTypes, LmAssumption DEF LmTags
  <2>. QED
    BY <2>1, <2>2, LmTypes DEF LmLive
<1>2. LmBase(q)
  BY <1>1, LmBornBase DEF LmBorn
<1>3. \A k : LmPending(q, k) = LmPending(p, k)
  BY DEF LmPending, LmHas, LmTold, LmBorn
<1>4. LmCounted(q)
  BY <1>3, LmCountedSame DEF LmBorn, LmOK
<1>5. p.next \notin LmLive(p) \cup p.warming
  <2>1. \A k \in LmLive(p) \cup p.warming : k < p.next /\ k \in Nat
    BY <1>1 DEF LmListed, LmTags
  <2>. QED
    BY <2>1
<1>6. /\ q.name[p.next] = name /\ q.socket[p.next] = socket
      /\ \A k \in LmTags : k # p.next => q.name[k] = p.name[k] /\ q.socket[k] = p.socket[k]
  BY <1>1 DEF LmNameMap, LmTagMap, LmBorn
<1>7. LmUnique(q, q.active)
  <2>. SUFFICES ASSUME NEW l \in q.active, NEW o \in q.active, q.name[l] = q.name[o] PROVE l = o
    BY DEF LmUnique
  <2>1. \A k \in p.active : k # p.next /\ k \in LmTags
    BY <1>1, <1>5 DEF LmLive
  <2>2. \A k \in p.active : ~p.started => p.name[k] # name
    BY DEF lmNamed
  <2>3. \A k, n \in p.active : p.name[k] = p.name[n] => k = n
    BY DEF LmOK, LmUnique
  <2>4. l \in p.active \/ (~p.started /\ l = p.next)
    BY DEF LmBorn
  <2>5. o \in p.active \/ (~p.started /\ o = p.next)
    BY DEF LmBorn
  <2>. QED
    BY <1>6, <2>1, <2>2, <2>3, <2>4, <2>5
<1>8. LmUnique(q, q.warming)
  <2>. SUFFICES ASSUME NEW l \in q.warming, NEW o \in q.warming, q.name[l] = q.name[o] PROVE l = o
    BY DEF LmUnique
  <2>1. \A k \in p.warming : k # p.next /\ k \in LmTags
    BY <1>1, <1>5
  <2>2. \A k \in p.warming : p.started => p.name[k] # name
    BY DEF lmNamed
  <2>3. \A k, n \in p.warming : p.name[k] = p.name[n] => k = n
    BY DEF LmOK, LmUnique
  <2>4. l \in p.warming \/ (p.started /\ l = p.next)
    BY DEF LmBorn
  <2>5. o \in p.warming \/ (p.started /\ o = p.next)
    BY DEF LmBorn
  <2>. QED
    BY <1>6, <2>1, <2>2, <2>3, <2>4, <2>5
<1>9. LmShared(q)
  <2>1. \A k \in LmLive(q) \cup q.warming : k \in LmLive(p) \cup p.warming \/ k = p.next
    BY DEF LmLive, LmBorn
  <2>2. \A k \in LmLive(q) \cup q.warming : q.socket[k] = socket
    BY <1>1, <1>5, <1>6, <2>1
  <2>. QED
    BY <2>2 DEF LmShared
<1>. QED
  BY <1>2, <1>4, <1>7, <1>8, <1>9 DEF LmOK

LEMMA LmAddOrUpdateOK ==
    ASSUME NEW p, LmOK(p), NEW name \in LmNames, NEW says, says \in LmSays \ {"absent"}, NEW slow \in BOOLEAN,
           says = "new" => p.next <= LmMaxListeners
    PROVE  LET q == lmAddOrUpdate(p, name, says, slow)
           IN  LmOK(q) /\ (q.next = p.next \/ (says = "new" /\ q.next = p.next + 1))
<1>. DEFINE l == p.next
            socket == lmSocket(p, name)
            z == CHOOSE s \in socket : TRUE
            old == lmNamed(p, IF p.started THEN p.warming ELSE p.active, name)
            d == lmDestroy(p, old)
            q == [d EXCEPT !.next = @ + 1, !.name[l] = name, !.socket[l] = z,
                           !.warming = IF p.started THEN @ \cup {l} ELSE @,
                           !.active = IF p.started THEN @ ELSE @ \cup {l},
                           !.waits = IF slow THEN @ \cup {l} ELSE @]
            r == lmAddOrUpdate(p, name, says, slow)
<1>1. p \in LmState /\ LmBase(p) /\ LmListed(p) /\ LmLive(p) \cup p.warming \subseteq LmTags
  BY LmTypes DEF LmOK, LmBase, LmLive
<1>2. CASE says \in {"active", "warming"}
  BY <1>2 DEF lmAddOrUpdate
<1>3. CASE says = "moved" \/ (says = "new" /\ socket = {})
  <2>1. r = [p EXCEPT !.threw = TRUE]
    <3>1. says \notin {"active", "warming"}
      BY <1>3
    <3>. QED
      BY <1>3, <3>1 DEF lmAddOrUpdate
  <2>2. /\ r \in LmState /\ LmSameRest(p, r) /\ r.active = p.active /\ r.warming = p.warming /\ r.draining = p.draining
        /\ r.ticks = p.ticks /\ r.queue = p.queue /\ r.left = p.left /\ r.name = p.name /\ r.socket = p.socket /\ r.next = p.next
    BY <1>1, <2>1 DEF LmState, LmSameRest
  <2>. HIDE DEF r
  <2>3. LmBase(r)
    BY <1>1, <2>2, LmBaseSame
  <2>4. \A k : LmPending(r, k) = LmPending(p, k)
    BY <2>2 DEF LmPending, LmHas, LmTold, LmSameRest
  <2>5. LmCounted(r)
    BY <2>2, <2>4, LmCountedSame DEF LmOK
  <2>6. LmUnique(r, r.active) /\ LmUnique(r, r.warming) /\ LmShared(r)
    BY <2>2 DEF LmOK, LmUnique, LmShared, LmLive
  <2>. QED
    BY <2>2, <2>3, <2>5, <2>6 DEF LmOK, r
<1>4. CASE says = "new" /\ socket # {}
  <2>1. r = IF p.started /\ ~slow THEN lmOnWarmed(q, l) ELSE q
    <3>1. says \notin {"active", "warming"} /\ ~(says = "moved" \/ (says = "new" /\ socket = {}))
      BY <1>4
    <3>. HIDE DEF socket
    <3>. QED
      BY <3>1 DEF lmAddOrUpdate, socket
  <2>2. z \in Nat /\ \A k \in LmLive(p) \cup p.warming : p.socket[k] = z
    BY <1>4, LmSocketOf
  <2>. HIDE DEF z, socket
  <2>3. \A k \in old : k \in LmTags /\ LmUnheld(p, k)
    <3>. SUFFICES ASSUME NEW k \in old PROVE k \in LmTags /\ LmUnheld(p, k)
      OBVIOUS
    <3>1. k \in p.warming \/ (k \in p.active /\ ~p.started)
      BY DEF lmNamed
    <3>. QED
      BY <1>1, <3>1, LmNotHeld
  <2>4. lmNamed(p, (IF p.started THEN p.warming ELSE p.active) \ old, name) = {}
    BY DEF lmNamed
  <2>. HIDE DEF old
  <2>5. LmOK(d) /\ d \in LmState /\ LmForgets(p, d, old)
    BY <1>1, <2>3, LmOKIsBut, LmDestroyOK, LmDestroyIs
  <2>6. /\ d.next = l /\ d.started = p.started /\ LmLive(d) \cup d.warming \subseteq LmLive(p) \cup p.warming
        /\ l <= LmMaxListeners /\ l \in LmTags
    BY <1>1, <1>4, <2>5, LmTypes, LmAssumption DEF LmForgets, LmSameSoFar, LmLive, LmTags
  <2>7. lmNamed(d, IF d.started THEN d.warming ELSE d.active, name) = {}
    <3>1. (IF d.started THEN d.warming ELSE d.active) = (IF p.started THEN p.warming ELSE p.active) \ old
      BY <2>5 DEF LmForgets, LmSameSoFar
    <3>2. \A k \in (IF p.started THEN p.warming ELSE p.active) \ old : d.name[k] = p.name[k]
      BY <1>1, <2>5 DEF LmForgets, LmLive
    <3>. QED
      BY <2>4, <3>1, <3>2 DEF lmNamed
  <2>8. \A k \in LmLive(d) \cup d.warming : d.socket[k] = z
    <3>1. \A k \in LmLive(d) \cup d.warming : k \in LmTags /\ k \notin old
      BY <1>1, <2>5, <2>6 DEF LmForgets, LmLive
    <3>. QED
      BY <2>2, <2>5, <2>6, <3>1 DEF LmForgets
  <2>9. /\ q = [d EXCEPT !.next = q.next, !.name = q.name, !.socket = q.socket, !.warming = q.warming, !.active = q.active,
                         !.waits = q.waits]
        /\ q.next = d.next + 1 /\ q.name = [d.name EXCEPT ![l] = name] /\ q.socket = [d.socket EXCEPT ![l] = z]
        /\ q.warming = (IF p.started THEN d.warming \cup {l} ELSE d.warming)
        /\ q.active = (IF p.started THEN d.active ELSE d.active \cup {l})
        /\ q.waits = (IF slow THEN d.waits \cup {l} ELSE d.waits)
        /\ q.started = d.started /\ q.threw = d.threw
        /\ q.main = d.main /\ q.on = d.on /\ q.queue = d.queue /\ q.ticks = d.ticks /\ q.by = d.by /\ q.left = d.left
        /\ q.draining = d.draining
    <3>. HIDE DEF d, l
    <3>. QED
      BY <2>5 DEF LmState
  <2>. HIDE DEF q, d, l
  <2>10. q \in LmState
    <3>1. /\ d.next \in Nat \ {0} /\ d.name \in LmNameMap /\ d.socket \in LmTagMap /\ d.warming \subseteq LmTags
          /\ d.active \subseteq LmTags /\ d.waits \subseteq LmTags
      BY <2>5, LmTypes
    <3>2. q.name \in LmNameMap
      BY <2>6, <2>9, <3>1 DEF LmNameMap
    <3>3. q.socket \in LmTagMap
      BY <2>2, <2>6, <2>9, <3>1 DEF LmTagMap
    <3>4. q.next \in Nat \ {0}
      BY <2>9, <3>1
    <3>5. q.warming \subseteq LmTags /\ q.active \subseteq LmTags /\ q.waits \subseteq LmTags
      BY <2>6, <2>9, <3>1
    <3>. QED
      BY <2>5, <2>9, <3>2, <3>3, <3>4, <3>5 DEF LmState
  <2>11. LmBorn(d, q, name, z)
    BY <2>6, <2>9 DEF LmBorn
  <2>12. LmOK(q)
    BY <2>5, <2>6, <2>7, <2>8, <2>10, <2>11, LmBornOK
  <2>13. q.next = p.next + 1
    BY <2>6, <2>9 DEF l
  <2>14. CASE p.started /\ ~slow
    <3>1. l \in q.warming
      BY <2>9, <2>14
    <3>2. LmOK(lmOnWarmed(q, l)) /\ LmSameSoFar(q, lmOnWarmed(q, l))
      BY <2>12, <3>1, LmOnWarmedOK
    <3>. QED
      BY <1>4, <2>1, <2>13, <2>14, <3>2 DEF LmSameSoFar
  <2>15. CASE ~(p.started /\ ~slow)
    BY <1>4, <2>1, <2>12, <2>13, <2>15
  <2>. QED
    BY <2>14, <2>15
<1>. QED
  BY <1>2, <1>3, <1>4 DEF LmSays

\* The names of an update, in some order.
LEMMA LmNamesOrdered ==
    ASSUME NEW order \in SetToSeqs(LmNames)
    PROVE  /\ Len(order) \in Nat /\ DOMAIN order = 1..Len(order)
           /\ \A i \in 1..Len(order) : order[i] \in LmNames
           /\ \A i, j \in 1..Len(order) : i # j => order[i] # order[j]
<1>. DEFINE n == Cardinality(LmNames)
<1>1. n \in Nat
  BY LmAssumption, FS_CardinalityType
<1>2. order \in [1..n -> LmNames] /\ \A i, j \in 1..n : i # j => order[i] # order[j]
  BY DEF SetToSeqs
<1>. HIDE DEF n
<1>3. order \in Seq(LmNames) /\ Len(order) = n
  BY <1>1, <1>2
<1>. QED
  BY <1>1, <1>2, <1>3

\* The names still to come that an update gives a new listener.
LmNews(update) == {name \in LmNames : update[name] = "new"}
LmToCome(order, update, i) == LmNews(update) \ {order[j] : j \in 1..i}

LEMMA LmToComeStep ==
    ASSUME NEW order \in SetToSeqs(LmNames), NEW update, NEW i \in 1..Len(order)
    PROVE  /\ Cardinality(LmToCome(order, update, i)) \in Nat
           /\ Cardinality(LmToCome(order, update, i - 1)) =
                 Cardinality(LmToCome(order, update, i)) + (IF update[order[i]] = "new" THEN 1 ELSE 0)
<1>. DEFINE a == LmToCome(order, update, i - 1)
            b == LmToCome(order, update, i)
<1>1. /\ Len(order) \in Nat /\ i - 1 \in Nat /\ order[i] \in LmNames
      /\ \A j \in 1..(i - 1) : j \in 1..Len(order) /\ j # i /\ j \in 1..i
      /\ \A j \in 1..i : j = i \/ j \in 1..(i - 1)
  BY LmNamesOrdered
<1>2. \A j \in 1..(i - 1) : order[j] # order[i]
  BY <1>1, LmNamesOrdered
<1>3. {order[j] : j \in 1..i} = {order[j] : j \in 1..(i - 1)} \cup {order[i]}
  BY <1>1
<1>4. b = a \ {order[i]}
  BY <1>3 DEF LmToCome
<1>5. order[i] \in a <=> update[order[i]] = "new"
  BY <1>1, <1>2 DEF LmToCome, LmNews
<1>6. IsFiniteSet(a)
  <2>1. a \subseteq LmNames
    BY DEF LmToCome, LmNews
  <2>. QED
    BY <2>1, LmAssumption, FS_Subset
<1>. HIDE DEF a, b
<1>7. Cardinality(a) \in Nat /\ IsFiniteSet(b) /\ Cardinality(b) \in Nat
  BY <1>4, <1>6, FS_CardinalityType, FS_Subset
<1>8. CASE update[order[i]] = "new"
  <2>1. Cardinality(b) = Cardinality(a) - 1
    BY <1>4, <1>5, <1>6, <1>8, FS_RemoveElement
  <2>. QED
    BY <1>7, <1>8, <2>1 DEF a, b
<1>9. CASE update[order[i]] # "new"
  <2>1. b = a
    BY <1>4, <1>5, <1>9
  <2>. QED
    BY <1>7, <1>9, <2>1 DEF a, b
<1>. QED
  BY <1>8, <1>9

\* One turn of the loop over the listeners of an update.
LmAddTurn(x, order, update, slow, i) ==
    IF x.threw \/ update[order[i]] = "absent" THEN x ELSE lmAddOrUpdate(x, order[i], update[order[i]], slow)

\* There is room for the listeners to come.
LmFits(x, order, update, i) ==
    x \in LmState /\ LmOK(x) /\ x.next + Cardinality(LmToCome(order, update, i)) <= LmMaxListeners + 1

LEMMA LmAddTurnFits ==
    ASSUME NEW order \in SetToSeqs(LmNames), NEW update \in [LmNames -> LmSays], NEW slow \in BOOLEAN,
           NEW i \in 1..Len(order), NEW x, LmFits(x, order, update, i - 1)
    PROVE  /\ LmFits(LmAddTurn(x, order, update, slow, i), order, update, i)
           /\ update[order[i]] = "new" => x.next <= LmMaxListeners
<1>. DEFINE c == Cardinality(LmToCome(order, update, i))
            says == update[order[i]]
            y == LmAddTurn(x, order, update, slow, i)
            name == order[i]
<1>1. c \in Nat /\ Cardinality(LmToCome(order, update, i - 1)) = c + (IF says = "new" THEN 1 ELSE 0)
  BY LmToComeStep
<1>2. name \in LmNames /\ says \in LmSays
  BY LmNamesOrdered
<1>3. LmOK(x) /\ x \in LmState /\ x.next \in Nat /\ LmMaxListeners \in Nat
  BY LmTypes, LmAssumption DEF LmFits
<1>4. x.next + c + (IF says = "new" THEN 1 ELSE 0) <= LmMaxListeners + 1
  <2>1. x.next + Cardinality(LmToCome(order, update, i - 1)) <= LmMaxListeners + 1
    BY DEF LmFits
  <2>. HIDE DEF c, says
  <2>. QED
    BY <1>1, <1>3, <2>1
<1>5. y = IF x.threw \/ says = "absent" THEN x ELSE lmAddOrUpdate(x, name, says, slow)
  BY DEF LmAddTurn
<1>6. LmFits(y, order, update, i) <=> y \in LmState /\ LmOK(y) /\ y.next + c <= LmMaxListeners + 1
  BY DEF LmFits
<1>. HIDE DEF c, says, y, name
<1>7. says = "new" => x.next <= LmMaxListeners
  BY <1>1, <1>3, <1>4
<1>8. CASE x.threw \/ says = "absent"
  <2>1. y = x
    BY <1>5, <1>8
  <2>2. x.next + c <= LmMaxListeners + 1
    BY <1>1, <1>3, <1>4
  <2>. QED
    BY <1>3, <1>6, <1>7, <2>1, <2>2 DEF y, says
<1>9. CASE ~(x.threw \/ says = "absent")
  <2>1. y = lmAddOrUpdate(x, name, says, slow)
    BY <1>5, <1>9
  <2>2. LmOK(y) /\ (y.next = x.next \/ (says = "new" /\ y.next = x.next + 1))
    BY <1>2, <1>3, <1>7, <1>9, <2>1, LmAddOrUpdateOK
  <2>3. y \in LmState
    BY <2>2 DEF LmOK, LmBase
  <2>4. y.next + c <= LmMaxListeners + 1
    BY <1>1, <1>3, <1>4, <2>2
  <2>. QED
    BY <1>6, <1>7, <2>2, <2>3, <2>4 DEF y, says
<1>. QED
  BY <1>8, <1>9

LEMMA LmAddListedOK ==
    ASSUME NEW p, LmOK(p), NEW order \in SetToSeqs(LmNames), NEW update \in [LmNames -> LmSays], NEW slow \in BOOLEAN,
           p.next + Cardinality(LmNews(update)) <= LmMaxListeners + 1
    PROVE  LmOK(lmAddListed(p, order, update, slow))
<1>. DEFINE N == Len(order)
            S == {x \in LmState : LmOK(x)}
            turn(x, i) == LmAddTurn(x, order, update, slow, i)
            fits(x, i) == LmFits(x, order, update, i)
            F == [y \in S \X (1..N) |-> IF fits(y[1], y[2] - 1) THEN turn(y[1], y[2]) ELSE y[1]]
            T == {y \in S \X (0..N) : fits(y[1], y[2])}
            W(w) == w = [i \in 0..N |-> IF i = 0 THEN p
                                        ELSE IF w[i - 1].threw \/ update[order[i]] = "absent" THEN w[i - 1]
                                             ELSE lmAddOrUpdate(w[i - 1], order[i], update[order[i]], slow)]
            w0 == CHOOSE w : W(w)
<1>1. N \in Nat
  BY LmNamesOrdered
<1>2. \A x, i : fits(x, i) => x \in S
  BY DEF LmFits
<1>3. \A i \in 1..N : \A x : fits(x, i - 1) => fits(turn(x, i), i)
  BY LmAddTurnFits
<1>4. p \in S /\ fits(p, 0)
  <2>1. 1..0 = {}
    OBVIOUS
  <2>2. LmToCome(order, update, 0) = LmNews(update)
    BY <2>1 DEF LmToCome
  <2>. QED
    BY <2>2 DEF LmFits, LmOK, LmBase
<1>. HIDE DEF S, turn, fits
<1>5. F \in [S \X (1..N) -> S] /\ \A x \in S, i \in 1..N : fits(x, i - 1) => F[<<x, i>>] = turn(x, i)
  <2>1. \A x \in S, i \in 1..N : (IF fits(x, i - 1) THEN turn(x, i) ELSE x) \in S
    BY <1>2, <1>3
  <2>. QED
    BY <2>1
<1>. HIDE DEF F
<1>6. \A x, i : i \in 0..N => (<<x, i>> \in T <=> fits(x, i))
  BY <1>2
<1>. HIDE DEF T, N
<1>7. PICK g : g \in [0..N -> S] /\ g[0] = p /\ \A i \in 1..N : g[i] = F[<<g[i - 1], i>>]
  <2>1. \E g : LoopOf(g, S, p, N, F)
    BY <1>1, <1>4, <1>5, LoopExists
  <2>. QED
    BY <2>1 DEF LoopOf
<1>8. 0 \in 0..N /\ \A i \in 1..N : i - 1 \in 0..N /\ i \in 0..N
  BY <1>1
<1>9. \A i \in 0..N : fits(g[i], i)
  <2>1. <<g[0], 0>> \in T
    BY <1>4, <1>6, <1>7, <1>8
  <2>2. \A i \in 1..N : <<g[i - 1], i - 1>> \in T => <<g[i], i>> \in T
    <3>. SUFFICES ASSUME NEW i \in 1..N, <<g[i - 1], i - 1>> \in T PROVE <<g[i], i>> \in T
      OBVIOUS
    <3>1. fits(g[i - 1], i - 1) /\ g[i - 1] \in S
      BY <1>2, <1>6, <1>8
    <3>2. g[i] = turn(g[i - 1], i)
      BY <1>5, <1>7, <3>1
    <3>. QED
      BY <1>3, <1>6, <1>8, <3>1, <3>2
  <2>3. \A i \in 0..N : <<g[i], i>> \in T
    BY <1>1, <2>1, <2>2, LoopKeeps
  <2>. QED
    BY <1>6, <2>3
<1>10. \A i \in 1..N : g[i] = turn(g[i - 1], i)
  BY <1>2, <1>5, <1>7, <1>8, <1>9
<1>11. W(g)
  <2>1. \A i \in 0..N : i # 0 => i \in 1..N
    BY <1>1
  <2>2. \A i \in 0..N : g[i] = IF i = 0 THEN p
                               ELSE IF g[i - 1].threw \/ update[order[i]] = "absent" THEN g[i - 1]
                                    ELSE lmAddOrUpdate(g[i - 1], order[i], update[order[i]], slow)
    BY <1>7, <1>10, <2>1 DEF turn, LmAddTurn
  <2>3. g = [i \in 0..N |-> g[i]]
    BY <1>7
  <2>. QED
    BY <2>2, <2>3
<1>12. W(w0)
  BY <1>11
<1>13. lmAddListed(p, order, update, slow) = w0[N]
  BY DEF lmAddListed, N
<1>. HIDE DEF w0
<1>14. w0[0] = p /\ \A i \in 1..N : w0[i] = turn(w0[i - 1], i)
  <2>1. \A i \in 1..N : i # 0
    BY <1>1
  <2>. QED
    BY <1>8, <1>12, <2>1 DEF turn, LmAddTurn
<1>15. <<w0[N], N>> \in T
  <2>1. <<w0[0], 0>> \in T
    BY <1>4, <1>6, <1>8, <1>14
  <2>2. \A i \in 1..N : <<w0[i - 1], i - 1>> \in T => <<w0[i], i>> \in T
    BY <1>3, <1>6, <1>8, <1>14
  <2>3. \A i \in 0..N : <<w0[i], i>> \in T
    BY <1>1, <2>1, <2>2, LoopKeeps
  <2>. QED
    BY <1>1, <2>3
<1>16. fits(w0[N], N)
  BY <1>1, <1>6, <1>15
<1>. QED
  BY <1>13, <1>16 DEF fits, LmFits

LEMMA LmRemoveOthersOK ==
    ASSUME NEW p, LmOK(p), NEW order \in SetToSeqs(LmNames), NEW update, NEW known
    PROVE  LmOK(lmRemoveOthers(p, order, update, known))
<1>. DEFINE N == Len(order)
            S == {x \in LmState : LmOK(x)}
            turn(x, i) == IF x.threw \/ update[order[i]] # "absent" \/ order[i] \notin known THEN x ELSE lmRemove(x, order[i])
            F == [y \in S \X (1..N) |-> turn(y[1], y[2])]
            W(w) == w = [i \in 0..N |-> IF i = 0 THEN p
                                        ELSE IF w[i - 1].threw \/ update[order[i]] # "absent" \/ order[i] \notin known THEN w[i - 1]
                                             ELSE lmRemove(w[i - 1], order[i])]
            w0 == CHOOSE w : W(w)
<1>1. N \in Nat
  BY LmNamesOrdered
<1>2. \A x : LmOK(x) <=> x \in S
  BY DEF LmOK, LmBase
<1>3. \A x \in S, i \in 1..N : turn(x, i) \in S
  <2>. HIDE DEF S, N
  <2>. QED
    BY <1>2, LmRemoveOK
<1>4. p \in S
  BY <1>2
<1>. HIDE DEF S, turn
<1>5. F \in [S \X (1..N) -> S] /\ \A x \in S, i \in 1..N : F[<<x, i>>] = turn(x, i)
  BY <1>3
<1>. HIDE DEF F, N
<1>6. PICK g : g \in [0..N -> S] /\ g[0] = p /\ \A i \in 1..N : g[i] = F[<<g[i - 1], i>>]
  <2>1. \E g : LoopOf(g, S, p, N, F)
    BY <1>1, <1>4, <1>5, LoopExists
  <2>. QED
    BY <2>1 DEF LoopOf
<1>7. \A i \in 1..N : i - 1 \in 0..N /\ i \in 0..N
  BY <1>1
<1>8. \A i \in 1..N : g[i] = turn(g[i - 1], i)
  BY <1>5, <1>6, <1>7
<1>9. W(g)
  <2>1. \A i \in 0..N : i # 0 => i \in 1..N
    BY <1>1
  <2>2. \A i \in 0..N : g[i] = IF i = 0 THEN p
                               ELSE IF g[i - 1].threw \/ update[order[i]] # "absent" \/ order[i] \notin known THEN g[i - 1]
                                    ELSE lmRemove(g[i - 1], order[i])
    BY <1>6, <1>8, <2>1 DEF turn
  <2>3. g = [i \in 0..N |-> g[i]]
    BY <1>6
  <2>. QED
    BY <2>2, <2>3
<1>10. W(w0)
  BY <1>9
<1>11. lmRemoveOthers(p, order, update, known) = w0[N]
  BY DEF lmRemoveOthers, N
<1>. HIDE DEF w0
<1>12. w0[0] = p /\ \A i \in 1..N : w0[i] = turn(w0[i - 1], i)
  <2>1. 0 \in 0..N /\ \A i \in 1..N : i # 0
    BY <1>1
  <2>. QED
    BY <1>7, <1>10, <2>1 DEF turn
<1>13. w0[N] \in S
  <2>1. w0[0] \in S
    BY <1>4, <1>12
  <2>2. \A i \in 1..N : w0[i - 1] \in S => w0[i] \in S
    BY <1>3, <1>12
  <2>3. N \in Nat
    BY <1>1
  <2>. QED
    BY <2>1, <2>2, <2>3, LoopStays
<1>. QED
  BY <1>2, <1>11, <1>13

----------------------------------------------------------------------------
\* The actions.

LEMMA LmOKSame ==
    ASSUME NEW p, LmOK(p), NEW q \in LmState, LmSameRest(p, q), q.active = p.active, q.warming = p.warming,
           q.draining = p.draining, q.ticks = p.ticks, q.queue = p.queue, q.left = p.left, q.name = p.name, q.socket = p.socket
    PROVE  LmOK(q)
<1>1. LmBase(q)
  BY LmBaseSame DEF LmOK
<1>2. \A k : LmPending(q, k) = LmPending(p, k)
  BY DEF LmPending, LmHas, LmTold, LmSameRest
<1>3. LmCounted(q)
  BY <1>2, LmCountedSame DEF LmOK
<1>4. LmUnique(q, q.active) /\ LmUnique(q, q.warming) /\ LmShared(q)
  BY DEF LmOK, LmUnique, LmShared, LmLive
<1>. QED
  BY <1>1, <1>3, <1>4 DEF LmOK

\* The invariant after a step that moves no listener between the lists.
LEMMA LmOKStep ==
    ASSUME NEW p, LmOK(p), NEW q, LmBase(q), LmCounted(q), q.active = p.active, q.warming = p.warming,
           q.draining = p.draining, q.name = p.name, q.socket = p.socket
    PROVE  LmOK(q)
BY DEF LmOK, LmUnique, LmShared, LmLive

LEMMA LmInitOK == LmInit => LmInv
<1>. SUFFICES ASSUME LmInit PROVE LmOK(lm)
  BY DEF LmInv
<1>1. /\ ~lm.started /\ lm.next = 1 /\ lm.active = {} /\ lm.warming = {} /\ lm.draining = {} /\ lm.main = <<>>
      /\ lm.ticks = [l \in LmTags |-> 0] /\ lm.by = [l \in LmTags |-> 0]
      /\ lm.queue = [w \in LmWorkers |-> <<>>] /\ lm.on = [w \in LmWorkers |-> [l \in LmTags |-> "none"]]
  BY DEF LmInit
<1>2. lm \in LmState
  <2>1. [l \in LmTags |-> 0] \in LmTagMap /\ [l \in LmTags |-> ""] \in LmNameMap
    BY DEF LmTagMap, LmNameMap
  <2>2. [w \in LmWorkers |-> <<>>] \in LmQueues
    BY DEF LmQueues
  <2>3. [w \in LmWorkers |-> [l \in LmTags |-> "none"]] \in LmTables
    BY DEF LmTables
  <2>4. <<>> \in Seq(LmAnswers) /\ 1 \in Nat \ {0}
    OBVIOUS
  <2>. QED
    BY <2>1, <2>2, <2>3, <2>4 DEF LmInit, LmState
<1>3. \A l \in LmTags : lm.ticks[l] = 0 /\ lm.by[l] = 0
  BY <1>1
<1>4. LmListed(lm) /\ LmLive(lm) = {}
  BY <1>1, <1>3, LmAssumption DEF LmListed, LmLive
<1>5. /\ \A w \in LmWorkers : LmOnce(lm.queue[w]) /\ \A op, l : ~LmHas(lm, w, op, l)
      /\ LmOnce(lm.main) /\ \A what, l, w : ~LmTold(lm, what, l, w)
  BY <1>1, LmEmpty DEF LmHas, LmTold
<1>6. \A w \in LmWorkers, l \in LmTags : lm.on[w][l] = "none"
  BY <1>1
<1>7. \A w \in LmWorkers, l \in LmTags : LmQueued(lm, w, l) /\ LmTabled(lm, w, l) /\ LmAnswered(lm, w, l)
  BY <1>1, <1>5, <1>6 DEF LmQueued, LmTabled, LmAnswered
<1>8. \A l \in LmTags : LmReplaced(lm, l)
  BY <1>3 DEF LmReplaced
<1>9. LmCounted(lm) /\ LmUnique(lm, lm.active) /\ LmUnique(lm, lm.warming) /\ LmShared(lm)
  BY <1>1, <1>4 DEF LmCounted, LmUnique, LmShared
<1>. QED
  BY <1>2, <1>4, <1>5, <1>7, <1>8, <1>9 DEF LmOK, LmBase

LEMMA LmReadyStep ==
    ASSUME LmInv, NEW l \in LmTags, LmReady(l)
    PROVE  LmInv'
<1>. DEFINE p == [lm EXCEPT !.waits = @ \ {l}]
<1>1. LmOK(lm) /\ lm \in LmState /\ lm.waits \subseteq LmTags
  BY LmTypes DEF LmInv, LmOK, LmBase
<1>2. /\ p \in LmState /\ LmSameRest(lm, p) /\ p.active = lm.active /\ p.warming = lm.warming /\ p.draining = lm.draining
      /\ p.ticks = lm.ticks /\ p.queue = lm.queue /\ p.left = lm.left /\ p.name = lm.name /\ p.socket = lm.socket
  BY <1>1 DEF LmState, LmSameRest
<1>3. lm' = IF l \in lm.warming THEN lmOnWarmed(p, l) ELSE p
  BY DEF LmReady
<1>. HIDE DEF p
<1>4. LmOK(p)
  BY <1>1, <1>2, LmOKSame
<1>5. l \in lm.warming => LmOK(lmOnWarmed(p, l))
  BY <1>2, <1>4, LmOnWarmedOK
<1>6. LmOK(lm')
  BY <1>3, <1>4, <1>5
<1>. QED
  BY <1>6 DEF LmInv

LEMMA LmTickStep ==
    ASSUME LmInv, NEW l \in LmTags, LmTick(l)
    PROVE  LmInv'
<1>. DEFINE q == lmTick(lm, l)
<1>1. LmOK(lm) /\ LmBase(lm) /\ LmCounted(lm) /\ lm \in LmState /\ lm.ticks[l] \in Nat
  BY LmTypes DEF LmInv, LmOK, LmBase
<1>2. l \in lm.draining /\ lm.ticks[l] # LmDrainTime /\ lm' = q
  BY <1>1, LmAssumption DEF LmTick
<1>3. q \in LmState /\ LmTicked(lm, q, l) /\ LmSameNames(lm, q)
  BY <1>1, LmTickIs
<1>. HIDE DEF q
<1>4. LmBase(q) /\ LmCounted(q)
  BY <1>1, <1>2, <1>3, LmTickedOK
<1>5. LmOK(q)
  BY <1>1, <1>3, <1>4, LmOKStep DEF LmTicked, LmSameNames
<1>. QED
  BY <1>2, <1>5 DEF LmInv

LEMMA LmLdsStep ==
    ASSUME LmInv, NEW order \in SetToSeqs(LmNames), NEW update \in LmUpdates, NEW slow \in BOOLEAN, LmLds(order, update, slow)
    PROVE  LmInv'
<1>. DEFINE known == {lm.name[l] : l \in lm.active}
            p == lmAddListed(lm, order, update, slow)
            q == lmRemoveOthers(p, order, update, known)
<1>1. LmOK(lm)
  BY DEF LmInv
<1>2. update \in [LmNames -> LmSays]
  BY DEF LmUpdates
<1>3. lm.next + Cardinality(LmNews(update)) <= LmMaxListeners + 1 /\ lm' = [q EXCEPT !.threw = FALSE]
  BY DEF LmLds, LmNews, lmOnConfigUpdate
<1>. HIDE DEF p, known
<1>4. LmOK(p)
  BY <1>1, <1>2, <1>3, LmAddListedOK DEF p
<1>5. LmOK(q)
  BY <1>4, LmRemoveOthersOK
<1>. HIDE DEF q
<1>. DEFINE r == [q EXCEPT !.threw = FALSE]
<1>6. q \in LmState
  BY <1>5 DEF LmOK, LmBase
<1>7. /\ r \in LmState /\ LmSameRest(q, r) /\ r.active = q.active /\ r.warming = q.warming /\ r.draining = q.draining
      /\ r.ticks = q.ticks /\ r.queue = q.queue /\ r.left = q.left /\ r.name = q.name /\ r.socket = q.socket
  BY <1>6 DEF LmState, LmSameRest
<1>. HIDE DEF r
<1>8. LmOK(r)
  BY <1>5, <1>7, LmOKSame
<1>. QED
  BY <1>3, <1>8 DEF LmInv, r

LEMMA LmStartStep ==
    ASSUME LmInv, NEW order \in SetToSeqs(lm.active), LmStart(order)
    PROVE  LmInv'
<1>. DEFINE adds == [i \in DOMAIN order |-> [op |-> "add", l |-> order[i]]]
            q == [lm EXCEPT !.started = TRUE, !.queue = [w \in LmWorkers |-> lm.queue[w] \o LmAdds(order)]]
<1>1. LmOK(lm) /\ LmBase(lm) /\ LmCounted(lm) /\ lm \in LmState /\ lm.active \subseteq LmTags
  BY LmTypes DEF LmInv, LmOK, LmBase
<1>2. adds = LmAdds(order)
  BY DEF LmAdds, LmPostOf
<1>3. ~lm.started /\ lm' = q
  BY <1>1, <1>2 DEF LmStart, LmState
<1>4. IsFiniteSet(lm.active)
  <2>1. IsFiniteSet(LmTags)
    BY FS_Interval, LmAssumption DEF LmTags
  <2>. QED
    BY <1>1, <2>1, FS_Subset
<1>5. LmAdds(order) \in Seq(LmPosts)
  BY <1>1, <1>4, LmAddsOf
<1>6. [w \in LmWorkers |-> lm.queue[w] \o LmAdds(order)] \in LmQueues
  <2>1. \A w \in LmWorkers : lm.queue[w] \in Seq(LmPosts)
    BY <1>1, LmTypes
  <2>2. \A w \in LmWorkers : lm.queue[w] \o LmAdds(order) \in Seq(LmPosts)
    BY <1>5, <2>1
  <2>. QED
    BY <2>2 DEF LmQueues
<1>7. /\ q \in LmState /\ LmBegins(lm, q, order)
      /\ q.started /\ q.next = lm.next /\ q.by = lm.by /\ q.active = lm.active /\ q.warming = lm.warming
      /\ q.draining = lm.draining /\ q.ticks = lm.ticks /\ q.main = lm.main /\ q.on = lm.on
      /\ q.left = lm.left /\ q.name = lm.name /\ q.socket = lm.socket
  BY <1>1, <1>6 DEF LmState, LmBegins
<1>. HIDE DEF q
<1>8. LmBase(q) /\ \A k : LmPending(q, k) = LmPending(lm, k)
  BY <1>1, <1>3, <1>7, LmStartBase
<1>9. LmCounted(q)
  BY <1>1, <1>7, <1>8, LmCountedSame
<1>10. LmOK(q)
  BY <1>1, <1>7, <1>8, <1>9, LmOKStep
<1>. QED
  BY <1>3, <1>10 DEF LmInv

\* The posts of a worker, and its table, after it has taken one.
LEMMA LmTakeTypes ==
    ASSUME NEW p \in LmState, NEW v \in LmWorkers, p.queue[v] # <<>>
    PROVE  /\ [p.queue EXCEPT ![v] = Tail(p.queue[v])] \in LmQueues
           /\ Head(p.queue[v]) \in LmPosts
<1>1. p.queue \in LmQueues /\ p.queue[v] \in Seq(LmPosts)
  BY LmTypes
<1>2. Tail(p.queue[v]) \in Seq(LmPosts) /\ Head(p.queue[v]) \in LmPosts
  BY <1>1
<1>. QED
  BY <1>1, <1>2 DEF LmQueues

LmTableWith(table, worker, tag, state) == [table EXCEPT ![worker][tag] = state]

LEMMA LmTableSet ==
    ASSUME NEW table \in LmTables, NEW worker \in LmWorkers, NEW tag \in LmTags, NEW state,
           state = "none" \/ state = "listening" \/ state = "stopped"
    PROVE  /\ LmTableWith(table, worker, tag, state) \in LmTables
           /\ LmTableWith(table, worker, tag, state)[worker][tag] = state
           /\ \A w \in LmWorkers, k \in LmTags :
                 ~(w = worker /\ k = tag) => LmTableWith(table, worker, tag, state)[w][k] = table[w][k]
BY DEF LmTables, LmTableWith

LEMMA LmAnswerType ==
    ASSUME NEW p \in LmState, NEW what \in LmWhats, NEW l \in LmTags, NEW v \in LmWorkers
    PROVE  Append(p.main, LmAnswerOf(what, l, v)) \in Seq(LmAnswers)
<1>1. LmAnswerOf(what, l, v) \in LmAnswers
  BY LmAnswersDiffer
<1>2. p.main \in Seq(LmAnswers)
  BY LmTypes
<1>. QED
  BY <1>1, <1>2

LEMMA LmWorkerStep ==
    ASSUME LmInv, NEW v \in LmWorkers, NEW ok \in BOOLEAN, LmWorker(v, ok)
    PROVE  LmInv'
<1>. DEFINE m == Head(lm.queue[v])
            p == [lm EXCEPT !.queue[v] = Tail(@)]
            l == m.l
            Q == [lm.queue EXCEPT ![v] = Tail(lm.queue[v])]
<1>1. /\ LmOK(lm) /\ LmBase(lm) /\ LmCounted(lm) /\ lm \in LmState /\ lm.on \in LmTables
      /\ lm.on[v] \in [LmTags -> {"none", "listening", "stopped"}]
  BY LmTypes DEF LmInv, LmOK, LmBase
<1>2. lm.started /\ lm.queue[v] # <<>>
  BY DEF LmWorker
<1>3. lm' = CASE m.op = "add" -> lmAdded(p, v, l, ok)
              [] m.op = "stop" -> lmStopped(p, v, l)
              [] m.op = "remove" -> lmAnswer(lmRemoved(p, v, l), v, l, "removed")
  BY DEF LmWorker
<1>4. Q \in LmQueues /\ m \in LmPosts /\ m.op \in LmOps /\ l \in LmTags
  BY <1>1, <1>2, LmTakeTypes, LmPostIs
<1>5. p = [lm EXCEPT !.queue = Q]
  BY <1>1 DEF LmState
<1>6. lm.on[v][l] \in {"none", "listening", "stopped"}
  BY <1>1, <1>4, LmTypes
<1>7. \A q, op : m.op = op /\ q.queue = Q => LmPop(lm, q, v, op, l)
  BY <1>2 DEF LmPop
<1>. HIDE DEF Q, p, l, m
\* Whatever it does, what the lists of listeners say stands.
<1>8. ASSUME NEW q \in LmState, LmBase(q), LmMainSame(lm, q), q.left = lm.left, q.name = lm.name, q.socket = lm.socket,
             \A k : LmPending(q, k) = LmPending(lm, k)
      PROVE  LmOK(q)
  <2>1. LmCounted(q)
    BY <1>1, <1>8, LmCountedSame DEF LmMainSame
  <2>. QED
    BY <1>1, <1>8, <2>1, LmOKStep DEF LmMainSame
<1>9. CASE m.op = "add" /\ ok
  <2>. DEFINE t == LmTableWith(lm.on, v, l, "listening")
              q == [lm EXCEPT !.queue = Q, !.on = t]
  <2>1. lm' = q
    <3>1. lm' = lmAdded(p, v, l, ok)
      BY <1>3, <1>9
    <3>. QED
      BY <1>1, <1>5, <1>9, <3>1 DEF lmAdded, LmState, LmTableWith
  <2>2. t \in LmTables /\ t[v][l] = "listening" /\ \A w \in LmWorkers, k \in LmTags : ~(w = v /\ k = l) => t[w][k] = lm.on[w][k]
    BY <1>1, <1>4, LmTableSet
  <2>. HIDE DEF t
  <2>3. /\ q \in LmState /\ LmMainSame(lm, q) /\ q.main = lm.main /\ q.on = t /\ q.queue = Q
        /\ q.left = lm.left /\ q.name = lm.name /\ q.socket = lm.socket
    BY <1>1, <1>4, <2>2 DEF LmState, LmMainSame
  <2>. HIDE DEF q
  <2>4. LmPop(lm, q, v, "add", l)
    BY <1>7, <1>9, <2>3
  <2>5. LmBase(q) /\ \A k : LmPending(q, k) = LmPending(lm, k)
    BY <1>1, <2>2, <2>3, <2>4, LmListensBase
  <2>6. LmOK(q)
    BY <1>8, <2>3, <2>5
  <2>. QED
    BY <2>1, <2>6 DEF LmInv
<1>10. CASE m.op = "add" /\ ~ok
  <2>. DEFINE a == Append(lm.main, LmAnswerOf("failed", l, v))
              q == [lm EXCEPT !.queue = Q, !.main = a]
  <2>1. lm' = q
    <3>1. lm' = lmAdded(p, v, l, ok)
      BY <1>3, <1>10
    <3>2. lm' = [p EXCEPT !.main = Append(p.main, LmAnswerOf("failed", l, v))]
      BY <1>10, <3>1 DEF lmAdded, lmAnswer, LmAnswerOf
    <3>. QED
      BY <1>1, <1>5, <3>2 DEF LmState
  <2>2. a \in Seq(LmAnswers)
    BY <1>1, <1>4, LmAnswerType DEF LmWhats
  <2>. HIDE DEF a
  <2>3. /\ q \in LmState /\ LmMainSame(lm, q) /\ q.main = a /\ q.on = lm.on /\ q.queue = Q
        /\ q.left = lm.left /\ q.name = lm.name /\ q.socket = lm.socket
    BY <1>1, <1>4, <2>2 DEF LmState, LmMainSame
  <2>. HIDE DEF q
  <2>4. LmPop(lm, q, v, "add", l) /\ LmAnswering(lm, q, "failed", l, v)
    BY <1>7, <1>10, <2>3 DEF LmAnswering, a
  <2>5. LmBase(q) /\ \A k : LmPending(q, k) = LmPending(lm, k)
    BY <1>1, <2>3, <2>4, LmFailsBase
  <2>6. LmOK(q)
    BY <1>8, <2>3, <2>5
  <2>. QED
    BY <2>1, <2>6 DEF LmInv
<1>11. CASE m.op = "stop"
  <2>. DEFINE x == IF lm.on[v][l] = "listening" THEN "stopped" ELSE lm.on[v][l]
              t == LmTableWith(lm.on, v, l, x)
              q == [lm EXCEPT !.queue = Q, !.on = t]
  <2>1. lm' = q
    <3>1. lm' = lmStopped(p, v, l)
      BY <1>3, <1>11
    <3>2. p.on = lm.on
      BY <1>1, <1>5 DEF LmState
    <3>3. lm' = [p EXCEPT !.on = [lm.on EXCEPT ![v] = [lm.on[v] EXCEPT ![l] = x]]]
      BY <3>1, <3>2 DEF lmStopped
    <3>. QED
      BY <1>1, <1>5, <3>3 DEF LmState, LmTableWith
  <2>2. x \in {"none", "listening", "stopped"}
    BY <1>6
  <2>3. x = IF lm.on[v][l] = "listening" THEN "stopped" ELSE lm.on[v][l]
    OBVIOUS
  <2>. HIDE DEF x
  <2>4. t \in LmTables /\ t[v][l] = x /\ \A w \in LmWorkers, k \in LmTags : ~(w = v /\ k = l) => t[w][k] = lm.on[w][k]
    BY <1>1, <1>4, <2>2, LmTableSet
  <2>. HIDE DEF t
  <2>5. /\ q \in LmState /\ LmMainSame(lm, q) /\ q.main = lm.main /\ q.on = t /\ q.queue = Q
        /\ q.left = lm.left /\ q.name = lm.name /\ q.socket = lm.socket
    BY <1>1, <1>4, <2>4 DEF LmState, LmMainSame
  <2>. HIDE DEF q
  <2>6. LmPop(lm, q, v, "stop", l)
    BY <1>7, <1>11, <2>5
  <2>7. LmBase(q) /\ \A k : LmPending(q, k) = LmPending(lm, k)
    BY <1>1, <2>3, <2>4, <2>5, <2>6, LmStopsBase
  <2>8. LmOK(q)
    BY <1>8, <2>5, <2>7
  <2>. QED
    BY <2>1, <2>8 DEF LmInv
<1>12. CASE m.op = "remove"
  <2>. DEFINE a == Append(lm.main, LmAnswerOf("removed", l, v))
              t == LmTableWith(lm.on, v, l, "none")
              q == [lm EXCEPT !.queue = Q, !.on = t, !.main = a]
  <2>1. lm' = q
    <3>1. lm' = lmAnswer(lmRemoved(p, v, l), v, l, "removed")
      BY <1>3, <1>12
    <3>2. lmRemoved(p, v, l) = [lm EXCEPT !.queue = Q, !.on = t]
      BY <1>1, <1>5 DEF lmRemoved, LmState, LmTableWith
    <3>3. lmRemoved(p, v, l).main = lm.main
      BY <1>1, <3>2 DEF LmState
    <3>4. lm' = [lmRemoved(p, v, l) EXCEPT !.main = a]
      BY <3>1, <3>3 DEF lmAnswer, LmAnswerOf
    <3>. QED
      BY <1>1, <3>2, <3>4 DEF LmState
  <2>2. a \in Seq(LmAnswers)
    BY <1>1, <1>4, LmAnswerType DEF LmWhats
  <2>3. t \in LmTables /\ t[v][l] = "none" /\ \A w \in LmWorkers, k \in LmTags : ~(w = v /\ k = l) => t[w][k] = lm.on[w][k]
    BY <1>1, <1>4, LmTableSet
  <2>. HIDE DEF a, t
  <2>4. /\ q \in LmState /\ LmMainSame(lm, q) /\ q.main = a /\ q.on = t /\ q.queue = Q
        /\ q.left = lm.left /\ q.name = lm.name /\ q.socket = lm.socket
    BY <1>1, <1>4, <2>2, <2>3 DEF LmState, LmMainSame
  <2>. HIDE DEF q
  <2>5. LmPop(lm, q, v, "remove", l) /\ LmAnswering(lm, q, "removed", l, v)
    BY <1>7, <1>12, <2>4 DEF LmAnswering, a
  <2>6. LmBase(q) /\ \A k : LmPending(q, k) = LmPending(lm, k)
    BY <1>1, <1>2, <2>3, <2>4, <2>5, LmRemovesBase
  <2>7. LmOK(q)
    BY <1>8, <2>4, <2>6
  <2>. QED
    BY <2>1, <2>7 DEF LmInv
<1>. QED
  BY <1>4, <1>9, <1>10, <1>11, <1>12 DEF LmOps

LEMMA LmMainStep ==
    ASSUME LmInv, LmMain
    PROVE  LmInv'
<1>. DEFINE m == Head(lm.main)
            p == [lm EXCEPT !.main = Tail(@)]
            l == m.l
            v == m.w
            what == m.what
<1>1. LmOK(lm) /\ LmBase(lm) /\ LmCounted(lm) /\ lm \in LmState /\ lm.main \in Seq(LmAnswers) /\ lm.main # <<>>
  BY LmTypes DEF LmInv, LmOK, LmBase, LmMain
<1>2. lm' = IF what = "failed" THEN lmOnFailed(p, l) ELSE lmOnRemoved(p, l)
  BY DEF LmMain
<1>3. m \in LmAnswers /\ Tail(lm.main) \in Seq(LmAnswers)
  BY <1>1
<1>4. what \in LmWhats /\ l \in LmTags /\ v \in LmWorkers /\ m = LmAnswerOf(what, l, v)
  BY <1>3, LmAnswerIs
<1>5. /\ p \in LmState /\ LmHearsOnly(lm, p) /\ p.main = Tail(lm.main)
      /\ p.left = lm.left /\ p.name = lm.name /\ p.socket = lm.socket /\ p.failed = lm.failed
  BY <1>1, <1>3 DEF LmState, LmHearsOnly, LmMainSame
<1>6. LmHear(lm, p, what, l, v)
  BY <1>1, <1>4, <1>5 DEF LmHear
<1>. HIDE DEF p, l, v, what, m
<1>7. /\ LmBase(p) /\ LmTold(lm, what, l, v)
      /\ \A k : LmPending(p, k) = IF what = "removed" /\ k = l THEN LmPending(lm, k) \ {v} ELSE LmPending(lm, k)
      /\ what = "removed" /\ LmPending(lm, l) = {v} => LmUnheld(p, l)
  BY <1>1, <1>4, <1>5, <1>6, LmHeardBase
<1>8. CASE what = "failed"
  <2>1. \A k : LmPending(p, k) = LmPending(lm, k)
    BY <1>7, <1>8
  <2>2. LmCounted(p)
    BY <1>1, <1>5, <2>1, LmCountedSame DEF LmHearsOnly, LmMainSame
  <2>3. LmOK(p)
    BY <1>1, <1>5, <1>7, <2>2, LmOKStep DEF LmHearsOnly, LmMainSame
  <2>. DEFINE r == [p EXCEPT !.failed = p.failed \cup {l}]
              name == p.name[l]
  <2>4. lm' = IF l \in p.failed THEN p ELSE lmRemove(r, name)
    BY <1>2, <1>8 DEF lmOnFailed
  <2>5. p.failed \cup {l} \subseteq LmTags
    BY <1>4, <1>5, LmTypes
  <2>6. /\ r \in LmState /\ LmSameRest(p, r) /\ r.active = p.active /\ r.warming = p.warming /\ r.draining = p.draining
        /\ r.ticks = p.ticks /\ r.queue = p.queue /\ r.left = p.left /\ r.name = p.name /\ r.socket = p.socket
    BY <1>5, <2>5 DEF LmState, LmSameRest
  <2>. HIDE DEF r, name
  <2>7. LmOK(r)
    BY <2>3, <2>6, LmOKSame
  <2>8. LmOK(lmRemove(r, name))
    BY <2>7, LmRemoveOK
  <2>9. LmOK(lm')
    BY <2>3, <2>4, <2>8
  <2>. QED
    BY <2>9 DEF LmInv
<1>9. CASE what = "removed"
  <2>1. LmAnswered(lm, v, l)
    BY <1>1, <1>4 DEF LmBase
  <2>2. l \in lm.draining /\ lm.ticks[l] = LmDrainTime
    BY <1>7, <1>9, <2>1 DEF LmAnswered
  <2>3. v \in LmPending(lm, l) /\ LmPending(lm, l) \subseteq LmWorkers
    BY <1>4, <1>7, <1>9 DEF LmPending
  <2>. DEFINE T == LmPending(lm, l)
  <2>4. lm.left[l] = Cardinality(T)
    BY <1>1, <2>2 DEF LmCounted
  <2>5. p.draining = lm.draining /\ p.ticks = lm.ticks /\ p.active = lm.active /\ p.warming = lm.warming
    BY <1>5 DEF LmHearsOnly, LmMainSame
  <2>6. LmPending(p, l) = T \ {v} /\ \A k : k # l => LmPending(p, k) = LmPending(lm, k)
    BY <1>7, <1>9
  <2>. HIDE DEF T
  <2>7. IsFiniteSet(T) /\ v \in T
    BY <2>3, LmAssumption, FS_Subset DEF T
  <2>8. Cardinality(T) \in Nat /\ Cardinality(T \ {v}) = Cardinality(T) - 1 /\ Cardinality(T \ {v}) \in Nat
    <3>1. IsFiniteSet(T \ {v}) /\ Cardinality(T \ {v}) = Cardinality(T) - 1
      BY <2>7, FS_RemoveElement
    <3>. QED
      BY <2>7, <3>1, FS_CardinalityType
  <2>9. \A k \in p.draining \ {l} : p.left[k] = Cardinality(IF p.ticks[k] = LmDrainTime THEN LmPending(p, k) ELSE LmWorkers)
    <3>. TAKE k \in p.draining \ {l}
    <3>1. k \in lm.draining /\ k # l
      BY <2>5
    <3>2. lm.left[k] = Cardinality(IF lm.ticks[k] = LmDrainTime THEN LmPending(lm, k) ELSE LmWorkers)
      BY <1>1, <3>1 DEF LmCounted
    <3>. QED
      BY <1>5, <2>5, <2>6, <3>1, <3>2
  <2>10. lm' = IF p.left[l] = 1 THEN lmDestroy(p, {l}) ELSE [p EXCEPT !.left[l] = @ - 1]
    BY <1>2, <1>9 DEF lmOnRemoved
  <2>11. CASE p.left[l] = 1
    <3>1. Cardinality(T) = 1
      BY <1>5, <2>4, <2>11
    <3>2. T = {v}
      <4>1. \E x : T = {x}
        BY <2>7, <3>1, FS_Singleton
      <4>. QED
        BY <2>7, <4>1
    <3>3. LmUnheld(p, l)
      BY <1>7, <1>9, <3>2 DEF T
    <3>4. LmUnique(p, p.active) /\ LmUnique(p, p.warming) /\ LmShared(p)
      BY <1>1, <1>5, <2>5 DEF LmOK, LmUnique, LmShared, LmLive
    <3>. DEFINE ls == {l}
    <3>5. LmOKBut(p, ls)
      BY <1>7, <2>9, <3>4 DEF LmOKBut
    <3>6. \A k \in ls : k \in LmTags /\ LmUnheld(p, k)
      BY <1>4, <3>3
    <3>7. lm' = lmDestroy(p, ls)
      BY <2>10, <2>11
    <3>. HIDE DEF ls
    <3>8. LmOK(lmDestroy(p, ls))
      BY <3>5, <3>6, LmDestroyOK
    <3>. QED
      BY <3>7, <3>8 DEF LmInv
  <2>12. CASE p.left[l] # 1
    <3>. DEFINE left == [p.left EXCEPT ![l] = p.left[l] - 1]
                q == [p EXCEPT !.left = left]
    <3>1. lm' = q
      BY <1>5, <2>10, <2>12 DEF LmState
    <3>2. p.left \in LmTagMap /\ p.left[l] - 1 \in Nat /\ p.left[l] - 1 = Cardinality(T \ {v})
      BY <1>5, <2>4, <2>8, LmTypes
    <3>3. left \in LmTagMap /\ left[l] = Cardinality(T \ {v}) /\ \A k \in LmTags : k # l => left[k] = p.left[k]
      BY <1>4, <3>2 DEF LmTagMap
    <3>. HIDE DEF left
    <3>4. /\ q \in LmState /\ LmSameRest(p, q) /\ q.active = p.active /\ q.warming = p.warming /\ q.draining = p.draining
          /\ q.ticks = p.ticks /\ q.queue = p.queue /\ q.left = left /\ q.name = p.name /\ q.socket = p.socket
      BY <1>5, <3>3 DEF LmState, LmSameRest
    <3>. HIDE DEF q
    <3>5. LmBase(q)
      BY <1>7, <3>4, LmBaseSame
    <3>6. \A k : LmPending(q, k) = LmPending(p, k)
      BY <3>4 DEF LmPending, LmHas, LmTold, LmSameRest
    <3>7. LmCounted(q)
      <4>. SUFFICES ASSUME NEW k \in q.draining
                    PROVE  q.left[k] = Cardinality(IF q.ticks[k] = LmDrainTime THEN LmPending(q, k) ELSE LmWorkers)
        BY DEF LmCounted
      <4>1. k \in p.draining /\ k \in LmTags
        BY <1>5, <3>4, LmTypes
      <4>2. CASE k = l
        BY <2>2, <2>5, <2>6, <3>3, <3>4, <3>6, <4>2
      <4>3. CASE k # l
        BY <2>9, <3>3, <3>4, <3>6, <4>1, <4>3
      <4>. QED
        BY <4>2, <4>3
    <3>8. LmOK(q)
      <4>1. q.active = lm.active /\ q.warming = lm.warming /\ q.draining = lm.draining /\ q.name = lm.name /\ q.socket = lm.socket
        BY <1>5, <2>5, <3>4
      <4>. QED
        BY <1>1, <3>5, <3>7, <4>1, LmOKStep
    <3>. QED
      BY <3>1, <3>8 DEF LmInv
  <2>. QED
    BY <2>11, <2>12
<1>. QED
  BY <1>4, <1>8, <1>9 DEF LmWhats

\* What the invariant says of the properties.
LEMMA LmInvSound == LmInv => LmSound
<1>. SUFFICES ASSUME LmInv PROVE LmSound
  OBVIOUS
<1>1. /\ LmOK(lm) /\ LmBase(lm) /\ LmCounted(lm) /\ lm \in LmState /\ LmListed(lm)
      /\ lm.draining \subseteq LmTags /\ lm.active \subseteq LmTags /\ lm.warming \subseteq LmTags
  BY LmTypes DEF LmInv, LmOK, LmBase
<1>2. \A w \in LmWorkers, l \in LmTags : lm.on[w][l] \in {"listening", "stopped"} => l \in lm.active \cup lm.draining
  BY <1>1 DEF LmBase, LmTabled, LmLive
<1>3. ASSUME NEW w \in LmWorkers, NEW i \in DOMAIN lm.queue[w] PROVE lm.queue[w][i].l \in lm.active \cup lm.draining
  <2>. DEFINE m == lm.queue[w][i]
  <2>1. lm.queue[w] \in Seq(LmPosts)
    BY <1>1, LmTypes
  <2>2. m \in LmPosts
    BY <2>1
  <2>3. m.op \in LmOps /\ m.l \in LmTags /\ m = LmPostOf(m.op, m.l)
    BY <2>2, LmPostIs
  <2>4. LmHas(lm, w, m.op, m.l)
    BY <2>3 DEF LmHas, LmIn
  <2>. HIDE DEF m
  <2>5. LmQueued(lm, w, m.l)
    BY <1>1, <2>3 DEF LmBase
  <2>6. m.l \in lm.active \cup lm.draining
    BY <2>3, <2>4, <2>5 DEF LmQueued, LmOps, LmLive
  <2>. QED
    BY <2>6 DEF m
<1>4. ASSUME NEW i \in DOMAIN lm.main PROVE lm.main[i].l \in lm.active \cup lm.draining
  <2>. DEFINE m == lm.main[i]
  <2>1. lm.main \in Seq(LmAnswers)
    BY <1>1, LmTypes
  <2>2. m \in LmAnswers
    BY <2>1
  <2>3. m.what \in LmWhats /\ m.l \in LmTags /\ m.w \in LmWorkers /\ m = LmAnswerOf(m.what, m.l, m.w)
    BY <2>2, LmAnswerIs
  <2>4. LmTold(lm, m.what, m.l, m.w)
    BY <2>3 DEF LmTold, LmIn
  <2>. HIDE DEF m
  <2>5. LmAnswered(lm, m.w, m.l)
    BY <1>1, <2>3 DEF LmBase
  <2>6. m.l \in lm.active \cup lm.draining
    BY <2>3, <2>4, <2>5 DEF LmAnswered, LmWhats, LmLive
  <2>. QED
    BY <2>6 DEF m
<1>5. ASSUME NEW l \in lm.draining, lm.ticks[l] = LmDrainTime PROVE lm.left[l] = Cardinality(LmPending(lm, l))
  BY <1>1, <1>5 DEF LmCounted
<1>6. \A l : LmPending(lm, l) =
         {w \in LmWorkers : \/ \E i \in DOMAIN lm.queue[w] : lm.queue[w][i] = [op |-> "remove", l |-> l]
                            \/ \E i \in DOMAIN lm.main : lm.main[i] = [what |-> "removed", l |-> l, w |-> w]}
  BY DEF LmPending, LmHas, LmTold, LmIn, LmPostOf, LmAnswerOf
<1>7. \A list \in {lm.active, lm.warming} : \A l \in list : lmNamed(lm, list, lm.name[l]) = {l}
  BY <1>1 DEF LmOK, LmUnique, lmNamed
<1>8. ASSUME NEW w \in LmWorkers, NEW l \in LmTags, lm.by[l] # 0, lm.on[w][l] = "stopped"
      PROVE  ~\E i \in DOMAIN lm.queue[w] : lm.queue[w][i] = [op |-> "add", l |-> lm.by[l]]
  <2>1. LmReplaced(lm, l) /\ LmTabled(lm, w, l)
    BY <1>1 DEF LmBase
  <2>2. LmOrder(lm, w, "add", lm.by[l], "stop", l) /\ ~LmHas(lm, w, "stop", l)
    BY <1>8, <2>1 DEF LmReplaced, LmTabled
  <2>3. ~LmHas(lm, w, "add", lm.by[l])
    BY <2>2, LmOrdered
  <2>. QED
    BY <2>3 DEF LmHas, LmIn, LmPostOf
<1>9. \A l, o \in lm.active \cup lm.draining \cup lm.warming : lm.socket[l] = lm.socket[o]
  BY <1>1 DEF LmOK, LmShared, LmLive
<1>. QED
  BY <1>2, <1>3, <1>4, <1>5, <1>6, <1>7, <1>8, <1>9 DEF LmSound

\* LmInv is inductive.
THEOREM LmInvHolds == LmSpec => []LmInv
<1>1. LmInit => LmInv
  BY LmInitOK
<1>2. LmInv /\ [LmNext]_lm => LmInv'
  <2>. SUFFICES ASSUME LmInv, [LmNext]_lm PROVE LmInv'
    OBVIOUS
  <2>1. CASE LmMain
    BY <2>1, LmMainStep
  <2>2. CASE \E order \in SetToSeqs(lm.active) : LmStart(order)
    BY <2>2, LmStartStep
  <2>3. CASE \E order \in SetToSeqs(LmNames), update \in LmUpdates, slow \in BOOLEAN : LmLds(order, update, slow)
    BY <2>3, LmLdsStep
  <2>4. CASE \E l \in LmTags : LmReady(l) \/ LmTick(l)
    BY <2>4, LmReadyStep, LmTickStep
  <2>5. CASE \E w \in LmWorkers, ok \in BOOLEAN : LmWorker(w, ok)
    BY <2>5, LmWorkerStep
  <2>6. CASE UNCHANGED lm
    BY <2>6 DEF LmInv
  <2>. QED
    BY <2>1, <2>2, <2>3, <2>4, <2>5, <2>6 DEF LmNext
<1>. QED
  BY <1>1, <1>2, PTL DEF LmSpec

\* Every listener a closure, a worker's table or an answer refers to still exists, names are
\* unique, no connection is refused while a listener is replaced, and one address has one socket.
THEOREM LmSoundHolds == LmSpec => []LmSound
BY LmInvHolds, LmInvSound, PTL
=============================================================================
