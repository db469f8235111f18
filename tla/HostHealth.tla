------------------------------ MODULE HostHealth ----------------------------
(***************************************************************************)
(* What marks hosts as bad, in two parts: the health checker (Hc), then    *)
(* outlier detection (Od).                                                 *)
(***************************************************************************)

(***************************************************************************)
(* Active health checking of a cluster's hosts on the main thread          *)
(* (common/upstream/health_checker_impl.cc): one session per host with an  *)
(* interval and a timeout timer and a connection that is kept between      *)
(* checks, for the four kinds of checker: HTTP, Redis, TCP that expects    *)
(* bytes and TCP that only connects.  Hosts come and go, and workers       *)
(* report failures of their own, which are posted to the main thread.      *)
(***************************************************************************)
EXTENDS Integers, FiniteSets, Naturals, FiniteSetsExt

CONSTANTS HcHosts, HcHealthy, HcUnhealthy  \* the two thresholds

ASSUME HcAssumption == IsFiniteSet(HcHosts) /\ HcHealthy \in Nat \ {0} /\ HcUnhealthy \in Nat \ {0}

VARIABLE hc

HcKinds == {"http", "redis", "tcp", "tcpConnect"}

\* request: a stream or command is under way.  good and bad are num_healthy_
\* and num_unhealthy_.  row is a history variable: the successes since the last
\* failure, up to the threshold.
HcNoSession == [timers |-> {}, client |-> FALSE, request |-> FALSE, expectReset |-> FALSE,
                first |-> TRUE, good |-> 0, bad |-> 0, row |-> 0]

HcInit ==
    \E kind \in HcKinds :
    hc = [kind |-> kind,
          member |-> [h \in HcHosts |-> FALSE],  \* has an entry in active_sessions_
          failed |-> [h \in HcHosts |-> TRUE],   \* FAILED_ACTIVE_HC
          session |-> [h \in HcHosts |-> HcNoSession],
          healthy |-> 0,      \* local_process_healthy_
          posted |-> {},      \* hosts that workers reported
          alive |-> TRUE,     \* the checker, which the cluster owns
          early |-> FALSE]    \* history: a host turned healthy too soon

\* Mutant: the interval timer is not armed again.
hcArmIntervalNot(p, h) == [p EXCEPT !.session[h].timers = {}]

\* timeout_timer_->disableTimer(); interval_timer_->enableTimer()
hcArmInterval(p, h) == [p EXCEPT !.session[h].timers = {"interval"}]

\* first_check_ || ++num_healthy_ == healthy_threshold_
hcTurnsHealthy(s) == s.first \/ s.good + 1 = HcHealthy

hcHandleSuccess(p, h) ==
    LET s == p.session[h]
        turns == p.failed[h] /\ hcTurnsHealthy(s)
        counted == p.failed[h] /\ ~s.first
    IN  hcArmInterval([p EXCEPT !.failed[h] = @ /\ ~turns,
                                !.healthy = IF turns THEN @ + 1 ELSE @,
                                !.session[h] = [s EXCEPT !.bad = 0, !.first = FALSE,
                                                         !.good = IF counted THEN @ + 1 ELSE @,
                                                         !.row = IF @ < HcHealthy THEN @ + 1 ELSE @],
                                !.early = @ \/ (turns /\ ~s.first /\ s.row + 1 < HcHealthy)], h)

\* Mutant: a passive failure decrements the count of a host that failed already.
hcDecHealthyAlways(p, h, turns) == p.healthy - 1

\* decHealthy()
hcDecHealthy(p, h, turns) == IF turns THEN p.healthy - 1 ELSE p.healthy

hcSetUnhealthy(p, h, type) ==
    LET s == p.session[h]
        counted == ~p.failed[h] /\ type = "Network"
        turns == ~p.failed[h] /\ (type # "Network" \/ s.bad + 1 = HcUnhealthy)
    IN  [p EXCEPT !.failed[h] = @ \/ turns, !.healthy = hcDecHealthy(p, h, turns),
                  !.session[h] = [s EXCEPT !.good = 0, !.first = FALSE,
                                           !.bad = IF counted THEN @ + 1 ELSE @,
                                           !.row = 0]]

hcHandleFailure(p, h, type) == hcArmInterval(hcSetUnhealthy(p, h, type), h)

\* client_->close(), and its LocalClose or RemoteClose event.
hcCloseClient(p, h) == [p EXCEPT !.session[h].client = FALSE, !.session[h].request = FALSE]

\* onTimeout(): the reset of the request is expected, or it is cancelled.
hcOnTimeout(p, h) == hcCloseClient([p EXCEPT !.session[h].expectReset = TRUE], h)

\* onIntervalBase(): the connection is made unless one was kept.
hcOnInterval(p, h) ==
    LET s == p.session[h]
    IN  [p EXCEPT !.session[h] =
            [s EXCEPT !.expectReset = s.client /\ @, !.client = TRUE, !.request = TRUE,
                      !.timers = (@ \ {"interval"}) \cup {"timeout"}]]

----------------------------------------------------------------------------
\* addHosts(): hosts start out with the flag set, or, if the cluster is warm,
\* without.
HcAddHost(h, failed) ==
    /\ hc.alive /\ ~hc.member[h]
    /\ hc' = hcOnInterval([hc EXCEPT !.member[h] = TRUE, !.failed[h] = failed,
                                     !.session[h] = HcNoSession,
                                     !.healthy = IF failed THEN @ ELSE @ + 1], h)

\* onClusterMemberUpdate() destroys the session, and with it its connection.
HcRemoveHost(h) ==
    /\ hc.alive /\ hc.member[h]
    /\ hc' = [hc EXCEPT !.member[h] = FALSE, !.session[h] = HcNoSession,
                        !.healthy = IF hc.failed[h] THEN @ ELSE @ - 1]

\* The cluster is removed.
HcDestroy ==
    /\ hc.alive
    /\ hc' = [hc EXCEPT !.alive = FALSE, !.member = [h \in HcHosts |-> FALSE], !.healthy = 0,
                        !.session = [h \in HcHosts |-> HcNoSession]]

HcInterval(h) ==
    /\ "interval" \in hc.session[h].timers
    /\ hc' = hcOnInterval(hc, h)

\* onTimeoutBase()
HcTimeout(h) ==
    /\ "timeout" \in hc.session[h].timers
    /\ hc' = hcHandleFailure(hcOnTimeout([hc EXCEPT !.session[h].timers = @ \ {"timeout"}], h), h, "Network")

hcJudge(p, h, good) == IF good THEN hcHandleSuccess(p, h) ELSE hcHandleFailure(p, h, "Active")

\* onResponseComplete(): 200 from the right service is good; the response may
\* ask for the connection to be closed.
HcHttpResponse(h, good, close) ==
    /\ hc.kind = "http" /\ hc.session[h].request
    /\ LET p == hcJudge([hc EXCEPT !.session[h].request = FALSE], h, good)
       IN  hc' = IF close THEN hcCloseClient(p, h) ELSE p

\* onResponse(): PONG or not.
HcRedisResponse(h, good) ==
    /\ hc.kind = "redis" /\ hc.session[h].request
    /\ hc' = hcJudge([hc EXCEPT !.session[h].request = FALSE], h, good)

\* TcpActiveHealthCheckSession::onData(): the expected bytes, whenever they come.
HcTcpData(h) ==
    /\ hc.kind = "tcp" /\ hc.session[h].client
    /\ hc' = hcHandleSuccess([hc EXCEPT !.session[h].request = FALSE], h)

\* The connection of a checker without bytes to expect is made, and closed.
HcTcpConnected(h) ==
    /\ hc.kind = "tcpConnect" /\ hc.session[h].client
    /\ hc' = hcHandleSuccess(hcCloseClient(hc, h), h)

\* The peer closes: the codec client resets the request, if any, before the
\* connection's callback runs.
HcHttpClose(h) ==
    /\ hc.kind = "http" /\ hc.session[h].client
    /\ LET fails == hc.session[h].request /\ ~hc.session[h].expectReset
       IN  hc' = hcCloseClient(IF fails THEN hcHandleFailure(hc, h, "Network") ELSE hc, h)

\* onFailure(), then onEvent().
HcRedisClose(h) ==
    /\ hc.kind = "redis" /\ hc.session[h].client
    /\ hc' = hcCloseClient(IF hc.session[h].request THEN hcHandleFailure(hc, h, "Network") ELSE hc, h)

\* A failure between checks too.
HcTcpClose(h) ==
    /\ hc.kind \in {"tcp", "tcpConnect"} /\ hc.session[h].client
    /\ hc' = hcCloseClient(hcHandleFailure(hc, h, "Network"), h)

\* HealthCheckHostMonitorImpl::setUnhealthy() on a worker.
HcReport(h) ==
    /\ hc.alive /\ h \notin hc.posted
    /\ hc' = [hc EXCEPT !.posted = @ \cup {h}]

\* setUnhealthyCrossThread() on the main thread: checker and session may be gone.
HcReported(h) ==
    /\ h \in hc.posted
    /\ LET p == [hc EXCEPT !.posted = @ \ {h}]
       IN  hc' = IF hc.alive /\ hc.member[h] THEN hcSetUnhealthy(p, h, "Passive") ELSE p

HcTimer(h) == HcInterval(h) \/ HcTimeout(h)

HcNext ==
    \/ HcDestroy
    \/ \E h \in HcHosts :
          \/ HcRemoveHost(h) \/ HcReport(h) \/ HcTimer(h)
          \/ \E failed \in BOOLEAN : HcAddHost(h, failed)
          \/ HcReported(h) \/ HcTcpData(h) \/ HcTcpConnected(h)
          \/ HcHttpClose(h) \/ HcRedisClose(h) \/ HcTcpClose(h)
          \/ \E good \in BOOLEAN :
                HcRedisResponse(h, good) \/ \E close \in BOOLEAN : HcHttpResponse(h, good, close)

\* Timers fire.
HcSpec == HcInit /\ [][HcNext]_hc /\ \A h \in HcHosts : WF_hc(HcTimer(h))

----------------------------------------------------------------------------
(***************************************************************************)
(* Properties.                                                             *)
(***************************************************************************)

\* Whatever the order of answers, closes, timeouts, reports of workers and
\* updates of the host set: the gauge is the number of member hosts without
\* the flag; a session waits either for its next check or for the end of one,
\* never for neither and never for both; a check under way has a connection,
\* which onTimeout() dereferences.  No counter passes its threshold unnoticed
\* (they are compared by ==, a host would keep its state for ever), and a host
\* only turns healthy after that many successes in a row, or the first result.
HcSound ==
    /\ hc.healthy = Cardinality({h \in HcHosts : hc.member[h] /\ ~hc.failed[h]})
    /\ \A h \in HcHosts :
          LET s == hc.session[h]
          IN  /\ Cardinality(s.timers) = IF hc.member[h] THEN 1 ELSE 0
              /\ "timeout" \in s.timers <=> s.request
              /\ s.request => s.client
              /\ hc.failed[h] => s.good < HcHealthy
              /\ hc.member[h] /\ ~hc.failed[h] => s.bad < HcUnhealthy
    /\ ~hc.early

\* A member host is checked again and again, whatever its connection does.
HcKeepsChecking ==
    \A h \in HcHosts : hc.member[h] ~> ("timeout" \in hc.session[h].timers \/ ~hc.member[h])

-----------------------------------------------------------------------------
(***************************************************************************)
(* Passive health checking (common/upstream/outlier_detection_impl.cc):    *)
(* workers count consecutive 5xx responses per host and post to the main   *)
(* thread, which ejects the host; on an interval timer the main thread     *)
(* returns hosts and ejects those whose success rate is an outlier.        *)
(***************************************************************************)

CONSTANTS OdHosts,        \* host objects: one that returns is a new object
          OdConsecutive,  \* consecutive_5xx
          OdMaxPercent,   \* max_ejection_percent
          OdMinimumHosts, \* success_rate_minimum_hosts
          OdStdevFactor,  \* success_rate_stdev_factor, in tenths
          OdMaxEjections  \* bound: ejections of one host

ASSUME OdAssumption ==
    /\ IsFiniteSet(OdHosts)
    /\ OdConsecutive \in Nat \ {0} /\ OdMaxPercent \in Nat /\ OdMinimumHosts \in Nat
    /\ OdStdevFactor \in Nat /\ OdMaxEjections \in Nat

VARIABLE od

\* The success rate of the last interval: none, all, or too few requests.
OdTooFew == 2
OdRates == {0, 1, OdTooFew}

OdInit ==
    od = [member |-> {}, left |-> {},            \* keys of host_monitors_; hosts removed
          ejected |-> {},                        \* hosts with FAILED_OUTLIER_CHECK
          count |-> [h \in OdHosts |-> 0],       \* consecutive_5xx_
          posted |-> [h \in OdHosts |-> 0],      \* posts to the main thread
          ejections |-> [h \in OdHosts |-> 0],   \* num_ejections_
          wait |-> [h \in OdHosts |-> 0],        \* intervals until it may return
          active |-> 0,                          \* the gauge ejections_active
          alive |-> TRUE]                        \* the detector

\* ejected_percent < max_ejection_percent, after n ejections
odMayEject(p, n) == 100 * (p.active + n) < OdMaxPercent * Cardinality(p.member)

\* The base ejection time is one interval.
odEject(p, hosts) ==
    [p EXCEPT !.active = @ + Cardinality(hosts), !.ejected = @ \cup hosts,
              !.ejections = [h \in OdHosts |-> IF h \in hosts THEN p.ejections[h] + 1 ELSE p.ejections[h]],
              !.wait = [h \in OdHosts |-> IF h \in hosts THEN p.ejections[h] + 1 ELSE p.wait[h]]]

odEjectHost(p, h, enforced) == IF odMayEject(p, 0) /\ enforced THEN odEject(p, {h}) ELSE p

\* checkHostForUneject() for all hosts.
odUneject(p) ==
    LET waiting == p.ejected \cap p.member
        back == {h \in waiting : p.wait[h] = 1}
    IN  [p EXCEPT !.ejected = @ \ back, !.active = @ - Cardinality(back),
                  !.wait = [h \in OdHosts |-> IF h \in waiting THEN p.wait[h] - 1 ELSE p.wait[h]]]

\* successRateEjectionThreshold(): below the mean by more than the factor times
\* the standard deviation, in integers: both sides are multiplied by the number
\* of hosts and squared.
odOutlier(rate, valid, h) ==
    LET n == Cardinality(valid)
        sum == MapThenSumSet(LAMBDA x : rate[x], valid)
        squares == MapThenSumSet(LAMBDA x : rate[x] * rate[x], valid)
        below == sum - n * rate[h]
    IN  /\ sum > n * rate[h]
        /\ 100 * below * below > OdStdevFactor * OdStdevFactor * (n * squares - sum * sum)

\* processSuccessRateEjections()
odOutliers(p, rate) ==
    LET valid == {h \in p.member \ p.ejected : rate[h] # OdTooFew}
    IN  IF Cardinality(p.member) < OdMinimumHosts \/ Cardinality(valid) < OdMinimumHosts THEN {}
        ELSE {h \in valid : odOutlier(rate, valid, h)}

\* The outliers are ejected one by one, in the order of a hash map, as long as
\* the limit allows and where enforcing_success_rate says so.
odMayEjectAll(p, hosts) == hosts # {} => odMayEject(p, Cardinality(hosts) - 1)

\* Mutant: the ejections of hosts that leave still count.
odActiveWithoutForgotten(p, hosts) == p.active

\* ejections_active_ when hosts leave.
odActiveWithout(p, hosts) == p.active - Cardinality(hosts \cap p.ejected)

----------------------------------------------------------------------------
\* putHttpResponseCode() on a worker, for a host that may have left the cluster.
OdBadResponse(h) ==
    /\ h \in od.member \cup od.left /\ od.alive
    /\ od.posted[h] < 2 /\ od.count[h] <= OdConsecutive
    /\ od' = [od EXCEPT !.count[h] = @ + 1,
                        !.posted[h] = IF od.count[h] + 1 = OdConsecutive THEN @ + 1 ELSE @]

OdGoodResponse(h) ==
    /\ h \in od.member \cup od.left /\ od.count[h] > 0
    /\ od' = [od EXCEPT !.count[h] = 0]

\* onConsecutive5xxWorker() on the main thread.
OdConsecutive5xx(h, enforced) ==
    /\ od.posted[h] > 0 /\ od.ejections[h] < OdMaxEjections
    /\ LET p == [od EXCEPT !.posted[h] = @ - 1]
       IN  od' = IF ~od.alive \/ h \notin od.member \/ h \in od.ejected THEN p
                 ELSE [odEjectHost(p, h, enforced) EXCEPT !.count[h] = 0]

\* onIntervalTimer()
OdInterval(rate) ==
    /\ od.alive
    /\ LET p == odUneject(od)
       IN  \E hosts \in SUBSET odOutliers(p, rate) :
              /\ odMayEjectAll(p, hosts)
              /\ \A h \in hosts : od.ejections[h] < OdMaxEjections
              /\ od' = odEject(p, hosts)

OdAddHost(h) ==
    /\ od.alive /\ h \notin od.member \cup od.left
    /\ od' = [od EXCEPT !.member = @ \cup {h}]

OdRemoveHost(h) ==
    /\ od.alive /\ h \in od.member
    /\ od' = [od EXCEPT !.member = @ \ {h}, !.left = @ \cup {h},
                        !.active = odActiveWithout(od, {h})]

\* The cluster, and with it the detector, is destroyed.
OdDestroy ==
    /\ od.alive
    /\ od' = [od EXCEPT !.alive = FALSE, !.member = {}, !.left = @ \cup od.member,
                        !.active = odActiveWithout(od, od.member)]

OdNext ==
    \/ OdDestroy
    \/ \E rate \in [OdHosts -> OdRates] : OdInterval(rate)
    \/ \E h \in OdHosts :
          \/ OdBadResponse(h) \/ OdGoodResponse(h) \/ OdAddHost(h) \/ OdRemoveHost(h)
          \/ \E enforced \in BOOLEAN : OdConsecutive5xx(h, enforced)

\* The interval timer is armed again at the end of every interval.
OdTimer == \E rate \in [OdHosts -> OdRates] : OdInterval(rate)

OdSpec == OdInit /\ [][OdNext]_od /\ WF_od(OdTimer)

----------------------------------------------------------------------------
(***************************************************************************)
(* Properties.                                                             *)
(***************************************************************************)

\* The gauge, which is the input of the ejection limit, is exactly the number
\* of members that are ejected, whatever was posted late, removed while ejected
\* or destroyed; only a host that was ejected has to wait, and as long as it is
\* ejected it has a time to return.
OdSound ==
    /\ od.active = Cardinality(od.ejected \cap od.member)
    /\ \A h \in od.ejected : od.ejections[h] > 0
    /\ \A h \in od.member : h \in od.ejected <=> od.wait[h] > 0

\* An ejected host returns unless it leaves.
OdReturns == \A h \in OdHosts : h \in od.ejected ~> (h \notin od.ejected \/ h \notin od.member)

\* outlier_detection_impl.cc:255-257, "The consecutive_5xx_ counter needs to be
\* reset in order to allow the monitor to detect a bout of consecutive 5xx
\* responses even if the monitor is not charged with an interleaved non-5xx
\* code.": a member that is not ejected and has its responses all counted is
\* below the threshold, or no number of failures ejects it.
OdDetects ==
    \A h \in od.member \ od.ejected : od.posted[h] = 0 => od.count[h] < OdConsecutive
=============================================================================
