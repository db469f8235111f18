---------------------------- MODULE DnsResolver ----------------------------
(* common/network/dns_impl: resolutions over one channel of c-ares.  A      *)
(* resolution that is not answered before resolve() returns owns itself: it *)
(* is freed by its last answer, by nothing else, and the channel answers    *)
(* everything that is pending when it is destroyed.                         *)
EXTENDS Integers, Sequences

CONSTANT DnMaxQueries  \* bound: resolutions

ASSUME DnConstants == DnMaxQueries \in Nat \ {0}

VARIABLE dn

DnQueries == 1..DnMaxQueries
DnFamilies == {"V4Only", "V6Only", "Auto"}
DnNew == [at |-> "none", owned |-> FALSE, completed |-> FALSE, cancelled |-> FALSE,
          fallback |-> FALSE, asked |-> << >>, handle |-> FALSE, answer |-> "none", calls |-> 0]

\* q: the PendingResolutions; pending: queries c-ares works on; tracked: the
\* socket of the channel is in events_; timer: timer_ is enabled.
DnInit == dn = [alive |-> TRUE, q |-> [i \in DnQueries |-> DnNew], used |-> 0, pending |-> {},
                tracked |-> FALSE, timer |-> FALSE, wrong |-> {}]

\* Mutant: the timer is left as it is.
dnUpdateTimerNot(p) == p

\* updateAresTimer(): ares_timeout() has a time while something is pending.
dnUpdateTimer(p) == [p EXCEPT !.timer = p.pending # {}]

\* onAresSocketStateChange()
dnSocket(p, open) == IF open = p.tracked THEN p ELSE [dnUpdateTimer(p) EXCEPT !.tracked = open]

dnDelete(p, i) ==
    [p EXCEPT !.q[i].at = "freed", !.wrong = IF p.q[i].at = "live" THEN @ ELSE @ \cup {"freed"}]

\* Mutant: a resolution that resolve() still holds is freed as well.
dnFreeAlways(p, i) == dnDelete(p, i)

\* delete this, of a resolution that owns itself.
dnFree(p, i) == IF p.q[i].owned THEN dnDelete(p, i) ELSE p

\* Mutant: a resolution that was cancelled still calls back.
dnCallbackAlways(p, i, answer) ==
    {[p EXCEPT !.q[i].calls = @ + 1, !.q[i].answer = answer, !.q[i].handle = FALSE,
               !.wrong = IF p.q[i].cancelled THEN @ \cup {"called"} ELSE @]}

\* callback_(), unless it was cancelled: the caller forgets its handle, and may
\* cancel what else it has asked for.
dnCallback(p, i, answer) ==
    IF p.q[i].cancelled THEN {p}
    ELSE LET r == [p EXCEPT !.q[i].calls = @ + 1, !.q[i].answer = answer, !.q[i].handle = FALSE]
         IN {r} \cup {[r EXCEPT !.q[j].cancelled = TRUE, !.q[j].handle = FALSE]
                      : j \in {k \in DnQueries : r.q[k].handle}}

\* A family is asked for; c-ares answers now, or opens its socket and works on it.
dnSend(p, i, family) ==
    LET r == dnSocket([p EXCEPT !.q[i].asked = Append(@, family)], TRUE)
    IN [r EXCEPT !.pending = @ \cup {i}]

\* onAresHostCallback() with nothing to fall back to.
dnComplete(p, i, answer) ==
    {dnFree(r, i) : r \in dnCallback([p EXCEPT !.q[i].completed = TRUE], i, answer)}


\* getHostByName(AF_INET) within onAresHostCallback(): an answer at once frees it.
dnFallBack(p, i) ==
    LET r == [p EXCEPT !.q[i].fallback = FALSE]
    IN {dnSend(r, i, "AF_INET")}
       \cup UNION {dnComplete([r EXCEPT !.q[i].asked = Append(@, "AF_INET")], i, a) : a \in {"addresses", "nothing"}}

\* onAresHostCallback()
dnOnHost(p, i, answer) ==
    IF p.q[i].at # "live" THEN {[p EXCEPT !.wrong = @ \cup {"freed"}]}
    ELSE IF answer = "addresses" \/ ~p.q[i].fallback THEN dnComplete(p, i, answer)
    ELSE dnFallBack(p, i)

\* resolve(): what is completed when getHostByName() returns is freed here.
DnResolve(family) ==
    LET i == dn.used + 1
        first == IF family = "V4Only" THEN "AF_INET" ELSE "AF_INET6"
        p == [dn EXCEPT !.used = i, !.q[i].at = "live", !.q[i].fallback = family = "Auto"]
        now == [p EXCEPT !.q[i].asked = <<first>>]
    IN /\ dn.alive /\ dn.used < DnMaxQueries
       /\ \E r \in {dnSend(p, i, first)} \cup UNION {dnOnHost(now, i, a) : a \in {"addresses", "nothing"}} :
            dn' = IF r.q[i].completed THEN dnDelete(r, i)
                  ELSE [dnUpdateTimer(r) EXCEPT !.q[i].owned = TRUE, !.q[i].handle = TRUE]

DnCancel(i) ==
    /\ dn.q[i].handle
    /\ dn' = [dn EXCEPT !.q[i].cancelled = TRUE, !.q[i].handle = FALSE,
                        !.wrong = IF dn.q[i].at = "freed" THEN @ \cup {"freed"} ELSE @]

\* onEventCallback(), of the socket or of the timer: c-ares gives one answer, or
\* none; it closes its socket when nothing is pending.
DnEvent ==
    /\ dn.alive /\ (dn.tracked \/ dn.timer)
    /\ \E r \in {dn} \cup UNION {dnOnHost([dn EXCEPT !.pending = @ \ {i}], i, a) :
                                 i \in dn.pending, a \in {"addresses", "nothing"}} :
          dn' = dnUpdateTimer(dnSocket(r, r.pending # {}))

\* ~DnsResolverImpl(): its users have cancelled what they had asked for; every
\* query that is pending is answered with ARES_EDESTRUCTION.
DnDestroy ==
    /\ dn.alive /\ \A i \in DnQueries : ~dn.q[i].handle
    /\ dn' = [dn EXCEPT !.alive = FALSE, !.pending = {}, !.tracked = FALSE, !.timer = FALSE,
                        !.wrong = IF \E i \in dn.pending : ~dn.q[i].owned THEN @ \cup {"owned"} ELSE @,
                        !.q = [i \in DnQueries |-> IF i \in dn.pending THEN [@[i] EXCEPT !.at = "freed"] ELSE @[i]]]

DnNext ==
    \/ \E family \in DnFamilies : DnResolve(family)
    \/ \E i \in DnQueries : DnCancel(i)
    \/ DnEvent \/ DnDestroy

DnSpec == DnInit /\ [][DnNext]_dn

-----------------------------------------------------------------------------
\* Whatever is answered at once, later or never: a caller hears of a resolution
\* once, not after it has cancelled it, and hears of failure only when every
\* family it may use has failed; c-ares works for live resolutions only, with
\* the socket watched and the timer set; and what is not pending is freed
\* (PendingResolution::onAresHostCallback, DnsResolverImpl::resolve).
DnSound ==
    /\ dn.wrong = {}
    /\ \A i \in DnQueries :
          LET q == dn.q[i]
          IN /\ q.calls <= 1 /\ (q.at = "none" <=> i > dn.used)
             /\ q.at = "live" <=> i \in dn.pending
             /\ q.at = "live" => q.owned /\ q.calls = 0 /\ (q.handle <=> ~q.cancelled)
             /\ q.at = "freed" => ~q.handle /\ (dn.alive => q.calls = 1 \/ q.cancelled)
             /\ q.answer = "nothing" => ~q.fallback
             /\ q.asked \in {<< >>, <<"AF_INET">>, <<"AF_INET6">>, <<"AF_INET6", "AF_INET">>}
    /\ dn.pending # {} => dn.tracked /\ dn.timer
=============================================================================
