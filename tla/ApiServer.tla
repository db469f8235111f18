----------------------------- MODULE ApiServer -----------------------------
(***************************************************************************)
(* The REST API (api/server.js): a single-threaded Node program.           *)
(* GET /api/servers asks every Envoy for /server_info and /stats at once   *)
(* and answers when all the replies are in; GET /api/stats reads the       *)
(* collection that the logs daemon writes.  The requests share nothing but *)
(* the process, which an exception in any callback ends for all of them.   *)
(***************************************************************************)
EXTENDS Naturals, Sequences, FiniteSets

CONSTANTS ServersRequests,  \* GET /api/servers requests
          StatsRequests,    \* GET /api/stats requests
          Servers,          \* SERVERS, a sequence of host names
          MaxRuns,          \* bound: aggregations the logs daemon publishes
          RejectionsCrash   \* does an unhandled rejection end the process?
                            \* (it does since Node 15; the image is node:latest)

ASSUME ApiAssumption ==
    /\ IsFiniteSet(ServersRequests) /\ IsFiniteSet(StatsRequests)
    /\ ServersRequests \cap StatsRequests = {}
    /\ Servers \in Seq({Servers[i] : i \in DOMAIN Servers}) /\ Len(Servers) > 0
    /\ RejectionsCrash \in BOOLEAN
    /\ MaxRuns \in Nat

VARIABLES
    apiPc,          \* per request: new, waiting or answered
    fetches,     \* per /servers request: the fetches in flight
    failedFetches,      \* per /servers request: the fetches that failed
    serverData,  \* per /servers request: host -> the parts that arrived
    requestQty,  \* per /servers request
    response,    \* per /servers request: what was sent
    apiCrashed,     \* the process is gone
    collection,  \* the stats in Mongo: the number of the daemon's run, 0 before the first
    runs,        \* runs the daemon has published
    since,       \* per /stats request: the runs published when it came
    gap,         \* per /stats request: was the collection replaced meanwhile?
    docs         \* per /stats request: the answer

servers == <<fetches, failedFetches, serverData, requestQty, response>>
mongo == <<collection, runs>>
statsRequests == <<since, gap, docs>>
apiVars == <<apiPc, apiCrashed, servers, mongo, statsRequests>>

Hosts == {Servers[i] : i \in DOMAIN Servers}
Parts == {"serverInfo", "stats"}
Fetches == (DOMAIN Servers) \X Parts

\* No documents, between remove() and insertMany().
Removed == MaxRuns + 1

ApiRequests == ServersRequests \cup StatsRequests

ApiInit ==
    /\ apiPc = [r \in ApiRequests |-> "new"]
    /\ fetches = [r \in ServersRequests |-> {}]
    /\ failedFetches = [r \in ServersRequests |-> {}]
    /\ serverData = [r \in ServersRequests |-> [h \in {} |-> {}]]
    /\ requestQty = [r \in ServersRequests |-> 0]
    /\ response = [r \in ServersRequests |-> [h \in {} |-> {}]]
    /\ apiCrashed = FALSE
    /\ collection = 0 /\ runs = 0
    /\ since = [r \in StatsRequests |-> 0]
    /\ gap = [r \in StatsRequests |-> FALSE]
    /\ docs = [r \in StatsRequests |-> 0]

----------------------------------------------------------------------------
\* router.get('/api/servers'): start every fetch.
GetServers(r) ==
    /\ ~apiCrashed /\ apiPc[r] = "new"
    /\ apiPc' = [apiPc EXCEPT ![r] = "waiting"]
    /\ fetches' = [fetches EXCEPT ![r] = Fetches]
    /\ UNCHANGED <<failedFetches, serverData, requestQty, response, apiCrashed, mongo, statsRequests>>

\* Mutant: the join waits for one reply per server.
ExpectedOnePerServer == Len(Servers)

\* Mutant: the join waits for one reply too many.
ExpectedOneMore == Len(Servers) * 2 + 1

\* servers.length*2
Expected == Len(Servers) * 2

\* The entry of a host is created by whichever of its replies comes first.
WithPart(data, h, part) ==
    [x \in DOMAIN data \cup {h} |->
        (IF x \in DOMAIN data THEN data[x] ELSE {}) \cup (IF x = h THEN {part} ELSE {})]

\* The body of a reply is in: store it and, with the last one, fulfil the
\* promise, whose continuation sends the response.
FetchDone(r, f) ==
    /\ ~apiCrashed /\ f \in fetches[r]
    /\ fetches' = [fetches EXCEPT ![r] = @ \ {f}]
    /\ serverData' = [serverData EXCEPT ![r] = WithPart(@, Servers[f[1]], f[2])]
    /\ requestQty' = [requestQty EXCEPT ![r] = @ + 1]
    /\ IF requestQty'[r] = Expected
       THEN apiPc' = [apiPc EXCEPT ![r] = "answered"]
            /\ response' = [response EXCEPT ![r] = serverData'[r]]
       ELSE UNCHANGED <<apiPc, response>>
    /\ UNCHANGED <<failedFetches, apiCrashed, mongo, statsRequests>>

\* The fetch or its body fails: nothing handles the rejection.
FetchFailed(r, f) ==
    /\ ~apiCrashed /\ f \in fetches[r]
    /\ fetches' = [fetches EXCEPT ![r] = @ \ {f}]
    /\ failedFetches' = [failedFetches EXCEPT ![r] = @ \cup {f}]
    /\ apiCrashed' = RejectionsCrash
    /\ UNCHANGED <<apiPc, serverData, requestQty, response, mongo, statsRequests>>

----------------------------------------------------------------------------
\* router.get('/api/stats'): MongoClient.connect.
GetStats(r) ==
    /\ ~apiCrashed /\ apiPc[r] = "new"
    /\ apiPc' = [apiPc EXCEPT ![r] = "waiting"]
    /\ since' = [since EXCEPT ![r] = runs]
    /\ gap' = [gap EXCEPT ![r] = collection # runs]
    /\ UNCHANGED <<apiCrashed, servers, mongo, docs>>

\* Connecting or the query fails: the assert throws in a callback.
MongoFailed(r) ==
    /\ ~apiCrashed /\ apiPc[r] = "waiting"
    /\ apiCrashed' = TRUE
    /\ UNCHANGED <<apiPc, servers, mongo, statsRequests>>

\* Mutant: the query asks for the records after now, not of the last day.
FoundLater == Removed

\* find(queryObj): the records of the last day.
Found == collection

\* toArray succeeds: res.json(docs).
StatsFound(r) ==
    /\ ~apiCrashed /\ apiPc[r] = "waiting"
    /\ apiPc' = [apiPc EXCEPT ![r] = "answered"]
    /\ docs' = [docs EXCEPT ![r] = Found]
    /\ UNCHANGED <<apiCrashed, servers, mongo, since, gap>>

\* The logs daemon replaces the documents: remove(), and in its callback
\* insertMany().
DaemonRemoves ==
    /\ runs < MaxRuns /\ collection = runs
    /\ collection' = Removed
    /\ gap' = [r \in StatsRequests |-> gap[r] \/ apiPc[r] = "waiting"]
    /\ UNCHANGED <<apiPc, apiCrashed, servers, runs, since, docs>>

DaemonInserts ==
    /\ collection # runs
    /\ collection' = runs + 1 /\ runs' = runs + 1
    /\ UNCHANGED <<apiPc, apiCrashed, servers, statsRequests>>

FetchEnds(r, f) == FetchDone(r, f) \/ FetchFailed(r, f)

ApiNext ==
    \/ \E r \in ServersRequests : GetServers(r) \/ \E f \in Fetches : FetchEnds(r, f)
    \/ \E r \in StatsRequests : GetStats(r) \/ MongoFailed(r) \/ StatsFound(r)
    \/ DaemonRemoves \/ DaemonInserts

\* Every fetch and every query ends, one way or the other.
ApiFairness ==
    /\ \A r \in ServersRequests : \A f \in Fetches : WF_apiVars(FetchEnds(r, f))
    /\ \A r \in StatsRequests : WF_apiVars(MongoFailed(r) \/ StatsFound(r))

ApiSpec == ApiInit /\ [][ApiNext]_apiVars /\ ApiFairness

----------------------------------------------------------------------------
(***************************************************************************)
(* Properties.                                                             *)
(***************************************************************************)

\* What a /servers request can have gathered: some parts of some hosts.
Gathered == UNION {[D -> SUBSET Parts] : D \in SUBSET Hosts}

ApiTypeOK ==
    /\ apiPc \in [ApiRequests -> {"new", "waiting", "answered"}]
    /\ apiCrashed \in BOOLEAN /\ collection \in 0..Removed /\ runs \in 0..MaxRuns
    /\ fetches \in [ServersRequests -> SUBSET Fetches]
    /\ failedFetches \in [ServersRequests -> SUBSET Fetches]
    /\ serverData \in [ServersRequests -> Gathered] /\ response \in [ServersRequests -> Gathered]
    /\ requestQty \in [ServersRequests -> 0..Expected]
    /\ since \in [StatsRequests -> 0..MaxRuns] /\ gap \in [StatsRequests -> BOOLEAN]
    /\ docs \in [StatsRequests -> 0..Removed]

\* README.md:152, "Devuelve toda la información junta": whatever the order of
\* the replies, an answer has both parts of every server.
AnswersComplete ==
    \A r \in ServersRequests : apiPc[r] = "answered" =>
        DOMAIN response[r] = Hosts /\ \A h \in Hosts : response[r][h] = Parts

\* A request is left without an answer only by a failure of one of its own
\* fetches or by the end of the process.
Joined ==
    \A r \in ApiRequests : apiPc[r] = "waiting" ~>
        apiPc[r] = "answered" \/ apiCrashed \/ (r \in ServersRequests /\ failedFetches[r] # {})

\* An answer of /api/stats is one whole run of the daemon, at least as new as
\* what was published when the request came; it is empty only when a
\* replacement of the collection overlapped the request, or before the first.
StatsAnswersWhole ==
    \A r \in StatsRequests : apiPc[r] = "answered" =>
        \/ docs[r] \in since[r]..runs /\ (docs[r] = 0 => since[r] = 0)
        \/ gap[r] /\ docs[r] = Removed

\* Both kinds of answers are whole.
AnswersWhole == ApiTypeOK /\ AnswersComplete /\ StatsAnswersWhole
=============================================================================
