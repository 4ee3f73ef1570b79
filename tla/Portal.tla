-------------------------------- MODULE Portal --------------------------------
(***************************************************************************)
(* The portal: an HTTP server that reads recorded snapshots on behalf of   *)
(* bearer tokens (adapters/portal, application/portal.rs).                 *)
(*                                                                         *)
(* Each worker serves one request at a time. A request passes the layers   *)
(* of the router from the outside in: security headers, the rate limit,    *)
(* routing, the AuthContext extractor, the handler; the handler reads the  *)
(* store through AuthorizingRepository, one await per call, while scans    *)
(* put new snapshots and the clock goes on. The store is the port          *)
(* SnapshotStore: a list promises no order.                                *)
(*                                                                         *)
(* A secret stands for its SHA-256 digest. What bearer_token makes of a    *)
(* missing, foreign, unreadable or blank Authorization header is a secret  *)
(* that no token has.                                                      *)
(* Rendering is left out but for its failure.                              *)
(***************************************************************************)
EXTENDS Naturals, Sequences, FiniteSetsExt

CONSTANTS
    Worker,         \* requests in flight
    Request,        \* the requests that clients send
    TokenConfig,    \* the [[portal.token]] entries, in their order
    Environment,    \* what secret_env variables may hold when the portal starts
    NoHost,
    BUDGET,         \* rate_limit_per_minute
    WINDOW,         \* the length of a rate window, in ticks
    MAX_TIME, MAX_ARRIVALS,     \* bounds of the model
    Key, Snapshot, ScanId, HostId, ScanOf, HostOf,  \* see SnapshotStore
    AtStart,        \* the snapshots on file when the portal starts
    KeyOf,          \* the idempotency key each snapshot was put under
    CollectedAt     \* the collected_at of each snapshot

PortalAssumption ==
    /\ BUDGET \in Nat
    /\ WINDOW \in Nat \ {0}
    /\ MAX_TIME \in Nat
    /\ MAX_ARRIVALS \in Nat
    /\ ScanOf \in [Snapshot -> ScanId]
    /\ HostOf \in [Snapshot -> HostId]
    /\ TokenConfig \in Seq([id : STRING, secret_env : STRING, hosts : SUBSET HostId])
    /\ AtStart \subseteq Snapshot /\ IsFiniteSet(AtStart)
    /\ KeyOf \in [Snapshot -> Key]
    /\ CollectedAt \in [Snapshot -> Nat]
    /\ \A s, t \in Snapshot : ScanOf[s] = ScanOf[t] => s = t
    /\ \A q \in Request :
         /\ q.host \in HostId \union {NoHost}
         /\ q.scan \in ScanId

VARIABLES
    environment,    \* the process environment PortalTokens::load reads
    tokens,         \* PortalTokens::entries
    phase,          \* "starting", "serving" or "refused"
    recorded,       \* the snapshot store
    now,            \* Instant::now(), in ticks
    buckets,        \* RateLimiter::buckets
    arrivals,       \* requests so far
    pc, req, stamp, \* per worker: its place, its request, its `now` of check
    ids, found,     \* recent_snapshots: scan ids still to get, snapshots got
    onFile,         \* history: what was recorded when the ids were listed
    response,       \* per worker: its last response
    admitted        \* history: the requests admitted within the last WINDOW

config == <<environment, tokens, phase>>
reads  == <<ids, found, onFile>>
limit  == <<buckets, admitted>>
vars   == <<config, recorded, now, limit, arrivals, pc, req, stamp, reads, response>>

Store == INSTANCE SnapshotStore WITH answered <- {}, fetched <- {}, listed <- {}

NoToken == <<>>

\* PortalTokens::authenticate compares with every entry and keeps the last match.
Authenticate(bearer) ==
    LET matching == {i \in DOMAIN tokens : tokens[i].secret = bearer}
    IN  IF matching = {} THEN NoToken ELSE tokens[Max(matching)]

\* Mutant: the address is left out, so the unauthenticated share a bucket.
BudgetKeyShared(q) ==
    LET ctx == Authenticate(q.bearer)
    IN  IF ctx = NoToken THEN <<"ip", "unknown">> ELSE <<"token", ctx.id>>

\* Who a budget belongs to: the token's label, or the peer's address.
BudgetKey(q) ==
    LET ctx == Authenticate(q.bearer)
    IN  IF ctx = NoToken THEN <<"ip", q.addr>> ELSE <<"token", ctx.id>>

\* The hosts that the operator granted to a secret, and the caller it makes of a
\* request: read from the configuration and the environment, for the properties.
Entries(bearer) == {i \in DOMAIN TokenConfig : environment[TokenConfig[i].secret_env] = bearer}
Granted(bearer) == UNION {TokenConfig[i].hosts : i \in Entries(bearer)}
Caller(q) ==
    IF Entries(q.bearer) = {} THEN <<"ip", q.addr>>
    ELSE <<"token", TokenConfig[Max(Entries(q.bearer))].id>>

Init ==
    /\ environment \in Environment
    /\ tokens = <<>>
    /\ phase = "starting"
    /\ recorded = {[key |-> KeyOf[s], snap |-> s] : s \in AtStart}
    /\ now = 0
    /\ buckets = <<>>
    /\ admitted = {}
    /\ arrivals = 0
    /\ pc = [w \in Worker |-> "idle"]
    /\ req = [w \in Worker |-> <<>>]
    /\ stamp = [w \in Worker |-> 0]
    /\ ids = [w \in Worker |-> {}]
    /\ found = [w \in Worker |-> {}]
    /\ onFile = [w \in Worker |-> {}]
    /\ response = [w \in Worker |-> <<>>]

\* PortalTokens::load, once at startup: one entry without a secret refuses
\* the start of the whole portal.
Load ==
    LET secret(i) == environment[TokenConfig[i].secret_env]
    IN  /\ phase = "starting"
        /\ IF \E i \in DOMAIN TokenConfig : secret(i) = "unset"
           THEN phase' = "refused" /\ UNCHANGED tokens
           ELSE /\ phase' = "serving"
                /\ tokens' = [i \in DOMAIN TokenConfig |->
                        [id |-> TokenConfig[i].id, hosts |-> TokenConfig[i].hosts,
                         secret |-> secret(i)]]
        /\ UNCHANGED <<environment, recorded, now, limit, arrivals, pc, req, stamp, reads, response>>

\* A scan records a snapshot, from another process.
Put(s) ==
    /\ \A r \in recorded : r.snap # s
    /\ Store!Commit(KeyOf[s], s)
    /\ UNCHANGED <<config, now, limit, arrivals, pc, req, stamp, reads, response>>

Tick ==
    /\ phase = "serving"
    /\ now < MAX_TIME
    /\ now' = now + 1
    /\ admitted' = {a \in admitted : a.at + WINDOW > now'}
    /\ UNCHANGED <<config, recorded, buckets, arrivals, pc, req, stamp, reads, response>>

\* A request comes in: its bucket is named and its `now` taken, ahead of the lock.
Arrive(w, q) ==
    /\ phase = "serving"
    /\ arrivals < MAX_ARRIVALS
    /\ pc[w] = "idle"
    /\ arrivals' = arrivals + 1
    /\ req' = [req EXCEPT ![w] = q]
    /\ stamp' = [stamp EXCEPT ![w] = now]
    /\ pc' = [pc EXCEPT ![w] = "limit"]
    /\ UNCHANGED <<config, recorded, now, limit, reads, response>>

Empty == [status |-> 0, hosts |-> {}, snaps |-> <<>>]

\* security_headers::apply stamps whatever comes back from the layers inside.
Respond(w, answer) ==
    /\ response' = [response EXCEPT ![w] = [answer |-> answer, hsts |-> req[w].https]]
    /\ pc' = [pc EXCEPT ![w] = "answered"]
    /\ ids' = [ids EXCEPT ![w] = {}]
    /\ found' = [found EXCEPT ![w] = {}]
    /\ stamp' = [stamp EXCEPT ![w] = 0]

Status(w, code) == Respond(w, [Empty EXCEPT !.status = code])

Goto(w, there) == pc' = [pc EXCEPT ![w] = there]

\* Mutant: the comparison with the window is the wrong way round.
RenewedWithin(key, at) ==
    IF key \notin DOMAIN buckets \/ at < buckets[key].window_start + WINDOW
    THEN [window_start |-> at, count |-> 0]
    ELSE buckets[key]

\* The bucket of a key as check finds it: entered if absent, renewed if its
\* window is over. A `now` from before the window's start renews nothing.
Renewed(key, at) ==
    IF key \notin DOMAIN buckets \/ at >= buckets[key].window_start + WINDOW
    THEN [window_start |-> at, count |-> 0]
    ELSE buckets[key]

\* Mutant: a request that is turned away counts, too.
CountedAlways(bucket) == [bucket EXCEPT !.count = @ + 1]

Counted(bucket) ==
    IF bucket.count < BUDGET THEN [bucket EXCEPT !.count = @ + 1] ELSE bucket

\* RateLimiter::check under its lock, then enforce.
Enforce(w) ==
    LET key == BudgetKey(req[w])
        bucket == Renewed(key, stamp[w])
    IN  /\ pc[w] = "limit"
        /\ buckets' = [k \in DOMAIN buckets \union {key} |->
                            IF k = key THEN Counted(bucket) ELSE buckets[k]]
        /\ IF bucket.count < BUDGET
           THEN /\ Goto(w, "route")
                /\ admitted' = admitted \union
                      {[caller |-> Caller(req[w]), at |-> now,
                        prompt |-> stamp[w] = now, nth |-> Cardinality(admitted)]}
                /\ UNCHANGED <<response, ids, found, stamp>>
           ELSE /\ Status(w, 429)
                /\ UNCHANGED admitted
        /\ UNCHANGED <<config, recorded, now, arrivals, req, onFile>>

\* Routing, the AuthContext extractor, the path: the handler's arguments in
\* their order. fleet_index and htmx_js answer without the store.
Route(w) ==
    LET q == req[w]
        ctx == Authenticate(q.bearer)
    IN  /\ pc[w] = "route"
        /\ \/ q.route = "unknown" /\ Status(w, 404)
           \/ q.route # "unknown" /\ ctx = NoToken /\ Status(w, 401)
           \/ /\ ctx # NoToken
              /\ \/ q.route = "asset" /\ Status(w, 200)
                 \/ /\ q.route = "index"
                    /\ Respond(w, [Empty EXCEPT !.status = 200, !.hosts = ctx.hosts])
                 \/ /\ q.route \in {"fragment", "drift", "scan"}
                    /\ q.host = NoHost
                    /\ Status(w, 400)
                 \/ /\ q.route \in {"fragment", "drift"}
                    /\ q.host # NoHost
                    /\ Goto(w, "list") /\ UNCHANGED <<response, ids, found, stamp>>
                 \/ /\ q.route = "scan"
                    /\ q.host # NoHost
                    /\ Goto(w, "get") /\ UNCHANGED <<response, ids, found, stamp>>
        /\ UNCHANGED <<config, recorded, now, limit, arrivals, req, onFile>>

\* AuthorizingRepository's check, ahead of either read.
Scoped(w) == req[w].host \in Authenticate(req[w].bearer).hosts

Forbid(w) ==
    /\ pc[w] \in {"list", "get"}
    /\ ~Scoped(w)
    /\ Status(w, 403)
    /\ UNCHANGED <<config, recorded, now, limit, arrivals, req, onFile>>

\* recent_snapshots, list_for_host.
ListForHost(w) ==
    LET ofHost == {r \in recorded : HostOf[r.snap] = req[w].host}
    IN  /\ pc[w] = "list"
        /\ Scoped(w)
        /\ ids' = [ids EXCEPT ![w] = {ScanOf[r.snap] : r \in ofHost}]
        /\ onFile' = [onFile EXCEPT ![w] = {r.snap : r \in ofHost}]
        /\ found' = [found EXCEPT ![w] = {}]
        /\ Goto(w, "gets")
        /\ UNCHANGED <<config, recorded, now, limit, arrivals, req, stamp, response>>

\* Mutant: the snapshot's own host is not looked at.
GetForClaimedHost(host, scan) ==
    {r.snap : r \in {q \in recorded : ScanOf[q.snap] = scan}}

\* What get_for_host returns: the snapshot of the scan if its own host is the
\* host that was asked for, else None.
GetForHost(host, scan) ==
    {r.snap : r \in {q \in recorded : ScanOf[q.snap] = scan /\ HostOf[q.snap] = host}}

\* recent_snapshots, one turn of its loop.
GetNext(w) ==
    /\ pc[w] = "gets"
    /\ \E id \in ids[w] :
        /\ found' = [found EXCEPT ![w] = @ \union GetForHost(req[w].host, id)]
        /\ ids' = [ids EXCEPT ![w] = @ \ {id}]
    /\ UNCHANGED <<config, recorded, now, limit, arrivals, pc, req, stamp, onFile, response>>

\* Mutant: oldest first.
SortedAscending(snaps) ==
    {q \in [1..Cardinality(snaps) -> snaps] :
        /\ \A i, j \in DOMAIN q : i < j => CollectedAt[q[i]] =< CollectedAt[q[j]]
        /\ \A i, j \in DOMAIN q : q[i] = q[j] => i = j}

\* The snapshots newest first; the order of two of one time is the store's.
Sorted(snaps) ==
    {q \in [1..Cardinality(snaps) -> snaps] :
        /\ \A i, j \in DOMAIN q : i < j => CollectedAt[q[i]] >= CollectedAt[q[j]]
        /\ \A i, j \in DOMAIN q : q[i] = q[j] => i = j}

\* host_detail and drift_view: all scans, or the two that are compared.
RenderRecent(w) ==
    /\ pc[w] = "gets"
    /\ ids[w] = {}
    /\ \E q \in Sorted(found[w]) :
        Respond(w, [Empty EXCEPT !.status = 200,
                    !.snaps = IF req[w].route = "fragment" THEN q
                              ELSE IF Len(q) >= 2 THEN SubSeq(q, 1, 2) ELSE <<>>])
    /\ UNCHANGED <<config, recorded, now, limit, arrivals, req, onFile>>

\* scan_detail and download.
GetScan(w) ==
    LET snaps == GetForHost(req[w].host, req[w].scan)
    IN  /\ pc[w] = "get"
        /\ Scoped(w)
        /\ IF snaps = {} THEN Status(w, 404)
           ELSE \E s \in snaps : Respond(w, [Empty EXCEPT !.status = 200, !.snaps = <<s>>])
        /\ onFile' = [onFile EXCEPT ![w] = {r.snap : r \in recorded}]
        /\ UNCHANGED <<config, recorded, now, limit, arrivals, req>>

\* The store or a template fails: a 500 without a body.
Fail(w) ==
    /\ \/ pc[w] \in {"list", "get", "gets"} /\ (pc[w] = "gets" \/ Scoped(w))
       \/ /\ pc[w] = "route"
          /\ req[w].route = "index"
          /\ Authenticate(req[w].bearer) # NoToken
    /\ Status(w, 500)
    /\ UNCHANGED <<config, recorded, now, limit, arrivals, req, onFile>>

\* The response is sent.
Deliver(w) ==
    /\ pc[w] = "answered"
    /\ Goto(w, "idle")
    /\ response' = [response EXCEPT ![w] = <<>>]
    /\ req' = [req EXCEPT ![w] = <<>>]
    /\ onFile' = [onFile EXCEPT ![w] = {}]
    /\ UNCHANGED <<config, recorded, now, limit, arrivals, stamp, ids, found>>

\* The bounds are used up, or the portal did not start.
Over ==
    /\ \/ phase = "refused"
       \/ phase = "serving" /\ \A w \in Worker : pc[w] = "idle"
    /\ UNCHANGED vars

Next ==
    \/ Load
    \/ Tick
    \/ \E s \in Snapshot : Put(s)
    \/ \E w \in Worker :
        \/ \E q \in Request : Arrive(w, q)
        \/ Enforce(w) \/ Route(w) \/ Forbid(w) \/ ListForHost(w) \/ GetNext(w)
        \/ RenderRecent(w) \/ GetScan(w) \/ Fail(w) \/ Deliver(w)
    \/ Over

Spec == Init /\ [][Next]_vars

-----------------------------------------------------------------------------
(* What makes the portal correct *)

Places == {"idle", "limit", "route", "list", "gets", "get", "answered"}

\* Every variable has its type; a bucket never counts beyond its budget.
TypeOK ==
    /\ phase \in {"starting", "serving", "refused"}
    /\ recorded \subseteq Store!Record
    /\ now \in 0..MAX_TIME
    /\ arrivals \in 0..MAX_ARRIVALS
    /\ \A k \in DOMAIN buckets :
        /\ buckets[k].window_start \in 0..now
        /\ buckets[k].count \in 0..BUDGET
    /\ pc \in [Worker -> Places]
    /\ stamp \in [Worker -> 0..now]
    /\ ids \in [Worker -> SUBSET ScanId]
    /\ found \in [Worker -> SUBSET Snapshot]
    /\ onFile \in [Worker -> SUBSET Snapshot]

Answered(w) == pc[w] = "answered"

\* Whatever a handler does and whoever puts meanwhile, a response carries
\* only snapshots of the host that was asked for, and only hosts that the
\* presented secret was granted; without a grant it carries nothing
\* (AuthorizingRepository, the AuthContext extractor).
ReadsAreScoped ==
    \A w \in Worker : Answered(w) =>
        LET a == response[w].answer IN
        /\ \A i \in DOMAIN a.snaps :
            /\ HostOf[a.snaps[i]] = req[w].host
            /\ HostOf[a.snaps[i]] \in Granted(req[w].bearer)
        /\ a.hosts \subseteq Granted(req[w].bearer)

\* Of a host the caller may read, the portal shows what is on file, all of it
\* and the newest first: the history misses no scan that was recorded before
\* it was listed, the drift view compares the two newest of them with none in
\* between, and a scan is missing only if the host has no such scan
\* (recent_snapshots, drift_view, scan_detail).
ViewsAreComplete ==
    \A w \in Worker : Answered(w) =>
        LET q == req[w]
            a == response[w].answer
            Shown == {a.snaps[i] : i \in DOMAIN a.snaps}
            Newer(s, t) == CollectedAt[s] > CollectedAt[t]
        IN  /\ (a.status = 200 /\ q.route = "fragment") => Shown = onFile[w]
            /\ (a.status = 200 /\ q.route = "drift") =>
                 /\ Len(a.snaps) = (IF Cardinality(onFile[w]) < 2 THEN 0 ELSE 2)
                 /\ Len(a.snaps) = 2 =>
                      /\ ~Newer(a.snaps[2], a.snaps[1])
                      /\ \A s \in onFile[w] \ Shown : ~Newer(s, a.snaps[2])
            /\ (q.route = "scan" /\ a.status = 404) =>
                 \A s \in onFile[w] : ScanOf[s] = q.scan => HostOf[s] # q.host

\* Two windows of one caller may meet, so twice the budget can pass in the
\* time of one, and never more (RateLimiter::check). Only requests are
\* counted that did not wait between taking their time and the lock.
AtMostTwoBudgets ==
    \A a \in admitted :
        Cardinality({b \in admitted : b.caller = a.caller /\ b.prompt}) =< 2 * BUDGET

\* A caller is turned away only for what it sent itself: it was admitted a
\* whole budget of requests within the last window (budget_key, check).
OnlyOwnRequestsDeny ==
    [][\A w \in Worker :
        (pc[w] = "limit" /\ pc'[w] = "answered" /\ stamp[w] = now) =>
            Cardinality({a \in admitted : a.caller = Caller(req[w])}) >= BUDGET]_vars

=============================================================================
