-------------------------------- MODULE Prober --------------------------------
(***************************************************************************)
(* The Probe tier: the scan of a host tries its candidate ports one after  *)
(* the other (remote_scanner/probe.rs) and hands each port that accepts a  *)
(* connection first to HttpProber, then to TlsProber. All scans share the  *)
(* two probers. A prober bounds the probes per address (a counter under a  *)
(* mutex), those in flight per address (a semaphore) and the rate of all   *)
(* requests (a gate that is held across its sleep).                        *)
(*                                                                         *)
(* Time is relative: a stamp or a sleep is the number of ticks still to    *)
(* go. The fan-out's budget may drop a scan at any of its awaits.          *)
(***************************************************************************)
EXTENDS Naturals, Sequences, FiniteSets, SequencesExt

CONSTANTS
    Scan,           \* the scans in flight
    Addr, AddrOf,   \* the address each scan resolved its host to
    Candidates,     \* CANDIDATE_PORTS
    Excluded,       \* ProbeExclusions: pairs of an address and a port
    MAX_CONCURRENT, \* max_concurrent_per_host
    MAX_PROBES,     \* max_probes_per_host
    INTERVAL,       \* min_probe_interval, in ticks
    Requests        \* per prober: requests of one probe

Kinds == {"http", "tls"}

ProberAssumption ==
    /\ IsFiniteSet(Scan)
    /\ AddrOf \in [Scan -> Addr]
    /\ Candidates \in Seq(Nat)
    /\ MAX_CONCURRENT \in Nat \ {0} /\ MAX_PROBES \in Nat /\ INTERVAL \in Nat
    /\ Requests \in [Kinds -> Nat \ {0}]

VARIABLES
    issued,         \* per prober and address: HostState::issued
    holders,        \* per prober and address: the scans that hold a permit
    waiters,        \* per prober and address: the semaphore's queue
    gate,           \* per prober: the queue of rate_gate, its owner first
    next_allowed,   \* per prober: ticks until the gate's stamp, 0 when past
    place,          \* per scan: its place
    port,           \* per scan: the index of its current candidate
    kind,           \* per scan: the prober it is in
    todo,           \* per scan: requests left in this probe
    sleeping,       \* per scan: ticks left of its sleep
    endpoints,      \* per scan: the ports it found live
    since,          \* history, per prober: ticks since a request was let through
    contacted       \* history: the address and port of every connection

budgets == <<issued, holders, waiters>>
pacing  == <<gate, next_allowed, since>>
scans   == <<place, port, kind, todo, sleeping, endpoints>>
prober_vars == <<budgets, pacing, scans, contacted>>

Target(s) == <<AddrOf[s], Candidates[port[s]]>>
OfPair(f, k, a, v) == [f EXCEPT ![k] = [@ EXCEPT ![a] = v]]

\* A queue without a waiter that is dropped. Nobody is in a queue twice.
Leave(queue, s) ==
    IF \E i \in DOMAIN queue : queue[i] = s
    THEN RemoveAt(queue, CHOOSE i \in DOMAIN queue : queue[i] = s)
    ELSE queue

Init ==
    /\ issued = [k \in Kinds |-> [a \in Addr |-> 0]]
    /\ holders = [k \in Kinds |-> [a \in Addr |-> {}]]
    /\ waiters = [k \in Kinds |-> [a \in Addr |-> <<>>]]
    /\ gate = [k \in Kinds |-> <<>>]
    /\ next_allowed = [k \in Kinds |-> 0]
    /\ since = [k \in Kinds |-> INTERVAL]
    /\ place = [s \in Scan |-> "next"]
    /\ port = [s \in Scan |-> 0]
    /\ kind = [s \in Scan |-> "http"]
    /\ todo = [s \in Scan |-> 0]
    /\ sleeping = [s \in Scan |-> 0]
    /\ endpoints = [s \in Scan |-> {}]
    /\ contacted = {}

\* Mutant: the scan connects before it looks at the exclusions.
NextPortUnchecked(s) ==
    /\ place[s] = "next"
    /\ IF port[s] = Len(Candidates)
       THEN place' = [place EXCEPT ![s] = "done"] /\ UNCHANGED port
       ELSE /\ port' = [port EXCEPT ![s] = @ + 1]
            /\ place' = [place EXCEPT ![s] = "connect"]
    /\ UNCHANGED <<budgets, pacing, kind, todo, sleeping, endpoints, contacted>>

\* The next candidate that is not excluded.
NextPort(s) ==
    /\ place[s] = "next"
    /\ IF port[s] = Len(Candidates)
       THEN place' = [place EXCEPT ![s] = "done"] /\ UNCHANGED port
       ELSE /\ port' = [port EXCEPT ![s] = @ + 1]
            /\ place' = [place EXCEPT ![s] =
                 IF <<AddrOf[s], Candidates[port[s] + 1]>> \in Excluded THEN @ ELSE "connect"]
    /\ UNCHANGED <<budgets, pacing, kind, todo, sleeping, endpoints, contacted>>

\* tcp_port_open, in its timeout.
TcpConnect(s) ==
    /\ place[s] = "connect"
    /\ contacted' = contacted \union {Target(s)}
    /\ \E open \in BOOLEAN :
         IF open THEN /\ place' = [place EXCEPT ![s] = "reserve"]
                      /\ kind' = [kind EXCEPT ![s] = "http"]
         ELSE place' = [place EXCEPT ![s] = "next"] /\ UNCHANGED kind
    /\ UNCHANGED <<budgets, pacing, port, todo, sleeping, endpoints>>

\* The evidence of a prober is dropped: the port is live by its connection.
EndProbe(s) ==
    IF kind[s] = "http"
    THEN /\ kind' = [kind EXCEPT ![s] = "tls"]
         /\ place' = [place EXCEPT ![s] = "reserve"]
         /\ UNCHANGED endpoints
    ELSE /\ endpoints' = [endpoints EXCEPT ![s] = @ \union {Candidates[port[s]]}]
         /\ place' = [place EXCEPT ![s] = "next"]
         /\ UNCHANGED kind

\* Mutant: a prober trusts that its caller has checked the budget.
ReserveUncounted(s) ==
    /\ place[s] = "reserve"
    /\ waiters' = OfPair(waiters, kind[s], AddrOf[s], Append(waiters[kind[s]][AddrOf[s]], s))
    /\ place' = [place EXCEPT ![s] = "permit"]
    /\ UNCHANGED <<issued, holders, kind, endpoints, pacing, port, todo, sleeping, contacted>>

\* probe, handshake: the exclusions once more, then reserve_host_budget, which
\* counts the probe before it waits for its permit.
Reserve(s) ==
    LET k == kind[s]  a == AddrOf[s]
    IN  /\ place[s] = "reserve"
        /\ IF Target(s) \in Excluded \/ issued[k][a] >= MAX_PROBES
           THEN EndProbe(s) /\ UNCHANGED <<issued, waiters>>
           ELSE /\ issued' = OfPair(issued, k, a, issued[k][a] + 1)
                /\ waiters' = OfPair(waiters, k, a, Append(waiters[k][a], s))
                /\ place' = [place EXCEPT ![s] = "permit"]
                /\ UNCHANGED <<kind, endpoints>>
        /\ UNCHANGED <<holders, pacing, port, todo, sleeping, contacted>>

\* The semaphore is fair.
AcquirePermit(s) ==
    LET k == kind[s]  a == AddrOf[s]
    IN  /\ place[s] = "permit"
        /\ waiters[k][a] # <<>> /\ Head(waiters[k][a]) = s
        /\ Cardinality(holders[k][a]) < MAX_CONCURRENT
        /\ waiters' = OfPair(waiters, k, a, Tail(waiters[k][a]))
        /\ holders' = OfPair(holders, k, a, holders[k][a] \union {s})
        /\ todo' = [todo EXCEPT ![s] = Requests[k]]
        /\ place' = [place EXCEPT ![s] = "throttle"]
        /\ UNCHANGED <<issued, pacing, port, kind, sleeping, endpoints, contacted>>

\* throttle: queue for the gate.
Throttle(s) ==
    /\ place[s] = "throttle"
    /\ gate' = [gate EXCEPT ![kind[s]] = Append(@, s)]
    /\ place' = [place EXCEPT ![s] = "gate"]
    /\ UNCHANGED <<budgets, next_allowed, since, port, kind, todo, sleeping, endpoints, contacted>>

OwnsGate(s) == gate[kind[s]] # <<>> /\ Head(gate[kind[s]]) = s

\* Mutant: the sleep is cut short by a tick.
OwnGateEarly(s) ==
    /\ place[s] = "gate" /\ OwnsGate(s)
    /\ sleeping' = [sleeping EXCEPT ![s] = IF next_allowed[kind[s]] = 0 THEN 0 ELSE next_allowed[kind[s]] - 1]
    /\ place' = [place EXCEPT ![s] = "sleep"]
    /\ UNCHANGED <<budgets, pacing, port, kind, todo, endpoints, contacted>>

\* Own the gate and sleep until its stamp.
OwnGate(s) ==
    /\ place[s] = "gate" /\ OwnsGate(s)
    /\ sleeping' = [sleeping EXCEPT ![s] = next_allowed[kind[s]]]
    /\ place' = [place EXCEPT ![s] = "sleep"]
    /\ UNCHANGED <<budgets, pacing, port, kind, todo, endpoints, contacted>>

\* Stamp the gate with the time after the sleep, and let the request through.
Pass(s) ==
    LET k == kind[s]
    IN  /\ place[s] = "sleep" /\ sleeping[s] = 0
        /\ next_allowed' = [next_allowed EXCEPT ![k] = INTERVAL]
        /\ since' = [since EXCEPT ![k] = 0]
        /\ gate' = [gate EXCEPT ![k] = Tail(@)]
        /\ contacted' = contacted \union {Target(s)}
        /\ place' = [place EXCEPT ![s] = "request"]
        /\ UNCHANGED <<budgets, port, kind, todo, sleeping, endpoints>>

\* A response or a failure within the client's timeouts; either way the probe
\* goes on to its next request. The permit is dropped with the probe.
Answer(s) ==
    LET k == kind[s]  a == AddrOf[s]
    IN  /\ place[s] = "request"
        /\ todo' = [todo EXCEPT ![s] = @ - 1]
        /\ IF todo[s] > 1
           THEN /\ place' = [place EXCEPT ![s] = "throttle"]
                /\ UNCHANGED <<holders, kind, endpoints>>
           ELSE /\ holders' = OfPair(holders, k, a, holders[k][a] \ {s})
                /\ EndProbe(s)
        /\ UNCHANGED <<issued, waiters, pacing, port, sleeping, contacted>>

\* Mutant: a probe dropped in its sleep leaves the gate locked.
CancelForgetsGate(s) ==
    LET k == kind[s]  a == AddrOf[s]
    IN  /\ place[s] \in {"connect", "permit", "gate", "sleep", "request"}
        /\ holders' = OfPair(holders, k, a, holders[k][a] \ {s})
        /\ waiters' = OfPair(waiters, k, a, Leave(waiters[k][a], s))
        /\ sleeping' = [sleeping EXCEPT ![s] = 0]
        /\ place' = [place EXCEPT ![s] = "cancelled"]
        /\ UNCHANGED <<issued, pacing, port, kind, todo, endpoints, contacted>>

\* The fan-out drops the scan at an await: permit, gate and places in queues go
\* with it, the counted probe does not, and the gate keeps its old stamp.
Cancel(s) ==
    LET k == kind[s]  a == AddrOf[s]
    IN  /\ place[s] \in {"connect", "permit", "gate", "sleep", "request"}
        /\ holders' = OfPair(holders, k, a, holders[k][a] \ {s})
        /\ waiters' = OfPair(waiters, k, a, Leave(waiters[k][a], s))
        /\ gate' = [gate EXCEPT ![k] = Leave(@, s)]
        /\ sleeping' = [sleeping EXCEPT ![s] = 0]
        /\ place' = [place EXCEPT ![s] = "cancelled"]
        /\ UNCHANGED <<issued, next_allowed, since, port, kind, todo, endpoints, contacted>>

Sooner(n) == IF n = 0 THEN 0 ELSE n - 1

\* A tick; time that passes after every timer ran out changes nothing.
Tick ==
    /\ \/ \E k \in Kinds : next_allowed[k] > 0 \/ since[k] < INTERVAL
       \/ \E s \in Scan : sleeping[s] > 0
    /\ next_allowed' = [k \in Kinds |-> Sooner(next_allowed[k])]
    /\ since' = [k \in Kinds |-> IF since[k] < INTERVAL THEN since[k] + 1 ELSE since[k]]
    /\ sleeping' = [s \in Scan |-> Sooner(sleeping[s])]
    /\ UNCHANGED <<budgets, gate, place, port, kind, todo, endpoints, contacted>>

Over(s) == place[s] \in {"done", "cancelled"}
Terminated == (\A s \in Scan : Over(s)) /\ UNCHANGED prober_vars

Step(s) ==
    \/ NextPort(s) \/ TcpConnect(s) \/ Reserve(s) \/ AcquirePermit(s) \/ Throttle(s)
    \/ OwnGate(s) \/ Pass(s) \/ Answer(s)

Next ==
    \/ \E s \in Scan : Step(s) \/ Cancel(s)
    \/ Tick
    \/ Terminated

Spec == Init /\ [][Next]_prober_vars

\* The runtime polls what is ready, time goes on, and connections and requests
\* end by their timeouts. Nothing makes the fan-out cancel a scan.
Fairness == (\A s \in Scan : WF_prober_vars(Step(s))) /\ WF_prober_vars(Tick)

-----------------------------------------------------------------------------
Places == {"next", "connect", "reserve", "permit", "throttle", "gate", "sleep", "request",
           "done", "cancelled"}

TypeOK ==
    /\ issued \in [Kinds -> [Addr -> 0 .. MAX_PROBES]]
    /\ \A k \in Kinds : next_allowed[k] \in 0 .. INTERVAL /\ since[k] \in 0 .. INTERVAL
    /\ \A k \in Kinds, a \in Addr : holders[k][a] \subseteq Scan
    /\ place \in [Scan -> Places]
    /\ port \in [Scan -> 0 .. Len(Candidates)]
    /\ kind \in [Scan -> Kinds]

\* No address sees more probes at once than its limit, no more in all than its
\* budget, and nothing at all where the operator excluded it; and a permit or the
\* gate is never held by a scan that is over.
HostsAreSpared ==
    /\ contacted \intersect Excluded = {}
    /\ \A k \in Kinds, a \in Addr :
         /\ Cardinality(holders[k][a]) =< MAX_CONCURRENT
         /\ issued[k][a] =< MAX_PROBES
         /\ \A s \in holders[k][a] : ~Over(s) /\ kind[s] = k
         /\ Cardinality({s \in Scan : kind[s] = k /\ AddrOf[s] = a
                /\ place[s] \in {"throttle", "gate", "sleep", "request"}}) =< issued[k][a]

\* Whatever sleepers were cancelled before, a prober never lets two requests
\* through within min_probe_interval of each other.
RequestsAreSpaced ==
    [][\A k \in Kinds : (\E s \in Scan : kind[s] = k /\ place[s] = "sleep" /\ place'[s] = "request")
           => since[k] = INTERVAL]_prober_vars

\* A scan that nobody cancels gets through all of its ports, though others are
\* dropped while they queue, sleep or wait for an answer.
ScansEnd == \A s \in Scan : <>Over(s)

=============================================================================
