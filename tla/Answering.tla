------------------------------- MODULE Answering -------------------------------
(***************************************************************************)
(* The components of Components that answer from what they are given and   *)
(* leave it as it is: the portal, which answers requests from the          *)
(* snapshots on record, and the pure parts, which answer from their input. *)
(***************************************************************************)
EXTENDS Reachability

CONSTANTS
    \* Portal
    Worker, Request, TokenConfig, Environment, NoHost, BUDGET, WINDOW, MAX_TIME, MAX_ARRIVALS,
    Key, Snapshot, ScanId, HostId, ScanOf, HostOf, AtStart, KeyOf, CollectedAt,
    \* Rules
    Catalogue, Registry, NameOrder, Questions

VARIABLES
    environment, tokens, phase, recorded, now, buckets, arrivals, pc, req, stamp, ids, found,
    onFile, response, admitted,
    question, answered, answer

PO == INSTANCE Portal
RU == INSTANCE Rules

portal_all == <<environment, tokens, phase, recorded, now, buckets, arrivals, pc, req, stamp, ids,
                found, onFile, response, admitted>>
rules_all == <<question, answered, answer>>

=============================================================================
