---------------------------- MODULE ClusterBridge ----------------------------
(***************************************************************************)
(* The native bridge's cluster operations: enable, disable, add a peer,    *)
(* remove a peer and the status refresh that probes, reconciles and evicts *)
(* peers.  Each is one call of the bridge, which runs them one at a time;  *)
(* what other machines and the Raft library answer is chosen by \E.  A     *)
(* call's possible results are a set of records [c, ok]: the cluster after *)
(* it and what the call returned.                                          *)
(***************************************************************************)
EXTENDS Naturals, Sequences, FiniteSets

CONSTANTS
    Addresses,         \* sync endpoints a peer may have
    Identity,          \* Identity[a]: the site id the node at a answers with
    NoAddress,
    Announced,         \* the endpoints that announce themselves
    PeerLists,         \* the lists of configured peers to try
    MaxSite,           \* bound: the largest site id a guess may reach
    MaxProbes,         \* peer_probe_max_per_refresh
    FailClosedAfter,   \* peer_probe_fail_closed_failures
    EvictAfter,        \* TIGHTROPE_SYNC_DEAD_PEER_EVICTION_FAILURES
    ProbeOnAdd         \* should_probe_peer_on_add()

ASSUME ClusterAssumption ==
    /\ MaxSite \in Nat /\ MaxSite >= 2
    /\ Identity \in [Addresses -> 1..MaxSite]
    /\ NoAddress \notin Addresses
    /\ Announced \subseteq Addresses
    /\ PeerLists \subseteq Seq(Addresses)
    /\ {MaxProbes, FailClosedAfter, EvictAfter} \subseteq Nat \ {0}
    /\ ProbeOnAdd \in BOOLEAN

VARIABLE cluster

clusterVars == <<cluster>>

Local == 1

PeerSites == 2..MaxSite

Nobody == [s \in PeerSites |-> NoAddress]

NoFailures == [s \in PeerSites |-> 0]

MaxFailures == IF EvictAfter > FailClosedAfter THEN EvictAfter ELSE FailClosedAfter

\* The bridge without a cluster.  Only the Raft configuration (members) is on
\* disk; asked, failed and evicted are history: the addresses a call accepted
\* and no later operation on that peer dropped, the failed probes in a row of
\* each site since it was last added, removed or evicted, and the sites the last
\* refresh evicted with less evidence than either limit asks for.
Off(members) ==
    [on |-> FALSE, secret |-> FALSE, discovery |-> FALSE,
     raft |-> FALSE, ingress |-> FALSE, mdns |-> FALSE,
     manual |-> Nobody, seen |-> {}, members |-> members, next |-> 2,
     failures |-> NoFailures, fresh |-> {}, cooling |-> {},
     asked |-> {}, failed |-> NoFailures, evicted |-> {}]

ClusterInit == cluster = Off(Nobody)

(***************************************************************************)
(* Peer manager                                                            *)
(***************************************************************************)
\* peers(): what discovery saw, and the manual entries over it.
Proposals(c) ==
    [s \in PeerSites |->
        IF c.manual[s] # NoAddress THEN c.manual[s]
        ELSE IF \E a \in c.seen : Identity[a] = s
             THEN CHOOSE a \in c.seen : Identity[a] = s
             ELSE NoAddress]

\* The members of Raft that no peer entry names are shown as well.
StatusPeers(c) ==
    [s \in PeerSites |->
        IF Proposals(c)[s] # NoAddress THEN Proposals(c)[s] ELSE c.members[s]]

Listed(f) == {s \in PeerSites : f[s] # NoAddress}

\* The entries of these sites replaced by this one.
Cleared(f, sites, none) == [s \in PeerSites |-> IF s \in sites THEN none ELSE f[s]]

\* remove_peer: only manual entries can be erased.
WithoutPeers(c, sites) ==
    [c EXCEPT !.manual = Cleared(@, sites, NoAddress), !.asked = @ \ {c.manual[s] : s \in sites}]

\* The probe maps of a site are erased with it.
Forgotten(c, sites) ==
    [c EXCEPT !.failures = Cleared(@, sites, 0), !.fresh = @ \ sites, !.failed = Cleared(@, sites, 0)]

(***************************************************************************)
(* cluster_add_peer                                                        *)
(***************************************************************************)
\* The site id guessed for a peer that did not answer the probe: the first free
\* one from the next on.
FreeSites(c) == {s \in c.next..(MaxSite + 1) : s \notin Listed(Proposals(c))}

GuessedSite(c) ==
    CHOOSE s \in FreeSites(c) : \A t \in FreeSites(c) : s <= t

Declined(c) == {[c |-> c, ok |-> FALSE]}

Accepted(c) == {[c |-> c, ok |-> TRUE]}

\* add_srv of an id Raft knows answers "already exists": it counts as success
\* and the endpoint stays.
AddServer(member, a) == IF member = NoAddress THEN a ELSE member

\* remove_srv is accepted and the member goes, now or later, or is unknown.
RemoveServer(member, gone) == IF gone THEN NoAddress ELSE member

\* The entry is kept: the member is in Raft's configuration, or the change is
\* pending because another one is in progress.
AddedPeer(c, a, s, answered, applied) ==
    [c EXCEPT !.manual[s] = a,
              !.members[s] = IF applied THEN AddServer(@, a) ELSE @,
              !.next = IF s + 1 > @ THEN s + 1 ELSE @,
              !.fresh = @ \union {s},
              !.failures[s] = IF answered THEN 0 ELSE 1,
              !.failed[s] = IF answered THEN 0 ELSE 1,
              !.asked = @ \union {a}]

\* add_manual_peer, then up to 40 attempts to change Raft's membership: it is
\* applied, still refused by a change in progress, or fails (not leader, no
\* Raft port for this site).
JoinRaft(c, a, s, answered) ==
    {[c |-> AddedPeer(c, a, s, answered, applied), ok |-> TRUE] : applied \in BOOLEAN}
    \union {[c |-> WithoutPeers([c EXCEPT !.manual[s] = a], {s}), ok |-> FALSE]}

\* The peer answered the probe: it must not be this node, nor carry the id of
\* a peer known under another address.
AddAnswering(c, a) ==
    IF \/ Identity[a] = Local
       \/ Proposals(c)[Identity[a]] \notin {a, NoAddress}
    THEN Declined(c)
    ELSE JoinRaft(c, a, Identity[a], TRUE)

\* It did not: unless a probe is required, it gets the next free site id.
AddSilent(c, a) ==
    IF ProbeOnAdd THEN Declined(c)
    ELSE IF GuessedSite(c) \notin PeerSites THEN {}
    ELSE JoinRaft(c, a, GuessedSite(c), FALSE)

AddPeerResults(c, a) ==
    IF ~c.secret THEN Declined(c) ELSE AddAnswering(c, a) \union AddSilent(c, a)

(***************************************************************************)
(* cluster_remove_peer                                                     *)
(***************************************************************************)
\* Mutant: the peer's probe counters outlive it.
DropPeer_KeepsCounters(c, s) ==
    IF c.manual[s] = NoAddress
    THEN [c |-> c, ok |-> FALSE]
    ELSE [c |-> [WithoutPeers(c, {s}) EXCEPT !.failed = Cleared(@, {s}, 0)], ok |-> TRUE]

\* Raft removed the member, or will (it stays listed until then).  A peer that
\* is only discovered has no entry to erase: the call answers FALSE.
DropPeer(c, s) ==
    IF c.manual[s] = NoAddress
    THEN [c |-> c, ok |-> FALSE]
    ELSE [c |-> Forgotten(WithoutPeers(c, {s}), {s}), ok |-> TRUE]

RemovePeerResults(c, s) ==
    IF s \notin Listed(Proposals(c))
    THEN Declined(c)
    ELSE Declined(c) \union
         {DropPeer([c EXCEPT !.members[s] = RemoveServer(@, gone)], s) :
            gone \in BOOLEAN}

(***************************************************************************)
(* cluster_enable and cluster_disable                                      *)
(***************************************************************************)
Disabled(c) == Off(c.members)

\* validate_replication_security: discovery or configured peers need a secret.
Secure(config) == (config.discovery \/ config.peers # <<>>) => config.secret

\* Raft up, with the configuration it stored.  Without configured peers a node
\* that sees no leader deletes its stored state and starts again.
RaftStarts(c, config) ==
    {c.members} \union (IF config.peers = <<>> THEN {Nobody} ELSE {})

\* Every component came up.  The announcer is kept whether or not its first
\* announcement could be sent.
Enabled(config, members) ==
    [Off(members) EXCEPT !.on = TRUE, !.secret = config.secret,
                         !.discovery = config.discovery,
                         !.raft = TRUE, !.ingress = TRUE,
                         !.mdns = config.discovery]

\* The configured peers are added one after the other; the first failure
\* disables the cluster again.
JoinNext(results, a) == UNION {IF r.ok THEN AddPeerResults(r.c, a) ELSE {r} : r \in results}

WithPeers(start, peers) ==
    LET joined[n \in 0..Len(peers)] ==
            IF n = 0 THEN Accepted(start) ELSE JoinNext(joined[n - 1], peers[n])
    IN  joined[Len(peers)]

\* The replication listener does not start: Raft is stopped again.
IngressFails(members) == Off(members)

\* A running cluster is disabled first; Raft or the listener may fail to start.
EnableResults(c, config) ==
    LET off == {[c |-> f, ok |-> FALSE] :
                  f \in UNION {{Off(m), IngressFails(m)} : m \in RaftStarts(c, config)}}
        up  == {Enabled(config, m) : m \in RaftStarts(c, config)}
    IN  off \union
        {[c |-> IF r.ok THEN r.c ELSE Disabled(r.c), ok |-> r.ok] :
            r \in UNION {WithPeers(e, config.peers) : e \in up}}

ClusterEnable(config) ==
    /\ Secure(config)
    /\ \E r \in EnableResults(cluster, config) : cluster' = r.c

ClusterDisable ==
    /\ cluster.on
    /\ cluster' = Disabled(cluster)

ClusterAddPeer(a) ==
    /\ cluster.on
    /\ \E r \in AddPeerResults(cluster, a) : cluster' = r.c

ClusterRemovePeer(s) ==
    /\ cluster.on
    /\ \E r \in RemovePeerResults(cluster, s) : cluster' = r.c

(***************************************************************************)
(* refresh_cluster_peers                                                   *)
(***************************************************************************)
\* The peers probed now: those whose last probe is an interval old, as far as
\* the limit of one refresh allows.
ProbeSets(c) ==
    LET due == Listed(StatusPeers(c)) \ c.fresh
    IN  {p \in SUBSET due :
            Cardinality(p) = IF Cardinality(due) < MaxProbes THEN Cardinality(due) ELSE MaxProbes}

\* A failed probe counts, an answered one clears the count.
Bumped(count, s, answered) ==
    IF s \in answered THEN 0 ELSE IF count < MaxFailures THEN count + 1 ELSE count

Counted(f, probed, answered) ==
    [s \in PeerSites |-> IF s \in probed THEN Bumped(f[s], s, answered) ELSE f[s]]

Probed(c, probed, answered) ==
    [c EXCEPT !.fresh = @ \union probed,
              !.failures = Counted(@, probed, answered),
              !.failed = Counted(@, probed, answered)]

\* The failures an eviction rests on: heartbeats missed since the ingress last
\* heard of the peer (silent), unless a probe just succeeded, and failed probes.
\* Of a peer that is cooling down they decide nothing.
HeartbeatFailures(c, s, silent) ==
    IF s \in silent THEN MaxFailures ELSE c.failures[s]

\* The same, by the history of its probes.
Evidence(c, s, silent) ==
    HeartbeatFailures([c EXCEPT !.failures = c.failed], s, silent)

Unfounded(c, sites, silent) ==
    {s \in sites : Evidence(c, s, silent) < EvictAfter /\ Evidence(c, s, silent) < FailClosedAfter}

\* Dead for long enough, or failed closed, and not tried a moment ago.
EvictionCandidates(c, peers, silent) ==
    {s \in peers \ c.cooling :
        \/ HeartbeatFailures(c, s, silent) >= EvictAfter
        \/ c.failures[s] >= FailClosedAfter}

\* A manual peer that answered with another id than it is listed under is
\* removed and added again under its own, if both calls succeed.
Reconciled(c, s, a) ==
    UNION {IF r.ok THEN {q.c : q \in AddPeerResults(r.c, a)} ELSE {r.c} : r \in RemovePeerResults(c, s)}

Misidentified(c, answered) ==
    {s \in answered :
        /\ c.manual[s] # NoAddress \/ Proposals(c)[s] = NoAddress
        /\ Identity[StatusPeers(c)[s]] \notin {s, Local}}

\* One site after the other, with the addresses they were probed at.
ReconciledInOrder(starts, sites, address) ==
    LET after[s \in Local..MaxSite] ==
            IF s = Local THEN starts
            ELSE IF s \notin sites THEN after[s - 1]
            ELSE UNION {Reconciled(d, s, address[s]) : d \in after[s - 1]}
    IN  after[MaxSite]

\* The members of Raft that no entry names come after the peers in the list.
AllReconciled(c, sites) ==
    LET named == sites \cap Listed(Proposals(c))
    IN  ReconciledInOrder(ReconciledInOrder({c}, named, StatusPeers(c)), sites \ named, StatusPeers(c))

\* The probe maps keep only the peers the refresh started with: a peer that
\* reconciliation just added is probed anew.
PrunedTo(c, peers) == Forgotten(c, PeerSites \ peers)

\* Every candidate's removal is tried: the peer and all its counters go, or Raft
\* refuses and the peer cools down.
Evicted(c, candidates, removed, unfounded) ==
    [Forgotten(WithoutPeers(c, removed), removed)
        EXCEPT !.members = Cleared(@, removed, NoAddress),
               !.cooling = (@ \union candidates) \ removed, !.evicted = unfounded]

\* What the leader does with what the probes showed: the candidates are chosen
\* before reconciliation changes the peers.
LeaderRefresh(c, peers, silent, answered) ==
    LET candidates == EvictionCandidates(c, peers, silent)
    IN  \E d \in AllReconciled(c, Misidentified(c, answered)), removed \in SUBSET candidates :
            cluster' = Evicted(PrunedTo(d, peers), candidates, removed,
                               Unfounded(c, removed, silent))

FollowerRefresh(c, peers) == cluster' = [PrunedTo(c, peers) EXCEPT !.evicted = {}]

RefreshClusterPeers ==
    /\ cluster.on
    /\ \E found \in SUBSET {a \in Announced : Identity[a] # Local /\ cluster.discovery} :
          LET c     == [cluster EXCEPT !.seen = found]
              peers == Listed(StatusPeers(c))
          IN  \E probed \in ProbeSets(c) : \E answered \in SUBSET probed :
                LET p == Probed(c, probed, answered)
                IN  \/ FollowerRefresh(p, peers)
                    \/ \E silent \in SUBSET (peers \ (answered \union c.cooling)) :
                           LeaderRefresh(p, peers, silent, answered)

(***************************************************************************)
(* The environment                                                         *)
(***************************************************************************)
\* The probe interval, or the longer eviction cooldown, has passed.
TimePasses(cooled) ==
    /\ cluster.fresh # {} \/ cluster.cooling # {}
    /\ cluster' = [cluster EXCEPT !.fresh = {}, !.cooling = IF cooled THEN {} ELSE @]

\* A change of membership that was pending lands.
RaftLands(s) ==
    /\ cluster.on
    /\ cluster.members[s] # cluster.manual[s]
    /\ cluster' = [cluster EXCEPT !.members[s] = cluster.manual[s]]

Configs == [secret : BOOLEAN, discovery : BOOLEAN, peers : PeerLists]

ClusterNext ==
    \/ \E config \in Configs : ClusterEnable(config)
    \/ ClusterDisable
    \/ \E a \in Addresses : ClusterAddPeer(a)
    \/ \E s \in PeerSites : ClusterRemovePeer(s)
    \/ RefreshClusterPeers
    \/ \E cooled \in BOOLEAN : TimePasses(cooled)
    \/ \E s \in PeerSites : RaftLands(s)

ClusterSpec == ClusterInit /\ [][ClusterNext]_clusterVars

(***************************************************************************)
(* Properties                                                              *)
(***************************************************************************)
\* The cluster record is well formed.
ClusterTypeOK ==
    /\ {cluster.manual, cluster.members} \subseteq [PeerSites -> Addresses \union {NoAddress}]
    /\ cluster.seen \subseteq Addresses
    /\ cluster.next \in 2..(MaxSite + 1)
    /\ {cluster.failures, cluster.failed} \subseteq [PeerSites -> 0..MaxFailures]
    /\ cluster.fresh \union cluster.cooling \subseteq PeerSites

\* cluster_enable and cluster_disable are all or nothing: whatever fails on the
\* way, either the cluster is on with Raft and the listener running, or it is
\* off and neither of them, nor the announcement, is left behind.
WholeOrNothingRuns ==
    /\ cluster.on = cluster.raft
    /\ cluster.on = cluster.ingress
    /\ cluster.mdns = (cluster.on /\ cluster.discovery)

\* No node talks to a peer, configured, added later or discovered, without a
\* shared secret to authenticate it.
PeersNeedSecret ==
    cluster.on /\ (Listed(cluster.manual) # {} \/ cluster.discovery) => cluster.secret

\* Only a peer that missed its heartbeats for long, or failed FailClosedAfter
\* probes in a row since it was last added or removed, is evicted: counters of
\* an earlier peer under the same site id never count against it.
EvictionNeedsFailures == cluster.evicted = {}

\* A peer whose addition was accepted stays in the peer list until an operation
\* on that very peer drops it: adding another one never takes its place.
AcceptedPeersAreListed ==
    cluster.on => cluster.asked \subseteq {cluster.manual[s] : s \in Listed(cluster.manual)}

\* The cluster runs as a whole, with authenticated peers, all those it accepted,
\* and evicts none without cause.
ClusterSafety ==
    /\ ClusterTypeOK
    /\ WholeOrNothingRuns
    /\ PeersNeedSecret
    /\ EvictionNeedsFailures
    /\ AcceptedPeersAreListed
==============================================================================
