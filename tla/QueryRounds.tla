---------------------------- MODULE QueryRounds ----------------------------
(* The version discipline of the coordinator's read routes: the statistics  *)
(* cache, the claims a round carries to the shards, the single retry after  *)
(* a stale answer, and the read set a query pins before and validates       *)
(* after its rounds.  One request is followed step by step; every other     *)
(* request of the process is the environment, which may store any           *)
(* statistics a shard ever reported, however late, or drop the cache.       *)
EXTENDS SystemState, Integers, FiniteSets, Functions, SequencesExt

CONSTANTS
    QueryShards,        \* the shards of the topology
    ReplicatedShards,         \* those of them with a replica
    CacheScopes,        \* visibility scopes of cached statistics
    CacheTerms,         \* terms there are statistics of
    AskedTerms,         \* the sets of them a request may ask for
    MAX_SCOPES_PER_NODE,
    MAX_TERMS_PER_CHANNEL,
    MaxDisturbances     \* bound: writes, restarts and other requests

CopiesOf(s) == {"primary"} \cup IF s \in ReplicatedShards THEN {"replica"} ELSE {}

(* A route of the coordinator: whether it pins a read set whoever calls it, *)
(* how many independently looked-up statistics legs it combines, and        *)
(* whether it may leave shards out.                                         *)
ReadRoute(name, pins, legs, masks) ==
    [name |-> name, pins |-> pins, legs |-> legs, masks |-> masks]

fanout_bm25_aggregated == ReadRoute("bm25", FALSE, 1, TRUE)
fanout_bm25_fused_routed == ReadRoute("fused", FALSE, 1, TRUE)
fanout_phrase == ReadRoute("phrase", FALSE, 1, FALSE)
fanout_hybrid == ReadRoute("hybrid", FALSE, 1, TRUE)
fanout_cascade == ReadRoute("cascade", FALSE, 1, TRUE)
apply_boost == ReadRoute("boost", FALSE, 1, TRUE)
lexical_signal == ReadRoute("lexical signal", FALSE, 1, TRUE)
fanout_search == ReadRoute("search", FALSE, 0, TRUE)
fanout_search_collapse == ReadRoute("collapse", FALSE, 0, TRUE)
fanout_vector_rescore == ReadRoute("vector rescore", TRUE, 0, TRUE)
exact_vector_scores == ReadRoute("exact vectors", TRUE, 0, TRUE)
fanout_browse == ReadRoute("browse", TRUE, 0, TRUE)
fanout_aggregate == ReadRoute("aggregate", TRUE, 0, TRUE)
read_lineage == ReadRoute("lineage", FALSE, 0, TRUE)
filter_membership == ReadRoute("filter", FALSE, 0, TRUE)
lexical_membership == ReadRoute("lexical membership", FALSE, 0, FALSE)
vector_membership == ReadRoute("vector membership", FALSE, 0, FALSE)
evaluate_boolean_fanout == ReadRoute("boolean", FALSE, 2, TRUE)

(* Routes that differ in nothing but their name take the same steps, so one *)
(* of each kind stands for its fellows.                                     *)
ReadRoutes ==
    {fanout_bm25_aggregated, fanout_bm25_fused_routed, fanout_phrase, fanout_hybrid,
     fanout_cascade, apply_boost, lexical_signal, fanout_search, fanout_search_collapse,
     fanout_vector_rescore, exact_vector_scores, fanout_browse, fanout_aggregate,
     read_lineage, filter_membership, lexical_membership, vector_membership,
     evaluate_boolean_fanout}
RouteKinds == {[pins |-> r.pins, legs |-> r.legs, masks |-> r.masks] : r \in ReadRoutes}

----------------------------------------------------------------------------
(* StatsClaim: the lifetime of a shard copy and its mutation epoch.         *)
FirstClaim(s, c) == [life |-> <<s, c, 1>>, epoch |-> 1]

(* StatsIncarnation::check, with the claim of a request. *)
claim_check(current, expected) == current = expected

NoShares == <<>>

RoundsInit ==
    sys = [part |-> "rounds",
           at |-> [s \in QueryShards |-> [c \in CopiesOf(s) |-> FirstClaim(s, c)]],
           ever |-> [s \in QueryShards |-> {FirstClaim(s, c) : c \in CopiesOf(s)}],
           cache |-> [s \in QueryShards |-> NoShares],
           disturbed |-> 0, phase |-> "idle"]

QueryOpen == At("rounds") /\ sys.phase # "refused"

----------------------------------------------------------------------------
(* The shards: a write raises the epoch, a restart begins a new lifetime at *)
(* its first epoch.                                                         *)
ShardTo(s, c, claim) ==
    sys' = [sys EXCEPT !.at[s][c] = claim, !.ever[s] = @ \cup {claim}, !.disturbed = @ + 1]

ShardWrites ==
    /\ QueryOpen /\ sys.disturbed < MaxDisturbances
    /\ \E s \in QueryShards : \E c \in CopiesOf(s) :
         ShardTo(s, c, [sys.at[s][c] EXCEPT !.epoch = @ + 1])

ShardRestarts ==
    /\ QueryOpen /\ sys.disturbed < MaxDisturbances
    /\ \E s \in QueryShards : \E c \in CopiesOf(s) :
         ShardTo(s, c, [life |-> [sys.at[s][c].life EXCEPT ![3] = @ + 1], epoch |-> 1])

----------------------------------------------------------------------------
(* StatsCache.  A share keeps, for each term, the claim it was counted at.  *)
CountedAt(claim, terms) == [claim |-> claim, dfs |-> [t \in terms |-> claim]]

lookup_body_scoped(cache, s, scope, terms) ==
    scope \in DOMAIN cache[s] /\ terms \subseteq DOMAIN cache[s][scope].dfs

Joined2(slot, scope, share, clears) ==
    LET emptied == IF clears THEN NoShares ELSE slot
        held == IF scope \in DOMAIN emptied THEN emptied[scope].dfs ELSE <<>>
        over == Cardinality(DOMAIN held) + Cardinality(DOMAIN share.dfs)
                  > MAX_TERMS_PER_CHANNEL
        kept == IF over THEN <<>> ELSE held
    IN (scope :> [claim |-> share.claim, dfs |-> share.dfs @@ kept]) @@ emptied

store_scoped_Mixing(slot, scope, share) ==
    Joined2(slot, scope, share,
            scope \notin DOMAIN slot /\ Cardinality(DOMAIN slot) >= MAX_SCOPES_PER_NODE)
store_scoped(slot, scope, share) ==
    Joined2(slot, scope, share,
            \/ \E o \in DOMAIN slot : slot[o].claim # share.claim
            \/ /\ scope \notin DOMAIN slot
               /\ Cardinality(DOMAIN slot) >= MAX_SCOPES_PER_NODE)

invalidate_all == [s \in QueryShards |-> NoShares]

(* A late answer to any other request is stored, or one invalidates all. *)
OtherRequests ==
    /\ QueryOpen /\ sys.disturbed < MaxDisturbances
    /\ \/ \E s \in QueryShards, scope \in CacheScopes, t \in CacheTerms :
            \E claim \in sys.ever[s] :
              sys' = [sys EXCEPT !.disturbed = @ + 1,
                        !.cache[s] = store_scoped(@, scope, CountedAt(claim, {t}))]
       \/ sys' = [sys EXCEPT !.disturbed = @ + 1, !.cache = invalidate_all]

----------------------------------------------------------------------------
(* The request.                                                             *)
QueryAt(phase) == At("rounds") /\ sys.phase = phase
Refusal == [part |-> "rounds", phase |-> "refused", cache |-> sys.cache]

(* Shards may change between any two steps, so it is enough to follow the   *)
(* answers of a round in the order of the shards.                           *)
NextShard(set) == {s \in set : \A o \in set : s <= o}

(* A request arrives.  Its legs ask for different terms.  Within a query    *)
(* every route runs on the pinned clone; called directly, a route that does *)
(* not pin reads the primaries.                                             *)
Fields(route, scope, pinned, sent, terms, expected) ==
    [route |-> route, scope |-> scope, pinned |-> pinned, sent |-> sent,
     terms |-> [l \in 1..route.legs |-> IF l = 1 THEN terms ELSE CacheTerms],
     addr |-> [s \in QueryShards |-> "primary"], fresh |-> FALSE,
     expected |-> expected, reads |-> <<>>, cut |-> <<>>, shares |-> <<>>,
     scored |-> <<>>, fetched |-> <<>>, valid |-> {}]

AskQuery ==
    /\ QueryAt("idle")
    /\ \E route \in RouteKinds, scope \in CacheScopes, terms \in AskedTerms :
       \E pinned \in (IF route.pins THEN {TRUE} ELSE BOOLEAN) :
       \E sent \in (IF route.masks THEN SUBSET QueryShards ELSE {QueryShards}) :
         sys' = [Fields(route, scope, pinned, sent, terms, <<>>) @@ sys
                   EXCEPT !.phase = IF pinned THEN "pin" ELSE "stats"]

(* read_query_versions, one shard: the primary, or its replica after an     *)
(* error or a hedge.  pin_read_versions freezes the addresses that          *)
(* answered; the cursor of an earlier page must name the same versions.     *)
bind_read_versions(expected, reads) == expected \in {<<>>, reads}

pin_read_versions ==
    /\ QueryAt("pin")
    /\ \E s \in NextShard(QueryShards \ DOMAIN sys.reads) : \E c \in CopiesOf(s) :
       LET reads == (s :> sys.at[s][c]) @@ sys.reads
           addr == [sys.addr EXCEPT ![s] = c]
           read == [sys EXCEPT !.reads = reads, !.addr = addr]
       IN sys' =
          IF DOMAIN reads # QueryShards THEN read
          ELSE IF ~bind_read_versions(sys.expected, reads) THEN Refusal
          ELSE [read EXCEPT !.phase = "stats",
                  !.cut = [o \in QueryShards |-> sys.at[o][addr[o]]]]

(* body_stats: what the cache holds complete, unless a fresh round is due;  *)
(* a missing share is counted by its shard and stored.                      *)
RoundLegs(q) == 1..q.route.legs
LegShards(s) == RoundLegs(sys) \X {s}

SharesHeld(s) ==
    [p \in {p \in LegShards(s) :
              ~sys.fresh /\ lookup_body_scoped(sys.cache, s, sys.scope, sys.terms[p[1]])}
       |-> [sys.cache[s][sys.scope] EXCEPT !.dfs = Restrict(@, sys.terms[p[1]])]]

Looked == [sys EXCEPT !.phase = "count",
             !.shares = [p \in UNION {DOMAIN SharesHeld(s) : s \in QueryShards}
                           |-> SharesHeld(p[2])[p]]]

lookup_shares == QueryAt("stats") /\ sys' = Looked

Missing == (RoundLegs(sys) \X QueryShards) \ DOMAIN sys.shares

body_stats ==
    /\ QueryAt("count")
    /\ \E s \in NextShard({p[2] : p \in Missing}) :
       \E l \in NextShard({p[1] : p \in Missing \cap LegShards(s)}) :
       LET counted == CountedAt(sys.at[s][sys.addr[s]], sys.terms[l])
       IN sys' = [sys EXCEPT !.shares = (<<l, s>> :> counted) @@ @,
                             !.cache[s] = store_scoped(@, sys.scope, counted)]

(* One stale answer drops the cache and asks everyone afresh; a second one  *)
(* is the caller's.                                                         *)
AfterStale ==
    IF sys.fresh THEN Refusal
    ELSE [sys EXCEPT !.cache = invalidate_all, !.fresh = TRUE, !.phase = "stats",
                     !.shares = <<>>, !.scored = <<>>]

(* boolean_stats_round: the legs of a shard must name one version.          *)
LegsAgree == \A s \in QueryShards, l, m \in RoundLegs(sys) :
                sys.shares[<<l, s>>].claim = sys.shares[<<m, s>>].claim

boolean_stats_round ==
    /\ QueryAt("count") /\ Missing = {}
    /\ sys' = IF LegsAgree THEN [sys EXCEPT !.phase = "score"] ELSE AfterStale

(* One shard's round.  The request carries the claim of the shard's share,  *)
(* or of the read set when the route has no statistics; without either the  *)
(* shard answers whatever it holds.                                         *)
ClaimFor(s) == IF sys.route.legs > 0 THEN <<sys.shares[<<1, s>>].claim>>
               ELSE IF sys.pinned THEN <<sys.reads[s]>> ELSE <<>>

ShardRound ==
    /\ QueryAt("score")
    /\ \E s \in NextShard(sys.sent \ DOMAIN sys.scored) :
       LET current == sys.at[s][sys.addr[s]]
       IN sys' = IF ClaimFor(s) = <<>> \/ claim_check(current, ClaimFor(s)[1])
                 THEN [sys EXCEPT !.scored = (s :> current) @@ @]
                 ELSE IF sys.route.legs > 0 THEN AfterStale ELSE Refusal

RoundsDone ==
    /\ QueryAt("score") /\ sys.sent \subseteq DOMAIN sys.scored
    /\ sys' = [sys EXCEPT !.phase = IF sys.pinned THEN "fetch" ELSE "answered"]

(* fill_query_identities and fetch_values_at read at the pinned claims. *)
fetch_values ==
    /\ QueryAt("fetch")
    /\ \E s \in NextShard(sys.sent \ DOMAIN sys.fetched) :
       LET current == sys.at[s][sys.addr[s]]
       IN sys' = IF claim_check(current, sys.reads[s])
                 THEN [sys EXCEPT !.fetched = (s :> current) @@ @]
                 ELSE Refusal

(* validate_read_versions, after every phase and on every shard. *)
validate_read_versions ==
    /\ QueryAt("fetch") /\ sys.sent \subseteq DOMAIN sys.fetched
    /\ \E s \in NextShard(QueryShards \ sys.valid) :
       sys' = IF sys.at[s][sys.addr[s]] # sys.reads[s] THEN Refusal
              ELSE [sys EXCEPT !.valid = @ \cup {s},
                      !.phase = IF QueryShards = sys.valid \cup {s} THEN "answered" ELSE @]

(* The same query with the cursor its first page returned. *)
NextPage ==
    /\ QueryAt("answered") /\ sys.pinned /\ sys.expected = <<>>
    /\ sys' = [Fields(sys.route, sys.scope, TRUE, sys.sent,
                      IF sys.route.legs = 0 THEN CacheTerms ELSE sys.terms[1], sys.reads)
                 @@ sys EXCEPT !.phase = "pin"]

RoundsNext ==
    \/ ShardWrites \/ ShardRestarts \/ OtherRequests
    \/ AskQuery \/ pin_read_versions \/ lookup_shares \/ body_stats \/ boolean_stats_round
    \/ ShardRound \/ RoundsDone \/ fetch_values \/ validate_read_versions \/ NextPage

----------------------------------------------------------------------------
(* No cached share mixes counts of two versions of a shard, every shard     *)
(* that ranked an answered request did so with its own share at the version *)
(* it then was at, and a pinned query read its ranks and its values at one  *)
(* cross-shard instant, the same for every page of a cursor                 *)
(* (stats_cache.rs store_scoped; coordinator.rs execute_query).             *)
AnsweredAtOneVersion ==
    At("rounds") =>
      /\ \A s \in QueryShards : \A scope \in DOMAIN sys.cache[s] :
           Range(sys.cache[s][scope].dfs) \subseteq {sys.cache[s][scope].claim}
      /\ sys.phase = "answered" =>
           /\ \A s \in sys.sent, l \in RoundLegs(sys) :
                Range(sys.shares[<<l, s>>].dfs) \subseteq {sys.scored[s]}
           /\ sys.pinned =>
                /\ \A s \in sys.sent : sys.scored[s] = sys.cut[s] /\ sys.fetched[s] = sys.cut[s]
                /\ sys.expected \in {<<>>, sys.cut}

============================================================================
