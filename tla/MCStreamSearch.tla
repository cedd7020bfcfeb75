--------------------------- MODULE MCStreamSearch ---------------------------
(* Small corpora for StreamSearch.                                         *)
EXTENDS StreamSearch, TLC

\* Negative scores and a tie across shards at the K-th place; the tied hits
\* arrive in either order.
PairScores == 0 :> <<-3, -2>> @@ 1 :> <<-1, -2>>
PairAllow == 0 :> {1, 2} @@ 1 :> {1, 2}
PairOffsets == 0 :> 0 @@ 1 :> 2

\* Two emissions fill a response path that holds one; one shard holds
\* no row, and one is skipped by the mask.
BlockScores == 0 :> <<1, 2>> @@ 1 :> <<>> @@ 2 :> <<7>>
BlockAllow == 0 :> {1, 2} @@ 1 :> {} @@ 2 :> {}
BlockOffsets == 0 :> 0 @@ 1 :> 2 @@ 2 :> 3

Lowest == -9

\* The shards differ by nothing but their fingerprints: one of two names is
\* given to the first.  Two fingerprints refuse the search before the columns
\* are looked at, so an unknown column is tried with one of them.
CONSTANT f
ExchangeInit == Init /\ fingerprint[0] = f /\ (known \/ fingerprint[1] = f)
ExchangeSpec == ExchangeInit /\ [][Next]_vars

=============================================================================
