---- MODULE MCNewsDesk ----
(* One market of an ordinary event and one of a multivariate event.  The   *)
(* commands start on an empty file, or on one left by sync-markets, track  *)
(* (of a market and of the event), snapshot and collect.                   *)
EXTENDS NewsDesk, TLC

CONSTANTS p1, p2, m1, m2, e1, e2, u1, u2

MCEventOf == (m1 :> e1) @@ (m2 :> e2)

MCStartListing == (m1 :> "open") @@ (m2 :> "settled")

Curated ==
    [EmptyDatabase EXCEPT
        !.events = (e1 :> [real |-> TRUE, cat |-> TRUE]) @@ (e2 :> [real |-> FALSE, cat |-> FALSE]),
        !.markets = (m1 :> [status |-> "open", cat |-> TRUE])
                    @@ (m2 :> [status |-> "open", cat |-> FALSE]),
        !.prices = {<<m1, 0>>},
        !.tracked = [EmptyDatabase.tracked EXCEPT ![m1] = "active", ![e1] = "active"],
        !.articles[u1] = 0,
        !.links = {<<u1, m1>>},
        !.scores = {u1}]

MCSyncOptions ==
    {{"mve_events", "max_pages"}, {"open_only", "exclude_mve"}}

MCSymmetry == Permutations({p1, p2})

(* The earlier export was made when m2 was not yet listed. *)
MCStarts ==
    {[db |-> EmptyDatabase, files |-> NoFiles],
     [db |-> Curated,
      files |-> [events |-> {e1}, markets |-> {m1}, settled |-> {}, prices |-> {<<m1, 0>>}]]}
====
