---- MODULE MCDesks ----
(***************************************************************************)
(* The commands that keep their state in files, in one run.  They share no *)
(* file, so the first state says which of them is at work, and the other   *)
(* stays as it is.                                                         *)
(***************************************************************************)
EXTENDS Desks, TLC

CONSTANTS r1, r2, u1, u2, m1, m2, k1

VARIABLE atWork

(* research *)
DeskModes == {"fast", "standard"}
DeskEstimate == ("fast" :> [search |-> 1, answer |-> 2]) @@ ("standard" :> [search |-> 2, answer |-> 2])
DeskTheses == <<[id |-> 1, edited |-> FALSE, status |-> "active"]>>
DeskTyped == {{}, {1}, {1, 2, 3}}

(* alerts *)
Cond(kind, ticker, level, expires) == [kind |-> kind, ticker |-> ticker, level |-> level, expires |-> expires]
WatchedConditions == <<Cond("price_crosses", k1, 5, FALSE), Cond("price_above", k1, 6, FALSE),
                       Cond("edge_detected", k1, 4, TRUE)>>
FirstAlerts == <<1, 3>>
AlertTyped == {{1}, {1, 3}}
Quote(mid, spread, volume, shift) == [mid |-> mid, spread |-> spread, volume |-> volume, shift |-> shift]
SeenQuotes == {Quote(4, 1, 1, 0), Quote(8, 1, 3, 0)}

----
DesksInit ==
    /\ atWork \in {"research", "alerts"}
    /\ ResearchInit /\ AlertInit
    /\ atWork = "research" => log = 0

DesksNext ==
    \/ atWork = "research" /\ ResearchNext /\ UNCHANGED <<atWork, alertDesk>>
    \/ atWork = "alerts" /\ AlertNext /\ UNCHANGED <<atWork, research>>

DesksSpec == DesksInit /\ [][DesksNext]_<<atWork, research, alertDesk>>

Users2 == Permutations({r1, r2}) \union Permutations({u1, u2}) \union Permutations({m1, m2})
====
