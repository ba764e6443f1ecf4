---- MODULE MCExchange ----
(***************************************************************************)
(* Programs that ask the exchange and share nothing but the exchange, in   *)
(* one run: the retry loop of a client's call, the scan commands, and the  *)
(* scripts that record golden fixtures.  The first state says which of     *)
(* them is at work and the others stay as they are.                        *)
(***************************************************************************)
EXTENDS OrderClient, MarketScan, GoldenFixtures, TLC

CONSTANTS create, decrease, cancel, read, r1, k1, k2, k3, e1, e2

VARIABLE atWork

(* One endpoint of each kind. *)
OneOfEach ==
    [e \in Endpoints |-> IF e = create THEN "keyed" ELSE IF e = decrease THEN "relative"
                        ELSE IF e = cancel THEN "absolute" ELSE "read"]

(* scan *)
Market(active, bid, ask, volume, created, closes) ==
    [active |-> active, bid |-> bid, ask |-> ask, volume |-> volume, created |-> created, closes |-> closes]
ScanListing == <<k1, k2, k3>>
ScanEventOf == (k1 :> e1) @@ (k2 :> e1) @@ (k3 :> e2)
ScanCategory == (e1 :> "Politics") @@ (e2 :> None)
ScanClassOf == (e1 :> "World") @@ (e2 :> "Other")
CloseRace == Market(TRUE, 44, 50, 9000, 0, 1)
Even == Market(TRUE, 50, 56, 200, -2, 3)
Empty == Market(TRUE, 0, 100, 0, 0, 3)
ScanBoards == {(k1 :> a) @@ (k2 :> b) @@ (k3 :> c) :
    <<a, b, c>> \in {<<CloseRace, Even, Empty>>, <<Even, CloseRace, CloseRace>>,
                     <<Even, Even, Empty>>, <<Empty, CloseRace, Even>>}}
ScanChanges == {Market(FALSE, 44, 50, 9000, 0, 1), Market(TRUE, 70, 74, 12000, 0, 3), Market(TRUE, None, 30, 0, -2, 3)}
Snap(at, twice) == [at |-> at, twice |-> twice]
ScanHistories == {(k1 :> <<Snap(0, 90), Snap(-1, 100), Snap(-3, 60)>>) @@ (k2 :> <<Snap(0, 90), Snap(0, 96)>>)
                  @@ (k3 :> <<Snap(-1, 80), Snap(-2, 80), Snap(-2, 110), Snap(-3, 40)>>)}
ScanCorrelated == {[tickers |-> {k1, k2}, kind |-> "negative"], [tickers |-> {k1, k3}, kind |-> "positive"]}
ScanBooks == {[yes |-> <<Level(44, 900), Level(40, 100)>>, no |-> <<Level(50, 700)>>],
              [yes |-> <<Level(44, 5)>>, no |-> <<>>]}
LadderLevels == {Level(p, q) : p \in {40, 43, 49}, q \in {1, 3}}
LadderSides == {<<>>} \union {<<a>> : a \in LadderLevels}
    \union {s \in LadderLevels \X LadderLevels : s[1].price # s[2].price}
    \union {<<Level(40, 2), Level(49, 1), Level(43, 2)>>, <<Level(49, 4), Level(43, 3), Level(40, 5)>>}
ScanLadders == [yes : LadderSides, no : {<<Level(41, 2), Level(50, 3), Level(45, 4)>>}]
    \union {[yes |-> <<>>, no |-> <<>>]}
Opportunities(filter, minLiquidity, top, early, wanted) ==
    [cmd |-> "opportunities", filter |-> filter, minLiquidity |-> minLiquidity, top |-> top, early |-> early,
     wanted |-> wanted, maxPages |-> 9, range |-> <<40, 60>>, maxSpread |-> 10, minVolume |-> 100,
     volumeFrom |-> 1000, spreadFrom |-> 5, within |-> 1]
Report(cmd, hours, top, maxPages) ==
    [cmd |-> cmd, hours |-> hours, top |-> top, maxPages |-> maxPages, wanted |-> None, unpriced |-> FALSE,
     kinds |-> {"Politics", "Other"}, threshold |-> 2, minLiquidity |-> None]
ScanCommands ==
    {Opportunities("close-race", 30, 1, None, None), Opportunities("close-race", None, 2, 1, {e1}),
     Opportunities("high-volume", 30, 1, None, {e1, e2}), Opportunities("wide-spread", None, 1, None, None),
     Opportunities("expiring-soon", None, 2, None, None),
     Report("new-markets", 1, 2, 9), Report("movers", 2, 2, 9),
     Report("arbitrage", 1, 2, 9), Report("arbitrage", 1, 1, 1)}
    \union {[cmd |-> "liquidity", cents |-> c, minLiquidity |-> None] : c \in {0, 2}}

(* golden fixtures *)
Recorder(which, env, writes, creates, go) ==
    [endpoint |-> which, env |-> env, writes |-> writes, creates |-> creates, go |-> go]
RecorderCommands ==
    {Recorder("all", "prod", FALSE, FALSE, TRUE), Recorder("phase4", "demo", TRUE, FALSE, TRUE),
     Recorder("phase4", "demo", FALSE, FALSE, TRUE), Recorder("phase5", "demo", FALSE, TRUE, TRUE),
     Recorder("order_ops", "demo", FALSE, FALSE, TRUE),
     Recorder("authenticated", "prod", TRUE, FALSE, TRUE), Recorder("public", "prod", FALSE, FALSE, FALSE)}
TrackedFiles == {"candlesticks_batch", "order_group_create", "create_order", LookupFile}
ModelAliases == "A" :> "a"

----
ExchangeInit ==
    /\ atWork \in {"client", "scan", "golden"}
    /\ Init /\ ScanInit /\ GoldenInit
    /\ atWork # "scan" => board = CHOOSE b \in Boards : TRUE
    /\ atWork # "golden" => fixtures = [f \in Tracked |-> NoFile]

ExchangeNext ==
    \/ atWork = "client" /\ Next /\ UNCHANGED <<atWork, screen, golden>>
    \/ atWork = "scan" /\ ScanNext /\ UNCHANGED <<atWork, vars, golden>>
    \/ atWork = "golden" /\ GoldenNext /\ UNCHANGED <<atWork, vars, screen>>

ExchangeSpec == ExchangeInit /\ [][ExchangeNext]_<<atWork, vars, screen, golden>>
====
