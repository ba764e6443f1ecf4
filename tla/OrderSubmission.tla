--------------------------- MODULE OrderSubmission ---------------------------
(***************************************************************************)
(* What the layers above the order client rely on when they hand it an     *)
(* order: the order may reach the exchange as long as the call is open, and *)
(* possibly later; it is placed at most once; the call answers only after   *)
(* it was placed, and a call that fails says nothing about the order.       *)
(***************************************************************************)
EXTENDS Naturals

CONSTANT Submissions

VARIABLES
    status,     \* status[s]: "idle", "open", "ok" or "failed"
    wire,       \* wire[s]: the order may still reach the exchange
    placed      \* placed[s]: how many orders the exchange took for s

vars == <<status, wire, placed>>

Init ==
    /\ status = [s \in Submissions |-> "idle"]
    /\ wire = [s \in Submissions |-> FALSE]
    /\ placed = [s \in Submissions |-> 0]

(* The order is handed over.                                               *)
Open(s) ==
    /\ status[s] = "idle"
    /\ status' = [status EXCEPT ![s] = "open"]
    /\ wire' = [wire EXCEPT ![s] = TRUE]
    /\ UNCHANGED placed

(* Refused before anything is sent.                                        *)
Reject(s) ==
    /\ status[s] = "idle"
    /\ status' = [status EXCEPT ![s] = "failed"]
    /\ UNCHANGED <<wire, placed>>

Place(s) ==
    /\ wire[s]
    /\ placed[s] = 0
    /\ placed' = [placed EXCEPT ![s] = 1]
    /\ wire' = [wire EXCEPT ![s] = FALSE]
    /\ UNCHANGED status

Answer(s) ==
    /\ status[s] = "open"
    /\ placed[s] = 1
    /\ status' = [status EXCEPT ![s] = "ok"]
    /\ UNCHANGED <<wire, placed>>

(* The order may be placed after the call failed, unless it was withdrawn. *)
Fail(s) ==
    /\ status[s] = "open"
    /\ status' = [status EXCEPT ![s] = "failed"]
    /\ \E still \in {FALSE, wire[s]} : wire' = [wire EXCEPT ![s] = still]
    /\ UNCHANGED placed

Lose(s) ==
    /\ status[s] = "failed"
    /\ wire' = [wire EXCEPT ![s] = FALSE]
    /\ UNCHANGED <<status, placed>>

Next ==
    \E s \in Submissions :
        Open(s) \/ Reject(s) \/ Place(s) \/ Answer(s) \/ Fail(s) \/ Lose(s)

Spec == Init /\ [][Next]_vars

=============================================================================
