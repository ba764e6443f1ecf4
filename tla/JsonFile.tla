---- MODULE JsonFile ----
(***************************************************************************)
(* A JSON storage file (theses.json, alerts.json): a list of entries that  *)
(* is read whole, changed in memory and rewritten whole.  An identifier    *)
(* typed by the user is a prefix; what matters of it is the set of ids it  *)
(* is a prefix of.                                                         *)
(***************************************************************************)
EXTENDS Integers, SequencesExt

CONSTANT Null    \* nothing there

Matching(items, prefix) == {i \in DOMAIN items : items[i].id \in prefix}

(* The thesis commands take the first match, in the order of the file. *)
FirstMatch(items, prefix) ==
    CHOOSE i \in Matching(items, prefix) : \A j \in Matching(items, prefix) : i <= j

(* The alert commands insist on a single one. *)
OnlyMatch(items, prefix) == Cardinality(Matching(items, prefix)) = 1
====
