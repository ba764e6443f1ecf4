---- MODULE Desks ----
(***************************************************************************)
(* The commands that keep their state in files of the data directory:      *)
(* research with its cache and theses.json, alerts with alerts.json and    *)
(* its log.  They share no file, so that both are at work at once.         *)
(***************************************************************************)
EXTENDS ResearchDesk, AlertDesk

FilesSpec == ResearchSpec /\ AlertSpec

(* No step loses a thesis, an alert or half of a file: theses.json and     *)
(* alerts.json are always whole and change by what a completed command     *)
(* says, unless another one overlapped it (atomic_write_json).             *)
FilesKept == ThesesKept /\ AlertsKept
====
