---------------------------- MODULE CaseRequests ----------------------------
(***************************************************************************)
(* What the handlers of the case services have in common: a request reads  *)
(* rows in a session of its own, decides on what it read, and commits.     *)
(* Nothing locks a row between the two, and no row has a version column    *)
(* that an UPDATE compares.  Each service keeps as a history variable the  *)
(* requests that are overtaken: at work while another one committed.       *)
(***************************************************************************)

CONSTANTS
  Requester   \* requests being served at the same time

ASSUME RequesterAssumption == "none" \notin Requester

(* The value of a column after a commit: an UPDATE names the attributes     *)
(* that differ from what was loaded.                                        *)
Column(stored, loaded, assigned) == IF assigned = loaded THEN stored ELSE assigned
=============================================================================
