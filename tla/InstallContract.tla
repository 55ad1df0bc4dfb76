-------------------------- MODULE InstallContract --------------------------
(***************************************************************************)
(* What transaction::install promises to its two callers (mux update and    *)
(* the installer's install-bundle) about the installation as a whole.       *)
(* While it runs, the files may be a mixture and the receipt may be absent; *)
(* it ends with the complete new installation, with the complete previous   *)
(* one, or, when the process died or an undo step failed, with an error and *)
(* an installation that needs repair.                                       *)
(***************************************************************************)
VARIABLES
  outcome,  (* "running", "committed", "restored" or "broken"               *)
  files,    (* the files: "before", "mixed" or "after"                      *)
  receipt   (* the receipt: "before", "absent" or "after"                   *)

vars == <<outcome, files, receipt>>

FilesStates   == {"before", "mixed", "after"}
ReceiptStates == {"before", "absent", "after"}

Init ==
  /\ outcome = "running"
  /\ files   = "before"
  /\ receipt = "before"

(* A step of a running transaction.  The receipt of the new version appears *)
(* only over the complete new files.                                        *)
Work ==
  /\ outcome = "running" /\ outcome' = "running"
  /\ files'   \in FilesStates
  /\ receipt' \in ReceiptStates
  /\ receipt' = "after" => files' = "after"

Commit ==
  /\ outcome = "running" /\ outcome' = "committed"
  /\ files = "after" /\ receipt = "after"
  /\ UNCHANGED <<files, receipt>>

Restore ==
  /\ outcome = "running" /\ outcome' = "restored"
  /\ files = "before" /\ receipt = "before"
  /\ UNCHANGED <<files, receipt>>

(* The process is gone, or a rollback step failed and the rest of the       *)
(* rollback still runs.                                                     *)
Break ==
  /\ outcome \in {"running", "broken"} /\ outcome' = "broken"
  /\ files'   \in FilesStates
  /\ receipt' \in ReceiptStates

Next == Work \/ Commit \/ Restore \/ Break

Spec == Init /\ [][Next]_vars

=============================================================================
