--------------------------- MODULE MCProvisioner ---------------------------
(***************************************************************************)
(* Instances of Provisioner for TLC.                                       *)
(***************************************************************************)
EXTENDS Provisioner

OneTask == {"t1"}
OneView == {"Inbox"}
StatusOnly == {"Status"}
StatusAndDay == {"Status", "Day"}
============================================================================
