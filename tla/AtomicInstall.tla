----------------------------- MODULE AtomicInstall -----------------------------
(***************************************************************************)
(* What the installation engine promises about the host, whatever fails:     *)
(* a host is as it was found, being changed, or installed. A change ends in   *)
(* one of the two others, and an installed host is never taken apart.         *)
(***************************************************************************)

VARIABLE host

Hosts == {"original", "changing", "installed"}

Init == host = "original"

\* Installing starts on an untouched host only.
Begin == host = "original" /\ host' = "changing"

\* The installation is complete.
Finish == host = "changing" /\ host' = "installed"

\* Rolled back, at once or by a later request.
Restore == host = "changing" /\ host' = "original"

Next == Begin \/ Finish \/ Restore

Spec == Init /\ [][Next]_host

===============================================================================
