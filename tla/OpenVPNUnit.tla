------------------------------ MODULE OpenVPNUnit ------------------------------
(***************************************************************************)
(* The unit openvpn-server@server as systemctl shows it: the version of the   *)
(* package that runs, and the configuration it was started with.               *)
(***************************************************************************)
EXTENDS Integers

Down == [active |-> FALSE, run |-> 0, conf |-> 0]

\* systemctl start or restart, with a package and a configuration that are whole.
Started(package, conf) ==
    IF package > 0 /\ conf > 0 THEN [active |-> TRUE, run |-> package, conf |-> conf] ELSE Down

===============================================================================
