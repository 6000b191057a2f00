------------------------------ MODULE MCSlaves ------------------------------
(* The instances of Slaves that TLC checks. *)
EXTENDS Slaves, TLC

Scope(kinds, on, live, outage, reinstall) ==
    [kinds |-> kinds, on |-> on, live |-> live, outage |-> outage, reinstall |-> reinstall, zones |-> Fqdns]

LabelOf == [f \in Fqdns |-> CASE f = "h.example" -> "hub" [] f = "a.example" -> "a" [] OTHER -> "b"]

\* A machine to deploy, a deployed one with the runs that change it, and two with one of them to come.
Beginnings ==
    {Scope({"deploy", "delete-server"}, {"a"}, {"hub"}, FALSE, FALSE),
     Scope({"redeploy", "password-on"}, {"a"}, {"hub", "a"}, TRUE, TRUE),
     Scope({"redeploy"}, {"hub"}, {"hub"}, FALSE, FALSE),
     Scope({"rename"}, {"a"}, {"hub", "a"}, FALSE, FALSE),
     [Scope({"rename"}, {"a"}, {"hub", "a"}, FALSE, FALSE) EXCEPT !.zones = {"h.example"}],
     Scope({"remove", "deploy"}, {"a"}, {"hub", "a"}, TRUE, FALSE),
     Scope({"password-on", "password-off", "key-place", "key-remove", "key-read"}, {"a"}, {"hub", "a"}, TRUE, FALSE),
     Scope({"tailnet-disconnect", "tailnet-reconnect", "tailnet-rejoin", "tailnet-read"}, {"hub", "a"}, {"hub", "a"}, FALSE, FALSE),
     Scope({"redeploy-slaves", "password-on"}, {"a", "b"}, {"hub", "a", "b"}, FALSE, FALSE),
     Scope({"redeploy-slaves", "deploy"}, {"b"}, {"hub", "a"}, FALSE, FALSE)}

Symmetry == Permutations(Runs)
=============================================================================
