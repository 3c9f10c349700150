----------------------------- MODULE MCRouteFiles -----------------------------
(* RouteFiles on a small card: two files, two or three routes. *)
EXTENDS RouteFiles

mcRoutes == {"empty", "a", "b"}
mcTwoRoutes == {"empty", "a"}

OldRoute == [route |-> "a", canonical |-> FALSE]

\* Backups and copies are made by the program.
MCInit ==
    /\ Init
    /\ files[0] \in {Absent, Unreadable, OldRoute}
    /\ files[1] \in {Absent, OldRoute}
    /\ backups = [n \in Names |-> Absent]
    /\ legacy \in {Absent, OldRoute}
    /\ setting = Absent

MCSpec == MCInit /\ [][Next]_vars
=============================================================================
