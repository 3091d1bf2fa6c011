--------------------------- MODULE MCUserTests ---------------------------
(* The programs on the disk; every test in turn.                           *)
EXTENDS UserTests
MCFiles == <<[name |-> "README", data |-> <<8, 8>>], [name |-> "echo", data |-> <<99>>],
             [name |-> "cat", data |-> <<99>>]>>
MCRun == DOMAIN Tests
MCNPROC == [t \in MCRun |-> IF t = "forkforkfork" THEN 5
                          ELSE IF t \in {"grind_forks", "grind_pipes"} THEN 6 ELSE 7]
=============================================================================
