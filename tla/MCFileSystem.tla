--------------------------- MODULE MCFileSystem ---------------------------
(* Calls of two processes on a small disk: a file b, a directory a, and      *)
(* another name of b, or another file, in it.                                *)
EXTENDS FileCalls
MCFiles == <<[name |-> "b", data |-> <<5>>]>>
Path(sys, path) == [sys |-> sys, path |-> path, bad |-> FALSE, mode |-> {}, major |-> 0,
                    rmdir |-> FALSE]
A == <<"/", "a">>
AB == <<"/", "a", "b">>
B == <<"/", "b">>
MCCall ==
  [p \in 1 .. 2 |->
     {[sys |-> "close", fd |-> 0], Path("unlink", AB)} \cup
     IF p = 1
     THEN {Path("mkdir", A), [Path("unlink", A) EXCEPT !.rmdir = TRUE],
           Path("unlink", <<"/", "a", ".">>),
           [Path("open", B) EXCEPT !.mode = {"WRONLY", "TRUNC"}],
           [sys |-> "read", fd |-> 0, n |-> 1, bad |-> FALSE]}
     ELSE {Path("chdir", A), Path("unlink", <<"..", "b">>), [sys |-> "exit"],
           [sys |-> "link", path |-> B, new |-> AB, bad |-> FALSE],
           [Path("open", AB) EXCEPT !.mode = {"CREATE", "RDWR"}],
           [sys |-> "write", fd |-> 0, n |-> 5, v |-> 5, bad |-> FALSE]}]
=============================================================================
