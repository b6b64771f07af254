--------------------- MODULE MCRepositoryManipulation ---------------------
(* Instances of RepositoryManipulation for TLC. *)
EXTENDS RepositoryManipulation

\* A directory below another and a file or directory in it, an entry beside
\* them, "./d" and "./g", which resolve to the first and the last of these, and
\* a name outside the workspace.
MCNames == {"d", "d/e", "d/e/f", "g", "./d", "./g", "../out"}
MCPath  == [n \in MCNames |-> CASE n = "./d" -> "d" [] n = "./g" -> "g" [] OTHER -> n]
MCAbove == [n \in MCNames |-> CASE n = "d/e"   -> {"d"}
                                [] n = "d/e/f" -> {"d", "d/e"}
                                [] OTHER       -> {}]
MCUnsafe == {"../out"}

MCRequests ==
    [kind : {"create_file", "delete_directory"}, path : {"d", "d/e", "d/e/f", "g"},
     dest : {Root}, flag : BOOLEAN]
    \cup [kind : {"modify_file", "delete_file", "create_directory"},
          path : {"d", "d/e", "d/e/f", "g"}, dest : {Root}, flag : {FALSE}]
    \cup [kind : {"move_file"}, path : {"d/e/f", "g"}, dest : {"d", "d/e/f", "./g"}, flag : {FALSE}]
    \cup [kind : {"rename_file"}, path : {"g"}, dest : {"../out", "d/e"}, flag : {FALSE}]
    \cup [kind : {"create_file"}, path : {"./g", "../out"}, dest : {Root}, flag : {FALSE}]
    \cup [kind : {"create_directory", "delete_directory"}, path : {"./d"}, dest : {Root}, flag : {FALSE}]

\* A directory by its two spellings.
MCSpellings ==
    [kind : {"create_directory", "delete_directory"}, path : {"d", "./d"}, dest : {Root},
     flag : {FALSE}]
=============================================================================
