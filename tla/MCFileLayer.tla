----------------------------- MODULE MCFileLayer -----------------------------
(* FileLayer for TLC: paths of one and two names, ones that name "." and      *)
(* "..", one that starts at the root.                                         *)
EXTENDS FileLayer

SomePaths == {[abs |-> FALSE, parts |-> <<"a">>],
              [abs |-> FALSE, parts |-> <<"a", "b">>],
              [abs |-> FALSE, parts |-> <<"..">>],
              [abs |-> FALSE, parts |-> <<"a", ".">>],
              [abs |-> TRUE, parts |-> <<"a">>]}
===============================================================================
