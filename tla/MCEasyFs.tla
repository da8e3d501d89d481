------------------------------- MODULE MCEasyFs -------------------------------
(* EasyFs for TLC. *)
EXTENDS EasyFs, TLC

(* With blocks of two, files of every number of data blocks from 1 to 7, the  *)
(* most there can be: 3 is the last single indirect one, 5 the last of the    *)
(* first inner index block.                                                   *)
SomeExtents ==
  {<<0, 1>>, <<1, 2>>, <<4, 2>>, <<5, 2>>, <<8, 2>>, <<9, 2>>, <<12, 2>>}

(* Names are only compared with each other. *)
NameSymmetry == Permutations(Name)
===============================================================================
