--------------------------------- MODULE MCVfs ---------------------------------
(* One folder, two file names and a path that ends in the folder; headers of  *)
(* 1 byte, nodes of 1, so that a heap of 13 takes two files and a few writes,  *)
(* or runs out in the middle of a creation.                                   *)
EXTENDS Vfs

MCDir == <<"t">>
MCPaths == {<<"/", "t", "/", "a">>, <<"/", "t", "/", "b">>, <<"/", "t", "/">>, <<"/">>}
MCTexts == {<<"x">>, <<"y", "z">>}
MCLens == {1}
=============================================================================
