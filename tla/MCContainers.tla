---------------------------- MODULE MCContainers ----------------------------
(* Instance: the way round by 1 is cheaper than the direct edge from 0 to  *)
(* 2, and the edges close a circle.                                        *)
EXTENDS Containers

SomeLinks == {<<0, 1, 1>>, <<1, 2, 1>>, <<0, 2, 3>>, <<2, 0, 3>>}
=============================================================================
