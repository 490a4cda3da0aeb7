------------------------ MODULE MCVersionedTransaction ------------------------
(* Instances of VersionedTransaction for TLC.  Key 1 pays, 2 co-signs, 3    *)
(* and 4 may be looked up, 5 is a program, 6 fills a table that is too      *)
(* long: there 3 stands at the index Radix, whose byte says 2, and 4 at the *)
(* one after.                                                               *)
EXTENDS VersionedTransaction

A(k, s, w) == [key |-> k, signer |-> s, writable |-> w]
Call(metas) == [program |-> 5, metas |-> metas, data |-> "whole"]

Pay   == Call(<<A(1, TRUE, TRUE), A(2, TRUE, FALSE), A(3, FALSE, TRUE)>>)
Ask   == Call(<<A(2, TRUE, TRUE), A(3, FALSE, FALSE)>>)
Look  == Call(<<A(4, FALSE, FALSE), A(3, FALSE, FALSE), A(5, FALSE, FALSE)>>)
Write == Call(<<A(4, FALSE, TRUE), A(6, FALSE, FALSE)>>)

MCRequests == {<<Pay>>, <<Look>>, <<Ask, Look>>, <<Pay, Look>>, <<Pay, Write>>}

MCOrders == {p \o q : p \in {<<1, 2>>, <<2, 1>>}, q \in {<<3, 4, 5, 6>>, <<6, 5, 4, 3>>}}

TableAt(key, entries) == [key |-> key, entries |-> entries]
Long == TableAt("long", <<2, 6, 6, 6, 6, 3, 4>>)
MCTableStages ==
  << <<TableAt("a", <<3>>), TableAt("b", <<5, 4>>), Long>>,
     <<TableAt("a", <<3, 4>>), TableAt("b", <<5, 4, 3>>), Long>> >>
MCTableChoices == {<<2, 1>>, <<3>>}
MCSignerLists == {<<1>>, <<2, 3, 1>>}
=============================================================================
