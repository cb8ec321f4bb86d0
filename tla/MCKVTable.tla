----------------------------- MODULE MCKVTable -----------------------------
(* Instances of KVTable for TLC.                                             *)
EXTENDS KVTableProofs

\* Requests whose keys belong to one server, with keys that collide: 4, 8 and
\* 12 at slot 0, 1 and 5 at slot 1, 3 and 7 at the last slot.
OneServerAsks == {<<4, 8>>, <<12, 0>>, <<1, 5>>, <<7, 3>>}

\* A request with a key of each of two servers.
TwoServerAsks == {<<4, 1>>}

\* Requests for one key.
SingleAsks == {<<2>>, <<4>>}
=============================================================================
