--------------------------- MODULE MCWorkerTable ---------------------------
(* Instances of WorkerTable for TLC.                                         *)
EXTENDS WorkerTableProofs

\* A job with one server, and one with all of them.
OneOrAll == {{CHOOSE s \in Servers : TRUE}, Servers}

\* An ArrayTable involves every server; a KVTable those that own a key it asks
\* for, here all of them or a single one.
KVTargets == OneOrAll
=============================================================================
