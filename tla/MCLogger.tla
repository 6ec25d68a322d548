------------------------------- MODULE MCLogger -------------------------------
(* The logger for TLC: two threads that log, and the owner. *)
EXTENDS Logger

CONSTANTS w1, w2

MCWriters == {w1, w2}

\* One older file, ".0", and a limit of one line; three older files, and a rotation
\* at every write.
MCSettings == {<<0, 1>>, <<3, 0>>}
=============================================================================
