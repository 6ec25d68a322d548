--------------------------------- MODULE MCRpc ---------------------------------
(* A login and another call on a thread each, and two reconnections. *)
EXTENDS Rpc

CONSTANTS login, ask

MCCalls == {login, ask}
MCKind == [c \in MCCalls |-> IF c = login THEN "login" ELSE "other"]
=============================================================================
