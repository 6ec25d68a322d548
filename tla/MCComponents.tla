---------------------------- MODULE MCComponents ----------------------------
(***************************************************************************)
(* Components for TLC: the three policies, every set and order of the four *)
(* components, and two threads of the server.                              *)
(***************************************************************************)
EXTENDS Components

MCPolicies == {"TypeID", "Index", "GUID"}
MCInterfaces == {"IProtoRpcServer", "ICmdService", "IHelloService"}

=============================================================================
