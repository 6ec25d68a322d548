---------------------------- MODULE MCProtoCodec ----------------------------
(***************************************************************************)
(* ProtoCodec for TLC, with every width a quarter of the real one: bytes   *)
(* of 2 bits, ints of 8, a long of 8 bits on Windows and 16 on Linux; BASE *)
(* is the largest prime below 2^4, and NMAX the largest n with             *)
(* 3n(n+1)/2 + (n+1)(BASE-1) <= 2^8 - 1, made even.                        *)
(***************************************************************************)
EXTENDS ProtoCodec

MCSignedBytes == -2 .. 1
MCBodies == UNION {[1 .. n -> MCSignedBytes] : n \in 0 .. 2}
              \cup {<<-2, -2, -2, 1>>, <<1, -2, -2, -2, -2, 1>>, <<-1, -1, -1, -1, 1, 1, 1, 1, 1>>,
                    <<-2, -2, -2, -2, -2, -2, -2, -2, -2, 1, 1, 1>>}
MCMessages == [seq : {0, 30, 250}, name : {<<1>>, <<1, 1>>, <<1, 1, 1>>}, body : MCBodies]
MCKnownNames == {<<1>>, <<1, 1, 1>>}
MCHosts == LET all == [endian : {"BIG", "LITTLE"}, longMod : {256, 65536}] IN all \X all

=============================================================================
