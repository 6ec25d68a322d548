----------------------------- MODULE MCFramework -----------------------------
(* A component with one callback that posts a stop event and another event. *)
EXTENDS Framework

CONSTANTS lic, ask, news, stopTopic, info, fw, cb

MCEvents == {lic, ask, news}
MCTopics == {stopTopic, info}
MCSubs == {fw, cb}
MCName == [e \in MCEvents |-> IF e = news THEN info ELSE stopTopic]
=============================================================================
