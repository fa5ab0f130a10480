----------------------------- MODULE MCCoordinator -----------------------------
(***************************************************************************)
(* A busy publisher, a client that sends a single request after its HELLO  *)
(* (and may be the publisher's successor, or a second publisher that there *)
(* is no room for) and one that only connects, at two places.              *)
(***************************************************************************)
EXTENDS Coordinator

CONSTANTS busy, brief, mute, p1, p2

MCClients == {busy, brief, mute}
MCPublishers == {p1, p2}
MCOperators == {brief}
MCRegistersAs == [c \in MCClients |-> IF c = brief THEN Publishers ELSE {p1}]
MCMaxRequests == [c \in MCClients |-> CASE c = busy -> 5 [] c = brief -> 2 [] c = mute -> 0]

================================================================================
