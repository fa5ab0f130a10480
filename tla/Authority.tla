------------------------------- MODULE Authority -------------------------------
(***************************************************************************)
(* What publisher authority promises, without registrations, fenced boot   *)
(* sets, epochs or durable images: an identity (publisher id, boot, epoch) *)
(* may be granted authority once.  When it loses it, because the publisher *)
(* died, was fenced, registered again, or the coordinator went away, that  *)
(* identity never holds authority again, and a publisher never holds two   *)
(* identities at once.                                                     *)
(***************************************************************************)

CONSTANT Identities   \* the identities [pub, boot, epoch] that can be assigned

VARIABLES
  live,    \* the identities that hold authority now
  spent    \* every identity that was ever granted authority

vars == <<live, spent>>

Init ==
  /\ live = {}
  /\ spent = {}

\* A fresh identity replaces whatever identity its publisher held.
Grant(i) ==
  /\ i \notin spent
  /\ spent' = spent \cup {i}
  /\ live' = {j \in live : j.pub # i.pub} \cup {i}

\* Some identities lose authority: one on a death or a fence, all on a restart.
Revoke(lost) ==
  /\ lost # {}
  /\ live' = live \ lost
  /\ UNCHANGED spent

Next ==
  \/ \E i \in Identities : Grant(i)
  \/ \E lost \in SUBSET live : Revoke(lost)

Spec == Init /\ [][Next]_vars

================================================================================
