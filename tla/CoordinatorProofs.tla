----------------------------- MODULE CoordinatorProofs -----------------------------
(***************************************************************************)
(* Proofs about the coordinator's event loop, for any number of clients    *)
(* and publishers, any limits, and requests sent at any time.              *)
(***************************************************************************)
EXTENDS Coordinator, TLAPS

--------------------------------------------------------------------------------
(* The control part of the inductive invariant.                            *)

Stages == {"off", "connected", "greeted", "registered", "refused"}
Kinds == {"Hello", "Register", "Query", "Shutdown", "Garbage", "Fence", "Publish"}
Frames == [kind : Kinds, about : Publishers \cup {None}]

CoordinatorTypeOK ==
  /\ stage \in [Clients -> Stages]
  /\ waiting \in [Clients -> Nat]
  /\ sent \in [Clients -> Nat]
  /\ hung \subseteq Clients
  /\ backlog \subseteq Clients
  /\ inbox \in [Clients -> Seq(Frames)]
  /\ loop \in {"top", "select", "read", "retire", "dispatch", "stopped"}
  /\ token \in BOOLEAN
  /\ sessions \subseteq Clients
  /\ greeted \subseteq Clients
  /\ owner \in [Clients -> Identity \cup {None}]
  /\ unread \subseteq Clients
  /\ dead \subseteq Clients
  /\ batch \in [Clients -> Seq(Frames)]
  /\ serving \in Clients \cup {None}
  /\ boot \in [Publishers -> Nat]
  /\ live \subseteq Identity
  /\ fenced \subseteq Publishers

\* What a turn of the loop holds between its steps: the sessions to be read and those
\* found dead are distinct sessions, and frames wait only for sessions that are not dead.
TurnInv ==
  /\ unread \subseteq sessions \ dead
  /\ dead \subseteq sessions
  /\ loop # "read" => unread = {}
  /\ loop \notin {"read", "retire"} => dead = {}
  /\ loop \notin {"read", "retire", "dispatch"} => batch = Empty
  /\ \A c \in Clients : batch[c] # <<>> => c \in sessions \ dead

\* The stage in which a client sends a frame of a kind.
SentIn(f) ==
  CASE f.kind = "Hello" -> "connected"
    [] f.kind = "Publish" -> "registered"
    [] OTHER -> "greeted"

\* A frame under way was sent in the stage its sender is still in: only a registered
\* publisher is ahead of its answers.  A registration names a publisher.
PendingInv ==
  \A c \in Clients :
    /\ Len(inbox[c]) + Len(batch[c]) <= waiting[c]
    /\ stage[c] # "registered" => waiting[c] <= 1
    /\ \A n \in 1 .. Len(inbox[c]) : SentIn(inbox[c][n]) = stage[c]
    /\ \A n \in 1 .. Len(batch[c]) : SentIn(batch[c][n]) = stage[c]
    /\ \A n \in 1 .. Len(inbox[c]) :
         inbox[c][n].kind \in {"Register", "Fence"} => inbox[c][n].about \in Publishers
    /\ \A n \in 1 .. Len(batch[c]) :
         batch[c][n].kind \in {"Register", "Fence"} => batch[c][n].about \in Publishers

\* A connection that waits to be accepted has done nothing, and a session has no
\* identity before its registration is answered.
StageInv ==
  /\ \A c \in backlog : stage[c] = "connected" /\ c \notin sessions
  /\ \A c \in sessions : stage[c] # "off"
  /\ \A c \in Clients : stage[c] \in {"off", "connected"} => owner[c] = None
  /\ \A c \in sessions : stage[c] # "registered" => owner[c] = None

ControlInv == CoordinatorTypeOK /\ TurnInv /\ PendingInv /\ StageInv

--------------------------------------------------------------------------------
(* The authority part.                                                     *)

\* An identity is that of one connection, and no later than the publisher's last boot.
OwnerInv ==
  /\ \A c \in Clients : owner[c] # None => owner[c].boot \in 1 .. boot[owner[c].pub]
  /\ \A c, d \in Clients : owner[c] # None /\ owner[c] = owner[d] => c = d

SessionInv ==
  ControlInv /\ OwnerInv /\ AuthorityHasSession /\ AuthorityLastsWithSession

--------------------------------------------------------------------------------
(* The control part is inductive.                                          *)

LEMMA ControlInit == Init => ControlInv
<1> SUFFICES ASSUME Init PROVE ControlInv
  OBVIOUS
<1> USE DEF Init, Empty
<1>1. CoordinatorTypeOK
  <2>1. inbox \in [Clients -> Seq(Frames)] /\ batch \in [Clients -> Seq(Frames)]
    OBVIOUS
  <2>2. owner \in [Clients -> Identity \cup {None}] /\ stage \in [Clients -> Stages]
    BY DEF Stages
  <2> QED
    BY <2>1, <2>2 DEF CoordinatorTypeOK
<1>2. TurnInv
  BY DEF TurnInv
<1>3. PendingInv
  BY DEF PendingInv
<1>4. StageInv
  BY DEF StageInv
<1> QED
  BY <1>1, <1>2, <1>3, <1>4 DEF ControlInv

\* A client that is not registered has one frame under way at most, so none is left
\* behind when the one that was interpreted changes its stage.
LEMMA OneFrame ==
  ASSUME ControlInv, NEW c \in Clients, batch[c] # <<>>, stage[c] # "registered"
  PROVE  Len(batch[c]) = 1 /\ Len(inbox[c]) = 0
<1>1. /\ Len(inbox[c]) \in Nat /\ Len(batch[c]) \in Nat /\ Len(batch[c]) # 0
      /\ waiting[c] \in Nat
  BY DEF ControlInv, CoordinatorTypeOK
<1>2. Len(inbox[c]) + Len(batch[c]) <= waiting[c] /\ waiting[c] <= 1
  BY DEF ControlInv, PendingInv
<1>3. \A l, m, w \in Nat : m # 0 /\ l + m <= w /\ w <= 1 => m = 1 /\ l = 0
  OBVIOUS
<1> QED
  BY <1>1, <1>2, <1>3

LEMMA AnsweredControl ==
  ASSUME ControlInv, NEW c \in Clients, loop = "dispatch", batch[c] # <<>>,
         NEW ok \in BOOLEAN, NEW newStage \in Stages \ {"off", "connected"},
         NEW id \in Identity \cup {None}, NEW authority \in SUBSET Identity,
         NEW stopping \in BOOLEAN,
         Answered(c, ok, newStage, id, authority, stopping),
         newStage = stage[c] \/ stage[c] # "registered",
         id = owner[c] \/ (stage[c] = "greeted" /\ newStage = "registered"),
         boot' \in [Publishers -> Nat], greeted' \subseteq Clients, fenced' \subseteq Publishers
  PROVE  ControlInv'
<1> DEFINE rest == IF ok /\ ~stopping THEN Tail(batch[c]) ELSE <<>>
<1>1. CoordinatorTypeOK /\ TurnInv /\ PendingInv /\ StageInv
  BY DEF ControlInv
<1>2. /\ token' = stopping
      /\ batch' = [batch EXCEPT ![c] = rest]
      /\ serving' = IF rest = <<>> THEN None ELSE c
      /\ loop' = IF batch' = Empty THEN "top" ELSE "dispatch"
      /\ waiting' = [waiting EXCEPT ![c] = IF ok THEN @ - 1 ELSE @]
      /\ stage' = [stage EXCEPT ![c] = IF ok THEN newStage ELSE @]
      /\ owner' = [owner EXCEPT ![c] = id]
      /\ live' = IF ok THEN authority ELSE authority \ {id}
      /\ sessions' = IF ok THEN sessions ELSE sessions \ {c}
      /\ sent' = sent /\ hung' = hung /\ backlog' = backlog /\ inbox' = inbox
      /\ unread' = unread /\ dead' = dead
  BY DEF Answered, netVars
<1>3. /\ batch[c] \in Seq(Frames) /\ Len(batch[c]) \in Nat \ {0}
      /\ rest \in Seq(Frames) /\ Len(rest) <= Len(batch[c]) - 1 /\ Len(rest) \in Nat
      /\ \A n \in 1 .. Len(rest) : n + 1 \in 1 .. Len(batch[c]) /\ rest[n] = batch[c][n + 1]
      /\ inbox[c] \in Seq(Frames) /\ Len(inbox[c]) \in Nat
  BY <1>1 DEF CoordinatorTypeOK
<1>4. waiting[c] \in Nat /\ Len(inbox[c]) + Len(batch[c]) <= waiting[c]
  BY <1>1 DEF CoordinatorTypeOK, PendingInv
<1> HIDE DEF rest
<1>5. waiting' \in [Clients -> Nat]
  BY <1>1, <1>2, <1>3, <1>4 DEF CoordinatorTypeOK
<1>6. /\ stage' \in [Clients -> Stages] /\ owner' \in [Clients -> Identity \cup {None}]
      /\ batch' \in [Clients -> Seq(Frames)] /\ live' \subseteq Identity
      /\ serving' \in Clients \cup {None} /\ sessions' \subseteq Clients
  BY <1>1, <1>2, <1>3 DEF CoordinatorTypeOK
<1>7. CoordinatorTypeOK'
  BY <1>1, <1>2, <1>5, <1>6 DEF CoordinatorTypeOK
<1>8. TurnInv'
  <2>1. unread = {} /\ dead = {}
    BY <1>1 DEF TurnInv
  <2>2. \A d \in Clients : batch'[d] # <<>> => d \in sessions'
    <3> SUFFICES ASSUME NEW d \in Clients, batch'[d] # <<>> PROVE d \in sessions'
      OBVIOUS
    <3>1. CASE d = c
      <4>1. rest # <<>>
        BY <1>1, <1>2, <3>1 DEF CoordinatorTypeOK
      <4>2. ok
        BY <4>1 DEF rest
      <4> QED
        BY <1>1, <1>2, <3>1, <4>2 DEF TurnInv
    <3>2. CASE d # c
      BY <1>1, <1>2, <3>2 DEF TurnInv, CoordinatorTypeOK
    <3> QED
      BY <3>1, <3>2
  <2> QED
    BY <1>2, <2>1, <2>2 DEF TurnInv, Empty
<1>9. PendingInv'
  <2> SUFFICES ASSUME NEW d \in Clients
               PROVE /\ Len(inbox'[d]) + Len(batch'[d]) <= waiting'[d]
                     /\ stage'[d] # "registered" => waiting'[d] <= 1
                     /\ \A n \in 1 .. Len(inbox'[d]) : SentIn(inbox'[d][n]) = stage'[d]
                     /\ \A n \in 1 .. Len(batch'[d]) : SentIn(batch'[d][n]) = stage'[d]
                     /\ \A n \in 1 .. Len(inbox'[d]) :
                          inbox'[d][n].kind \in {"Register", "Fence"} =>
                            inbox'[d][n].about \in Publishers
                     /\ \A n \in 1 .. Len(batch'[d]) :
                          batch'[d][n].kind \in {"Register", "Fence"} =>
                            batch'[d][n].about \in Publishers
    BY DEF PendingInv, SentIn
  <2>1. CASE d # c
    <3>1. /\ inbox'[d] = inbox[d] /\ batch'[d] = batch[d] /\ waiting'[d] = waiting[d]
          /\ stage'[d] = stage[d]
      BY <1>1, <1>2, <2>1 DEF CoordinatorTypeOK
    <3> QED
      BY <1>1, <3>1 DEF PendingInv
  <2>2. CASE d = c
    <3>1. /\ inbox'[c] = inbox[c] /\ batch'[c] = rest
          /\ waiting'[c] = (IF ok THEN waiting[c] - 1 ELSE waiting[c])
          /\ stage'[c] = (IF ok THEN newStage ELSE stage[c])
      BY <1>1, <1>2 DEF CoordinatorTypeOK
    <3>2. ok \/ Len(rest) = 0
      BY DEF rest
    <3>3. Len(inbox[c]) + Len(rest) <= waiting'[c]
      <4>1. \A l, m, r, w \in Nat :
              l + m <= w /\ r <= m - 1 => l + r <= w - 1 /\ (r = 0 => l + r <= w)
        OBVIOUS
      <4>2. Len(inbox[c]) + Len(rest) <= waiting[c] - 1
        BY <1>3, <1>4, <4>1
      <4> QED
        BY <1>3, <1>4, <3>1, <3>2, <4>1, <4>2
    <3>4. /\ \A n \in 1 .. Len(inbox[c]) : SentIn(inbox[c][n]) = stage[c]
          /\ \A n \in 1 .. Len(rest) : SentIn(rest[n]) = stage[c]
          /\ \A n \in 1 .. Len(inbox[c]) :
               inbox[c][n].kind \in {"Register", "Fence"} => inbox[c][n].about \in Publishers
          /\ \A n \in 1 .. Len(rest) :
               rest[n].kind \in {"Register", "Fence"} => rest[n].about \in Publishers
      <4>1. /\ \A n \in 1 .. Len(inbox[c]) : SentIn(inbox[c][n]) = stage[c]
            /\ \A n \in 1 .. Len(inbox[c]) :
                 inbox[c][n].kind \in {"Register", "Fence"} => inbox[c][n].about \in Publishers
        BY <1>1 DEF PendingInv
      <4>2. /\ \A n \in 1 .. Len(batch[c]) : SentIn(batch[c][n]) = stage[c]
            /\ \A n \in 1 .. Len(batch[c]) :
                 batch[c][n].kind \in {"Register", "Fence"} => batch[c][n].about \in Publishers
        BY <1>1 DEF PendingInv
      <4>3. ASSUME NEW n \in 1 .. Len(rest)
            PROVE  /\ SentIn(rest[n]) = stage[c]
                   /\ rest[n].kind \in {"Register", "Fence"} => rest[n].about \in Publishers
        BY <1>3, <4>2
      <4> QED
        BY <4>1, <4>3
    <3>5. CASE stage[c] = "registered"
      <4>1. stage'[c] = stage[c]
        BY <3>1, <3>5
      <4> QED
        BY <2>2, <3>1, <3>3, <3>4, <3>5, <4>1
    <3>6. CASE stage[c] # "registered"
      <4>1. Len(rest) = 0 /\ Len(inbox[c]) = 0
        BY <1>3, <3>6, OneFrame
      <4>2. waiting[c] <= 1
        BY <1>1, <3>6 DEF PendingInv
      <4>3. waiting'[c] <= 1
        BY <1>4, <3>1, <4>2
      <4> QED
        BY <2>2, <3>1, <3>3, <4>1, <4>3
    <3> QED
      BY <3>5, <3>6
  <2> QED
    BY <2>1, <2>2
<1>10. StageInv'
  <2>1. c \in sessions /\ c \notin backlog
    BY <1>1 DEF TurnInv, StageInv
  <2>2. stage[c] # "registered" => owner[c] = None
    BY <1>1, <2>1 DEF StageInv
  <2>3. stage[c] \notin {"off", "connected"} \/ owner[c] = None
    BY <1>1 DEF StageInv
  <2>4. \A d \in Clients : d # c =>
          stage'[d] = stage[d] /\ owner'[d] = owner[d] /\ (d \in sessions' <=> d \in sessions)
    BY <1>1, <1>2 DEF CoordinatorTypeOK
  <2>5. /\ stage'[c] = (IF ok THEN newStage ELSE stage[c]) /\ owner'[c] = id
        /\ c \in sessions' <=> ok
    BY <1>1, <1>2, <2>1 DEF CoordinatorTypeOK
  <2>6. backlog' = backlog /\ backlog \subseteq Clients /\ sessions' \subseteq Clients
    BY <1>1, <1>2, <1>6 DEF CoordinatorTypeOK
  <2>7. stage[c] # "off"
    BY <1>1, <2>1 DEF StageInv
  <2>8. /\ stage'[c] # "off" /\ (stage'[c] \in {"off", "connected"} => owner'[c] = None)
        /\ c \in sessions' /\ stage'[c] # "registered" => owner'[c] = None
    BY <2>2, <2>3, <2>5, <2>7
  <2> QED
    BY <1>1, <2>1, <2>4, <2>6, <2>8 DEF StageInv
<1> QED
  BY <1>7, <1>8, <1>9, <1>10 DEF ControlInv

\* The frame that is interpreted was sent in the stage its client is in.
LEMMA Interpreted ==
  ASSUME ControlInv, NEW c \in Clients, batch[c] # <<>>
  PROVE  /\ Head(batch[c]).kind = "Hello" => stage[c] = "connected"
         /\ Head(batch[c]).kind = "Publish" => stage[c] = "registered"
         /\ Head(batch[c]).kind \notin {"Hello", "Publish"} => stage[c] = "greeted"
         /\ Head(batch[c]).kind \in {"Register", "Fence"} => Head(batch[c]).about \in Publishers
<1>1. batch[c] \in Seq(Frames) /\ 1 \in 1 .. Len(batch[c]) /\ Head(batch[c]) = batch[c][1]
  BY DEF ControlInv, CoordinatorTypeOK
<1>2. /\ SentIn(Head(batch[c])) = stage[c]
      /\ Head(batch[c]).kind \in {"Register", "Fence"} => Head(batch[c]).about \in Publishers
  BY <1>1 DEF ControlInv, PendingInv
<1> QED
  BY <1>2 DEF SentIn

LEMMA DispatchControl ==
  ASSUME ControlInv, NEW c \in Clients, Dispatch(c)
  PROVE  ControlInv'
<1>1. loop = "dispatch" /\ batch[c] # <<>>
  BY DEF Dispatch, Hello, Register, RefuseRegister, ServePublisher, Fence, ServeQuery,
         ShutdownRequest, Interprets
<1>2. /\ owner[c] \in Identity \cup {None} /\ live \in SUBSET Identity /\ token \in BOOLEAN
      /\ stage[c] \in Stages /\ boot \in [Publishers -> Nat]
      /\ greeted \subseteq Clients /\ fenced \subseteq Publishers
      /\ \A ok \in Sendable(c) : ok \in BOOLEAN
  BY DEF ControlInv, CoordinatorTypeOK, Sendable
<1>3. ASSUME Hello(c) PROVE ControlInv'
  <2>1. PICK ok \in Sendable(c) : Answered(c, ok, "greeted", owner[c], live, token)
    BY <1>3 DEF Hello
  <2>2. stage[c] = "connected"
    BY <1>1, <1>3, Interpreted DEF Hello, Interprets
  <2>3. "greeted" \in Stages \ {"off", "connected"}
    BY DEF Stages
  <2>4. boot' = boot /\ fenced' = fenced /\ greeted' \subseteq Clients
    BY <1>2, <1>3 DEF Hello
  <2> QED
    BY <1>1, <1>2, <2>1, <2>2, <2>3, <2>4, AnsweredControl
<1>4. ASSUME Register(c) PROVE ControlInv'
  <2> DEFINE p == Head(batch[c]).about
             fresh == [pub |-> p, boot |-> boot[p] + 1]
             authority == {i \in live : i.pub # p} \cup {fresh}
  <2>1. PICK ok \in Sendable(c) : Answered(c, ok, "registered", fresh, authority, token)
    BY <1>4 DEF Register
  <2>2. stage[c] = "greeted" /\ p \in Publishers
    BY <1>1, <1>4, Interpreted DEF Register, Interprets
  <2>3. fresh \in Identity
    BY <1>2, <2>2 DEF Identity
  <2>4. authority \in SUBSET Identity
    BY <1>2, <2>3
  <2>5. /\ boot' \in [Publishers -> Nat] /\ fenced' \subseteq Publishers
        /\ greeted' \subseteq Clients
    BY <1>2, <1>4, <2>2 DEF Register
  <2>6. /\ "registered" \in Stages \ {"off", "connected"} /\ ok \in BOOLEAN
        /\ stage[c] # "registered"
    BY <1>2, <2>2 DEF Stages
  <2> HIDE DEF fresh, authority
  <2> QED
    BY <1>1, <1>2, <2>1, <2>2, <2>3, <2>4, <2>5, <2>6, AnsweredControl
<1>5. ASSUME RefuseRegister(c) PROVE ControlInv'
  <2>1. PICK ok \in Sendable(c) : Answered(c, ok, "refused", owner[c], live, token)
    BY <1>5 DEF RefuseRegister
  <2>2. stage[c] = "greeted"
    BY <1>1, <1>5, Interpreted DEF RefuseRegister, Interprets
  <2>3. /\ "refused" \in Stages \ {"off", "connected"} /\ ok \in BOOLEAN
        /\ stage[c] # "registered"
    BY <1>2, <2>2 DEF Stages
  <2>4. /\ boot' \in [Publishers -> Nat] /\ fenced' \subseteq Publishers
        /\ greeted' \subseteq Clients
    BY <1>2, <1>5 DEF RefuseRegister
  <2> QED
    BY <1>1, <1>2, <2>1, <2>2, <2>3, <2>4, AnsweredControl
<1>6. ASSUME ServePublisher(c) \/ ServeQuery(c) PROVE ControlInv'
  <2>1. PICK ok \in Sendable(c) : Answered(c, ok, stage[c], owner[c], live, token)
    BY <1>6 DEF ServePublisher, ServeQuery
  <2>2. stage[c] \notin {"off", "connected"}
    BY <1>1, <1>6, Interpreted DEF ServePublisher, ServeQuery, Interprets
  <2>3. boot' = boot /\ fenced' = fenced /\ greeted' = greeted
    BY <1>6 DEF ServePublisher, ServeQuery
  <2> QED
    BY <1>1, <1>2, <2>1, <2>2, <2>3, AnsweredControl
<1>7. ASSUME Fence(c) PROVE ControlInv'
  <2> DEFINE p == Head(batch[c]).about
             authority == {i \in live : i.pub # p}
  <2>1. PICK ok \in Sendable(c) : Answered(c, ok, stage[c], owner[c], authority, token)
    BY <1>7 DEF Fence
  <2>2. stage[c] = "greeted" /\ p \in Publishers
    BY <1>1, <1>7, Interpreted DEF Fence, Interprets
  <2>3. boot' = boot /\ greeted' = greeted /\ fenced' \subseteq Publishers
    BY <1>2, <1>7, <2>2 DEF Fence
  <2>4. authority \in SUBSET Identity
    BY <1>2
  <2> HIDE DEF authority
  <2> QED
    BY <1>1, <1>2, <2>1, <2>2, <2>3, <2>4, AnsweredControl
<1>8. ASSUME ShutdownRequest(c) PROVE ControlInv'
  <2>1. PICK ok \in Sendable(c) : Answered(c, ok, stage[c], owner[c], live, TRUE)
    BY <1>8 DEF ShutdownRequest
  <2>2. stage[c] = "greeted"
    BY <1>1, <1>8, Interpreted DEF ShutdownRequest, Interprets
  <2>3. boot' = boot /\ fenced' = fenced /\ greeted' = greeted
    BY <1>8 DEF ShutdownRequest
  <2> QED
    BY <1>1, <1>2, <2>1, <2>2, <2>3, AnsweredControl
<1> QED
  BY <1>3, <1>4, <1>5, <1>6, <1>7, <1>8 DEF Dispatch

LEMMA ReadControl ==
  ASSUME ControlInv, NEW c \in Clients, ReadSession(c)
  PROVE  ControlInv'
<1>1. CoordinatorTypeOK /\ TurnInv /\ PendingInv /\ StageInv
  BY DEF ControlInv
<1>2. PICK closed \in BOOLEAN :
        /\ dead' = IF closed THEN dead \cup {c} ELSE dead
        /\ batch' = [batch EXCEPT ![c] = IF closed THEN <<>> ELSE inbox[c]]
  BY DEF ReadSession
<1>3. /\ loop = "read" /\ c \in unread /\ unread' = unread \ {c}
      /\ loop' = IF unread' = {} THEN "retire" ELSE "read"
      /\ inbox' = [inbox EXCEPT ![c] = <<>>]
      /\ stage' = stage /\ waiting' = waiting /\ sent' = sent /\ hung' = hung
      /\ backlog' = backlog /\ token' = token /\ serving' = serving
      /\ sessions' = sessions /\ greeted' = greeted /\ owner' = owner
      /\ boot' = boot /\ live' = live /\ fenced' = fenced
  BY DEF ReadSession, clientVars, sessionVars, registryVars
<1>4. /\ inbox' \in [Clients -> Seq(Frames)] /\ batch' \in [Clients -> Seq(Frames)]
      /\ dead' \subseteq Clients /\ unread' \subseteq Clients
  BY <1>1, <1>2, <1>3 DEF CoordinatorTypeOK
<1>5. CoordinatorTypeOK'
  BY <1>1, <1>3, <1>4 DEF CoordinatorTypeOK
<1>6. TurnInv'
  <2>1. c \in sessions \ dead
    BY <1>1, <1>3 DEF TurnInv
  <2>2. \A d \in Clients : batch'[d] # <<>> => d \in sessions \ dead'
    <3> SUFFICES ASSUME NEW d \in Clients, batch'[d] # <<>> PROVE d \in sessions \ dead'
      OBVIOUS
    <3>1. CASE d = c
      BY <1>1, <1>2, <2>1, <3>1 DEF CoordinatorTypeOK
    <3>2. CASE d # c
      BY <1>1, <1>2, <3>2 DEF CoordinatorTypeOK, TurnInv
    <3> QED
      BY <3>1, <3>2
  <2>3. unread' \subseteq sessions \ dead' /\ dead' \subseteq sessions
    BY <1>1, <1>2, <1>3, <2>1 DEF TurnInv
  <2> QED
    BY <1>3, <2>2, <2>3 DEF TurnInv
<1>7. PendingInv'
  <2> SUFFICES ASSUME NEW d \in Clients
               PROVE /\ Len(inbox'[d]) + Len(batch'[d]) <= waiting[d]
                     /\ stage[d] # "registered" => waiting[d] <= 1
                     /\ \A n \in 1 .. Len(inbox'[d]) : SentIn(inbox'[d][n]) = stage[d]
                     /\ \A n \in 1 .. Len(batch'[d]) : SentIn(batch'[d][n]) = stage[d]
                     /\ \A n \in 1 .. Len(inbox'[d]) :
                          inbox'[d][n].kind \in {"Register", "Fence"} =>
                            inbox'[d][n].about \in Publishers
                     /\ \A n \in 1 .. Len(batch'[d]) :
                          batch'[d][n].kind \in {"Register", "Fence"} =>
                            batch'[d][n].about \in Publishers
    BY <1>3 DEF PendingInv, SentIn
  <2>1. CASE d # c
    <3>1. inbox'[d] = inbox[d] /\ batch'[d] = batch[d]
      BY <1>1, <1>2, <1>3, <2>1 DEF CoordinatorTypeOK
    <3> QED
      BY <1>1, <3>1 DEF PendingInv
  <2>2. CASE d = c
    <3>1. inbox'[d] = <<>> /\ batch'[d] = IF closed THEN <<>> ELSE inbox[d]
      BY <1>1, <1>2, <1>3, <2>2 DEF CoordinatorTypeOK
    <3>2. /\ Len(inbox[d]) \in Nat /\ Len(batch[d]) \in Nat /\ waiting[d] \in Nat
          /\ Len(inbox[d]) + Len(batch[d]) <= waiting[d]
      BY <1>1 DEF CoordinatorTypeOK, PendingInv
    <3>3. \A l, m, w \in Nat : l + m <= w => 0 + l <= w /\ 0 + 0 <= w
      OBVIOUS
    <3>4. 0 + Len(inbox[d]) <= waiting[d] /\ 0 + 0 <= waiting[d]
      BY <3>2, <3>3
    <3>5. Len(inbox'[d]) = 0 /\ 1 .. 0 = {}
      BY <3>1
    <3>6. stage[d] # "registered" => waiting[d] <= 1
      BY <1>1 DEF PendingInv
    <3>7. CASE closed
      <4>1. Len(batch'[d]) = 0
        BY <3>1, <3>7
      <4> QED
        BY <3>4, <3>5, <3>6, <4>1
    <3>8. CASE ~closed
      <4>1. batch'[d] = inbox[d]
        BY <3>1, <3>8
      <4>2. /\ \A n \in 1 .. Len(inbox[d]) : SentIn(inbox[d][n]) = stage[d]
            /\ \A n \in 1 .. Len(inbox[d]) :
                 inbox[d][n].kind \in {"Register", "Fence"} => inbox[d][n].about \in Publishers
        BY <1>1 DEF PendingInv
      <4> QED
        BY <3>4, <3>5, <3>6, <4>1, <4>2
    <3> QED
      BY <3>7, <3>8
  <2> QED
    BY <2>1, <2>2
<1>8. StageInv'
  BY <1>1, <1>3 DEF StageInv
<1> QED
  BY <1>5, <1>6, <1>7, <1>8 DEF ControlInv

\* The frames and the stages are what a step leaves alone.
LEMMA PendingSame ==
  ASSUME PendingInv, inbox' = inbox, batch' = batch, waiting' = waiting, stage' = stage
  PROVE  PendingInv'
  BY DEF PendingInv, SentIn

LEMMA SelectControl ==
  ASSUME ControlInv, Select
  PROVE  ControlInv'
<1>1. CoordinatorTypeOK /\ TurnInv /\ PendingInv /\ StageInv
  BY DEF ControlInv
<1>2. /\ loop = "select" /\ unread' = Ready
      /\ loop' = IF Ready = {} THEN "top" ELSE "read"
      /\ stage' = stage /\ waiting' = waiting /\ sent' = sent /\ hung' = hung
      /\ inbox' = inbox /\ token' = token /\ dead' = dead /\ batch' = batch
      /\ serving' = serving /\ greeted' = greeted /\ owner' = owner
      /\ boot' = boot /\ live' = live /\ fenced' = fenced
  BY DEF Select, clientVars, registryVars
<1>3. /\ backlog' \subseteq backlog /\ sessions \subseteq sessions'
      /\ sessions' \subseteq sessions \cup backlog
      /\ backlog' \cap sessions' = {}
  <2>1. backlog \cap sessions = {}
    BY <1>1 DEF StageInv
  <2>2. CASE backlog = {}
    BY <2>2 DEF Select
  <2>3. CASE backlog # {}
    <3> PICK c \in backlog :
          /\ backlog' = backlog \ {c}
          /\ sessions' = IF Cardinality(sessions) < MaxConnections
                         THEN sessions \cup {c} ELSE sessions
      BY <2>3 DEF Select
    <3>1. sessions' = sessions \cup {c} \/ sessions' = sessions
      OBVIOUS
    <3> QED
      BY <2>1, <3>1
  <2> QED
    BY <2>2, <2>3
<1>4. CoordinatorTypeOK'
  BY <1>1, <1>2, <1>3 DEF CoordinatorTypeOK, Ready
<1>5. TurnInv'
  <2>1. dead = {} /\ batch = Empty /\ Ready \subseteq sessions
    BY <1>1, <1>2 DEF TurnInv, Ready
  <2> QED
    BY <1>2, <1>3, <2>1 DEF TurnInv, Empty
<1>6. StageInv'
  <2>1. \A c \in sessions' : c \in sessions \/ (stage[c] = "connected" /\ owner[c] = None)
    BY <1>1, <1>3 DEF StageInv, CoordinatorTypeOK
  <2> QED
    BY <1>1, <1>2, <1>3, <2>1 DEF StageInv
<1> QED
  BY <1>1, <1>2, <1>4, <1>5, <1>6, PendingSame DEF ControlInv

LEMMA SendControl ==
  ASSUME ControlInv, NEW c \in Clients, NEW f, Send(c, f)
  PROVE  ControlInv'
<1>1. CoordinatorTypeOK /\ TurnInv /\ PendingInv /\ StageInv
  BY DEF ControlInv
<1>2. /\ c \in sessions \cup backlog /\ f \in Requests(c)
      /\ waiting[c] < IF stage[c] = "registered" THEN Window ELSE 1
      /\ sent' = [sent EXCEPT ![c] = @ + 1]
      /\ waiting' = [waiting EXCEPT ![c] = @ + 1]
      /\ inbox' = [inbox EXCEPT ![c] = Append(@, f)]
      /\ UNCHANGED <<stage, hung, backlog, loop, token, unread, dead, batch, serving,
                     sessions, greeted, owner, boot, live, fenced>>
  BY DEF Send, turnVars, sessionVars, registryVars
<1>3. /\ f \in Frames /\ SentIn(f) = stage[c]
      /\ f.kind \in {"Register", "Fence"} => f.about \in Publishers
  <2>1. RegistersAs[c] \subseteq Publishers
    BY CoordinatorConstants
  <2>2. CASE stage[c] = "connected"
    <3>1. f = Frame("Hello", None)
      BY <1>2, <2>2 DEF Requests
    <3> QED
      BY <2>2, <3>1 DEF Frame, Frames, Kinds, SentIn
  <2>3. CASE stage[c] = "greeted"
    <3>1. f \in [kind : {"Register"}, about : RegistersAs[c]]
             \cup [kind : {"Query", "Shutdown", "Garbage"}, about : {None}]
             \cup [kind : {"Fence"}, about : Publishers]
      BY <1>2, <2>3 DEF Requests
    <3> QED
      BY <2>1, <2>3, <3>1 DEF Frames, Kinds, SentIn
  <2>4. CASE stage[c] = "registered"
    <3>1. f = Frame("Publish", None)
      BY <1>2, <2>4 DEF Requests
    <3> QED
      BY <2>4, <3>1 DEF Frame, Frames, Kinds, SentIn
  <2>5. stage[c] \in {"connected", "greeted", "registered"}
    BY <1>2 DEF Requests
  <2> QED
    BY <2>2, <2>3, <2>4, <2>5
<1>4. CoordinatorTypeOK'
  <2>1. inbox' \in [Clients -> Seq(Frames)]
    BY <1>1, <1>2, <1>3 DEF CoordinatorTypeOK
  <2>2. waiting' \in [Clients -> Nat] /\ sent' \in [Clients -> Nat]
    BY <1>1, <1>2 DEF CoordinatorTypeOK
  <2> QED
    BY <1>1, <1>2, <2>1, <2>2 DEF CoordinatorTypeOK
<1>5. TurnInv'
  BY <1>1, <1>2 DEF TurnInv, Empty
<1>6. StageInv'
  BY <1>1, <1>2 DEF StageInv
<1>7. PendingInv'
  <2> SUFFICES ASSUME NEW d \in Clients
               PROVE /\ Len(inbox'[d]) + Len(batch[d]) <= waiting'[d]
                     /\ stage[d] # "registered" => waiting'[d] <= 1
                     /\ \A n \in 1 .. Len(inbox'[d]) : SentIn(inbox'[d][n]) = stage[d]
                     /\ \A n \in 1 .. Len(batch[d]) : SentIn(batch[d][n]) = stage[d]
                     /\ \A n \in 1 .. Len(inbox'[d]) :
                          inbox'[d][n].kind \in {"Register", "Fence"} =>
                            inbox'[d][n].about \in Publishers
                     /\ \A n \in 1 .. Len(batch[d]) :
                          batch[d][n].kind \in {"Register", "Fence"} =>
                            batch[d][n].about \in Publishers
    BY <1>2 DEF PendingInv, SentIn
  <2>0. /\ Len(inbox[d]) + Len(batch[d]) <= waiting[d]
        /\ stage[d] # "registered" => waiting[d] <= 1
        /\ \A n \in 1 .. Len(inbox[d]) : SentIn(inbox[d][n]) = stage[d]
        /\ \A n \in 1 .. Len(batch[d]) : SentIn(batch[d][n]) = stage[d]
        /\ \A n \in 1 .. Len(inbox[d]) :
             inbox[d][n].kind \in {"Register", "Fence"} => inbox[d][n].about \in Publishers
        /\ \A n \in 1 .. Len(batch[d]) :
             batch[d][n].kind \in {"Register", "Fence"} => batch[d][n].about \in Publishers
    BY <1>1 DEF PendingInv
  <2>1. CASE d # c
    <3>1. inbox'[d] = inbox[d] /\ waiting'[d] = waiting[d]
      BY <1>1, <1>2, <2>1 DEF CoordinatorTypeOK
    <3> QED
      BY <2>0, <3>1
  <2>2. CASE d = c
    <3>1. inbox'[d] = Append(inbox[d], f) /\ waiting'[d] = waiting[d] + 1
      BY <1>1, <1>2, <2>2 DEF CoordinatorTypeOK
    <3>2. /\ inbox[d] \in Seq(Frames) /\ Len(inbox[d]) \in Nat /\ Len(batch[d]) \in Nat
          /\ waiting[d] \in Nat
      BY <1>1 DEF CoordinatorTypeOK
    <3>3. /\ Len(inbox'[d]) = Len(inbox[d]) + 1
          /\ \A n \in 1 .. Len(inbox'[d]) :
               \/ inbox'[d][n] = f
               \/ n \in 1 .. Len(inbox[d]) /\ inbox'[d][n] = inbox[d][n]
      BY <1>3, <3>1, <3>2
    <3>4. \A l, m, w \in Nat : l + m <= w => (l + 1) + m <= w + 1
      OBVIOUS
    <3>5. Len(inbox'[d]) + Len(batch[d]) <= waiting'[d]
      BY <2>0, <3>1, <3>2, <3>3, <3>4
    <3>6. stage[d] # "registered" => waiting'[d] <= 1
      BY <1>2, <2>2, <3>1, <3>2
    <3> QED
      BY <1>3, <2>0, <2>2, <3>3, <3>5, <3>6
  <2> QED
    BY <2>1, <2>2
<1> QED
  BY <1>4, <1>5, <1>6, <1>7 DEF ControlInv

LEMMA ControlStep == ControlInv /\ [Next]_vars => ControlInv'
<1> SUFFICES ASSUME ControlInv, [Next]_vars PROVE ControlInv'
  OBVIOUS
<1>0. CoordinatorTypeOK /\ TurnInv /\ PendingInv /\ StageInv
  BY DEF ControlInv
<1> USE DEF clientVars, netVars, turnVars, sessionVars, registryVars
<1>1. ASSUME Poll \/ RequestShutdown \/ UNCHANGED vars PROVE ControlInv'
  <2>1. /\ stage' = stage /\ waiting' = waiting /\ sent' = sent /\ hung' = hung
        /\ backlog' = backlog /\ inbox' = inbox /\ unread' = unread /\ dead' = dead
        /\ batch' = batch /\ serving' = serving /\ sessions' = sessions
        /\ greeted' = greeted /\ owner' = owner /\ boot' = boot /\ live' = live
        /\ fenced' = fenced
        /\ loop' = loop \/ (loop = "top" /\ loop' = "select")
        /\ token' \in {token, TRUE}
    BY <1>1 DEF Poll, RequestShutdown, vars
  <2>2. CoordinatorTypeOK'
    BY <1>0, <2>1 DEF CoordinatorTypeOK
  <2>3. TurnInv'
    BY <1>0, <2>1 DEF TurnInv, Empty
  <2>4. StageInv'
    BY <1>0, <2>1 DEF StageInv
  <2> QED
    BY <1>0, <2>1, <2>2, <2>3, <2>4, PendingSame DEF ControlInv
<1>2. ASSUME RetireDead PROVE ControlInv'
  <2>1. /\ loop = "retire" /\ loop' = IF batch = Empty THEN "top" ELSE "dispatch"
        /\ sessions' = sessions \ dead /\ live' = live \ {owner[c] : c \in dead} /\ dead' = {}
        /\ stage' = stage /\ waiting' = waiting /\ sent' = sent /\ hung' = hung
        /\ backlog' = backlog /\ inbox' = inbox /\ token' = token /\ unread' = unread
        /\ batch' = batch /\ serving' = serving /\ greeted' = greeted /\ owner' = owner
        /\ boot' = boot /\ fenced' = fenced
    BY <1>2 DEF RetireDead
  <2>2. CoordinatorTypeOK'
    BY <1>0, <2>1 DEF CoordinatorTypeOK
  <2>3. TurnInv'
    BY <1>0, <2>1 DEF TurnInv, Empty
  <2>4. StageInv'
    BY <1>0, <2>1 DEF StageInv
  <2> QED
    BY <1>0, <2>1, <2>2, <2>3, <2>4, PendingSame DEF ControlInv
<1>3. ASSUME Stop PROVE ControlInv'
  <2>1. /\ loop = "top" /\ loop' = "stopped" /\ backlog' = {} /\ sessions' = {}
        /\ live' = live \ {owner[c] : c \in sessions}
        /\ stage' = stage /\ waiting' = waiting /\ sent' = sent /\ hung' = hung
        /\ inbox' = inbox /\ token' = token /\ unread' = unread /\ dead' = dead
        /\ batch' = batch /\ serving' = serving /\ greeted' = greeted /\ owner' = owner
        /\ boot' = boot /\ fenced' = fenced
    BY <1>3 DEF Stop
  <2>2. CoordinatorTypeOK'
    BY <1>0, <2>1 DEF CoordinatorTypeOK
  <2>3. TurnInv'
    BY <1>0, <2>1 DEF TurnInv, Empty
  <2>4. StageInv'
    BY <1>0, <2>1 DEF StageInv
  <2> QED
    BY <1>0, <2>1, <2>2, <2>3, <2>4, PendingSame DEF ControlInv
<1>4. ASSUME NEW c \in Clients, Connect(c) PROVE ControlInv'
  <2>1. /\ stage[c] = "off" /\ stage' = [stage EXCEPT ![c] = "connected"]
        /\ backlog' = backlog \cup {c}
        /\ UNCHANGED <<waiting, sent, hung, inbox, loop, token, unread, dead, batch, serving,
                       sessions, greeted, owner, boot, live, fenced>>
    BY <1>4 DEF Connect
  <2>2. CoordinatorTypeOK'
    BY <1>0, <2>1 DEF CoordinatorTypeOK, Stages
  <2>3. TurnInv'
    BY <1>0, <2>1 DEF TurnInv, Empty
  <2>4. c \notin sessions /\ owner[c] = None /\ batch[c] = <<>>
    BY <1>0, <2>1 DEF StageInv, TurnInv
  <2>5. \A d \in Clients : d # c => stage'[d] = stage[d]
    BY <1>0, <2>1 DEF CoordinatorTypeOK
  <2>6. stage'[c] = "connected"
    BY <1>0, <2>1 DEF CoordinatorTypeOK
  <2>7. StageInv'
    BY <1>0, <2>1, <2>4, <2>5, <2>6 DEF StageInv, CoordinatorTypeOK
  <2>8. Len(inbox[c]) = 0 /\ Len(batch[c]) = 0
    <3>1. \A n \in 1 .. Len(inbox[c]) : SentIn(inbox[c][n]) = "off"
      BY <1>0, <2>1 DEF PendingInv
    <3>2. Len(inbox[c]) \in Nat
      BY <1>0 DEF CoordinatorTypeOK
    <3>3. Len(inbox[c]) # 0 => 1 \in 1 .. Len(inbox[c])
      BY <3>2
    <3>4. SentIn(inbox[c][1]) # "off"
      BY DEF SentIn
    <3> QED
      BY <2>4, <3>1, <3>3, <3>4
  <2>9. PendingInv'
    <3>1. 1 .. 0 = {}
      OBVIOUS
    <3> QED
      BY <1>0, <2>1, <2>5, <2>6, <2>8, <3>1 DEF PendingInv, SentIn
  <2> QED
    BY <2>2, <2>3, <2>7, <2>9 DEF ControlInv
<1>5. ASSUME NEW c \in Clients, Close(c) PROVE ControlInv'
  <2>1. /\ hung' = hung \cup {c}
        /\ stage' = stage /\ waiting' = waiting /\ sent' = sent
        /\ backlog' = backlog /\ inbox' = inbox /\ unread' = unread /\ dead' = dead
        /\ batch' = batch /\ serving' = serving /\ sessions' = sessions
        /\ greeted' = greeted /\ owner' = owner /\ boot' = boot /\ live' = live
        /\ fenced' = fenced /\ loop' = loop /\ token' = token
    BY <1>5 DEF Close
  <2>2. CoordinatorTypeOK'
    BY <1>0, <2>1 DEF CoordinatorTypeOK
  <2>3. TurnInv'
    BY <1>0, <2>1 DEF TurnInv, Empty
  <2>4. StageInv'
    BY <1>0, <2>1 DEF StageInv
  <2> QED
    BY <1>0, <2>1, <2>2, <2>3, <2>4, PendingSame DEF ControlInv
<1> QED
  BY <1>1, <1>2, <1>3, <1>4, <1>5, SelectControl, ReadControl, DispatchControl, SendControl
  DEF Next, LoopStep, ClientStep

\* Every variable of the loop, of its sessions and of their clients keeps its type
\* (the Session records of coordinator.cpp and the state machine of its clients).
THEOREM CoordinatorTypeCorrect == Spec => []CoordinatorTypeOK
<1>1. ControlInv => CoordinatorTypeOK
  BY DEF ControlInv
<1> QED
  BY <1>1, ControlInit, ControlStep, PTL DEF Spec

--------------------------------------------------------------------------------
(* The authority part is inductive with it.                                *)

\* A step that gives no identity, ends no session and takes no authority away.
LEMMA AuthoritySame ==
  ASSUME SessionInv, owner' = owner, boot' = boot, live' = live, fenced' = fenced,
         sessions \subseteq sessions', sessions' \subseteq Clients,
         \A c \in sessions' \ sessions : owner[c] = None
  PROVE  OwnerInv' /\ AuthorityHasSession' /\ AuthorityLastsWithSession'
<1>1. OwnerInv'
  BY DEF SessionInv, OwnerInv
<1>2. AuthorityHasSession'
  BY DEF SessionInv, AuthorityHasSession
<1>3. AuthorityLastsWithSession'
  BY DEF SessionInv, AuthorityLastsWithSession
<1> QED
  BY <1>1, <1>2, <1>3

\* An answer to anything but a registration: authority is lost by the session that the
\* answer does not reach, and by those that an administrator fences.
LEMMA AnsweredAuthority ==
  ASSUME SessionInv, NEW c \in Clients, NEW ok \in BOOLEAN, NEW newStage,
         NEW authority \in SUBSET live, NEW stopping,
         Answered(c, ok, newStage, owner[c], authority, stopping),
         \A i \in live \ authority : i.pub \in fenced',
         fenced \subseteq fenced', boot' = boot
  PROVE  OwnerInv' /\ AuthorityHasSession' /\ AuthorityLastsWithSession'
<1>1. ControlInv /\ OwnerInv /\ AuthorityHasSession /\ AuthorityLastsWithSession
  BY DEF SessionInv
<1>2. /\ owner \in [Clients -> Identity \cup {None}] /\ sessions \subseteq Clients
  BY <1>1 DEF ControlInv, CoordinatorTypeOK
<1>3. /\ owner' = owner
      /\ live' = IF ok THEN authority ELSE authority \ {owner[c]}
      /\ sessions' = IF ok THEN sessions ELSE sessions \ {c}
  BY <1>2 DEF Answered
<1>4. OwnerInv'
  BY <1>1, <1>3 DEF OwnerInv
<1>5. AuthorityHasSession'
  <2> SUFFICES ASSUME NEW i \in live'
               PROVE \E d \in sessions' :
                       owner[d] = i /\ \A e \in Clients : owner[e] = i => e = d
    BY <1>3 DEF AuthorityHasSession
  <2>1. PICK d \in sessions : owner[d] = i /\ \A e \in Clients : owner[e] = i => e = d
    BY <1>1, <1>3 DEF AuthorityHasSession
  <2>2. d \in sessions'
    BY <1>3, <2>1
  <2> QED
    BY <2>1, <2>2
<1>6. AuthorityLastsWithSession'
  <2> SUFFICES ASSUME NEW d \in sessions', owner[d] # None
               PROVE \/ owner[d] \in live'
                     \/ owner[d].pub \in fenced'
                     \/ owner[d].boot < boot[owner[d].pub]
    BY <1>3 DEF AuthorityLastsWithSession
  <2>1. d \in sessions /\ d \in Clients /\ (~ok => d # c)
    BY <1>2, <1>3
  <2>2. ~ok => owner[d] # owner[c]
    BY <1>1, <2>1 DEF OwnerInv
  <2>3. \/ owner[d] \in live
        \/ owner[d].pub \in fenced
        \/ owner[d].boot < boot[owner[d].pub]
    BY <1>1, <2>1 DEF AuthorityLastsWithSession
  <2> QED
    BY <1>3, <2>2, <2>3
<1> QED
  BY <1>4, <1>5, <1>6

\* A registration: the identity is new, and its predecessor has an earlier boot.
LEMMA RegisterAuthority ==
  ASSUME SessionInv, NEW c \in Clients, Register(c)
  PROVE  OwnerInv' /\ AuthorityHasSession' /\ AuthorityLastsWithSession'
<1> DEFINE p == Head(batch[c]).about
           fresh == [pub |-> p, boot |-> boot[p] + 1]
<1>1. ControlInv /\ OwnerInv /\ AuthorityHasSession /\ AuthorityLastsWithSession
  BY DEF SessionInv
<1>2. /\ owner \in [Clients -> Identity \cup {None}] /\ sessions \subseteq Clients
      /\ boot \in [Publishers -> Nat] /\ live \subseteq Identity
  BY <1>1 DEF ControlInv, CoordinatorTypeOK
<1>3. batch[c] # <<>> /\ Head(batch[c]).kind = "Register"
  BY DEF Register, Interprets
<1>4. p \in Publishers /\ stage[c] = "greeted" /\ c \in sessions
  BY <1>1, <1>3, Interpreted DEF ControlInv, TurnInv
<1>5. owner[c] = None
  BY <1>1, <1>4 DEF ControlInv, StageInv
<1>6. PICK ok \in Sendable(c) :
        Answered(c, ok, "registered", fresh, {i \in live : i.pub # p} \cup {fresh}, token)
  BY DEF Register
<1>7. /\ owner' = [owner EXCEPT ![c] = fresh]
      /\ live' = IF ok THEN {i \in live : i.pub # p} \cup {fresh}
                 ELSE ({i \in live : i.pub # p} \cup {fresh}) \ {fresh}
      /\ sessions' = IF ok THEN sessions ELSE sessions \ {c}
  BY <1>6 DEF Answered
<1>8. boot' = [boot EXCEPT ![p] = @ + 1] /\ fenced' = fenced
  BY DEF Register
<1>9. /\ fresh \in Identity /\ fresh # None /\ fresh.pub = p /\ fresh.boot = boot[p] + 1
      /\ boot[p] \in Nat
  BY <1>2, <1>4, CoordinatorConstants DEF Identity
<1>10. \A q \in Publishers : boot'[q] \in Nat /\ boot[q] <= boot'[q]
  BY <1>2, <1>4, <1>8
<1>11. boot'[p] = boot[p] + 1
  BY <1>2, <1>4, <1>8
<1>12. /\ owner'[c] = fresh
       /\ \A d \in Clients : d # c => owner'[d] = owner[d]
  BY <1>2, <1>7
<1>13. \A d \in Clients : owner[d] # None =>
         /\ owner[d] # fresh /\ owner[d] \in Identity
         /\ owner[d].boot \in 1 .. boot[owner[d].pub]
  <2> SUFFICES ASSUME NEW d \in Clients, owner[d] # None
               PROVE /\ owner[d] # fresh /\ owner[d] \in Identity
                     /\ owner[d].boot \in 1 .. boot[owner[d].pub]
    OBVIOUS
  <2>1. owner[d] \in Identity /\ owner[d].boot \in 1 .. boot[owner[d].pub]
    BY <1>1, <1>2 DEF OwnerInv
  <2>2. owner[d].pub = p => owner[d].boot <= boot[p]
    BY <2>1
  <2>3. owner[d].boot \in Nat
    BY <2>1 DEF Identity
  <2> HIDE DEF fresh
  <2>4. owner[d] # fresh
    BY <1>9, <2>2, <2>3
  <2> QED
    BY <2>1, <2>4
<1> HIDE DEF fresh
<1>14. OwnerInv'
  <2>1. ASSUME NEW d \in Clients, owner'[d] # None
        PROVE  owner'[d].boot \in 1 .. boot'[owner'[d].pub]
    <3>1. CASE d = c
      BY <1>9, <1>11, <1>12, <3>1
    <3>2. CASE d # c
      <4>1. owner'[d] = owner[d]
        BY <1>12, <3>2
      <4>2. /\ owner[d] \in Identity /\ owner[d].pub \in Publishers /\ owner[d].boot \in Nat
            /\ owner[d].boot \in 1 .. boot[owner[d].pub]
        BY <1>13, <2>1, <4>1 DEF Identity
      <4>3. boot[owner[d].pub] <= boot'[owner[d].pub] /\ boot'[owner[d].pub] \in Nat
            /\ boot[owner[d].pub] \in Nat
        BY <1>2, <1>10, <4>2
      <4> QED
        BY <4>1, <4>2, <4>3
    <3> QED
      BY <3>1, <3>2
  <2>2. ASSUME NEW d \in Clients, NEW e \in Clients, owner'[d] # None, owner'[d] = owner'[e]
        PROVE  d = e
    <3>1. CASE d # c /\ e # c
      BY <1>1, <1>12, <2>2, <3>1 DEF OwnerInv
    <3>2. CASE d = c /\ e # c
      BY <1>9, <1>12, <1>13, <2>2, <3>2
    <3>3. CASE d # c /\ e = c
      BY <1>9, <1>12, <1>13, <2>2, <3>3
    <3> QED
      BY <3>1, <3>2, <3>3
  <2> QED
    BY <2>1, <2>2 DEF OwnerInv
<1>15. AuthorityHasSession'
  <2> SUFFICES ASSUME NEW i \in live'
               PROVE \E d \in sessions' :
                       owner'[d] = i /\ \A e \in Clients : owner'[e] = i => e = d
    BY DEF AuthorityHasSession
  <2>1. CASE i = fresh
    <3>1. c \in sessions'
      BY <1>4, <1>7, <2>1
    <3>2. \A e \in Clients : owner'[e] = fresh => e = c
      BY <1>9, <1>12, <1>13
    <3> QED
      BY <1>12, <2>1, <3>1, <3>2
  <2>2. CASE i # fresh
    <3>1. i \in live
      BY <1>7, <2>2
    <3>2. PICK d \in sessions : owner[d] = i /\ \A e \in Clients : owner[e] = i => e = d
      BY <1>1, <3>1 DEF AuthorityHasSession
    <3>3. i # None
      BY <1>2, <3>1, CoordinatorConstants
    <3>4. d # c /\ d \in Clients
      BY <1>2, <1>5, <3>2, <3>3
    <3>5. d \in sessions' /\ owner'[d] = i
      BY <1>7, <1>12, <3>2, <3>4
    <3>6. \A e \in Clients : owner'[e] = i => e = d
      BY <1>12, <2>2, <3>2
    <3> QED
      BY <3>5, <3>6
  <2> QED
    BY <2>1, <2>2
<1>16. AuthorityLastsWithSession'
  <2> SUFFICES ASSUME NEW d \in sessions', owner'[d] # None
               PROVE \/ owner'[d] \in live'
                     \/ owner'[d].pub \in fenced'
                     \/ owner'[d].boot < boot'[owner'[d].pub]
    BY DEF AuthorityLastsWithSession
  <2>1. d \in sessions /\ d \in Clients
    BY <1>2, <1>7
  <2>2. CASE d = c
    <3>1. ok
      BY <1>7, <2>2
    <3> QED
      BY <1>7, <1>12, <2>2, <3>1
  <2>3. CASE d # c
    <3>1. owner'[d] = owner[d] /\ owner[d] \in Identity /\ owner[d] # fresh
      BY <1>12, <1>13, <2>1, <2>3
    <3>2. /\ owner[d].pub \in Publishers /\ owner[d].boot \in Nat
          /\ owner[d].boot <= boot[owner[d].pub]
      BY <1>12, <1>13, <2>1, <2>3, <3>1 DEF Identity
    <3>3. \/ owner[d] \in live
          \/ owner[d].pub \in fenced
          \/ owner[d].boot < boot[owner[d].pub]
      BY <1>1, <2>1, <3>1 DEF AuthorityLastsWithSession
    <3>4. CASE owner[d].pub = p
      BY <1>9, <1>11, <3>1, <3>2, <3>4
    <3>5. CASE owner[d].pub # p
      <4>1. boot'[owner[d].pub] = boot[owner[d].pub]
        BY <1>2, <1>8, <3>2, <3>5
      <4>2. owner[d] \in live => owner[d] \in live'
        BY <1>7, <3>1, <3>5
      <4> QED
        BY <1>8, <3>1, <3>3, <4>1, <4>2
    <3> QED
      BY <3>4, <3>5
  <2> QED
    BY <2>2, <2>3
<1> QED
  BY <1>14, <1>15, <1>16

LEMMA FenceAuthority ==
  ASSUME SessionInv, NEW c \in Clients, Fence(c)
  PROVE  OwnerInv' /\ AuthorityHasSession' /\ AuthorityLastsWithSession'
<1> DEFINE p == Head(batch[c]).about
           authority == {i \in live : i.pub # p}
<1>1. PICK ok \in Sendable(c) : Answered(c, ok, stage[c], owner[c], authority, token)
  BY DEF Fence
<1>2. /\ fenced' = (IF boot[p] = 0 THEN fenced ELSE fenced \cup {p})
      /\ boot' = boot /\ ok \in BOOLEAN
  BY DEF Fence, Sendable
<1>3. \A i \in live \ authority : i.pub \in fenced'
  <2> SUFFICES ASSUME NEW i \in live, i.pub = p PROVE p \in fenced'
    OBVIOUS
  <2>1. PICK d \in sessions : owner[d] = i
    BY DEF SessionInv, AuthorityHasSession
  <2>2. d \in Clients /\ i \in Identity /\ i # None
    BY CoordinatorConstants DEF SessionInv, ControlInv, CoordinatorTypeOK
  <2>3. i.boot \in 1 .. boot[p] /\ boot \in [Publishers -> Nat] /\ i.pub \in Publishers
    BY <2>1, <2>2 DEF SessionInv, OwnerInv, ControlInv, CoordinatorTypeOK, Identity
  <2>4. boot[p] # 0
    BY <2>3
  <2> QED
    BY <1>2, <2>4
<1>4. authority \in SUBSET live /\ fenced \subseteq fenced'
  BY <1>2
<1> HIDE DEF authority
<1> QED
  BY <1>1, <1>2, <1>3, <1>4, AnsweredAuthority

LEMMA DispatchAuthority ==
  ASSUME SessionInv, NEW c \in Clients, Dispatch(c)
  PROVE  OwnerInv' /\ AuthorityHasSession' /\ AuthorityLastsWithSession'
<1>1. ASSUME Hello(c) \/ RefuseRegister(c) \/ ServePublisher(c) \/ ServeQuery(c)
               \/ ShutdownRequest(c)
      PROVE  OwnerInv' /\ AuthorityHasSession' /\ AuthorityLastsWithSession'
  <2>1. /\ \E ok \in Sendable(c), newStage \in {"greeted", "refused", stage[c]},
              stopping \in {token, TRUE} : Answered(c, ok, newStage, owner[c], live, stopping)
        /\ boot' = boot /\ fenced' = fenced
    BY <1>1 DEF Hello, RefuseRegister, ServePublisher, ServeQuery, ShutdownRequest
  <2>2. PICK ok \in Sendable(c), newStage \in {"greeted", "refused", stage[c]},
             stopping \in {token, TRUE} : Answered(c, ok, newStage, owner[c], live, stopping)
    BY <2>1
  <2>3. ok \in BOOLEAN
    BY DEF Sendable
  <2> QED
    BY <2>1, <2>2, <2>3, AnsweredAuthority
<1> QED
  BY <1>1, RegisterAuthority, FenceAuthority DEF Dispatch

\* The end of a set of sessions takes their identities, and nobody else's.
LEMMA EndedAuthority ==
  ASSUME SessionInv, NEW ended \in SUBSET sessions,
         sessions' = sessions \ ended, live' = live \ {owner[c] : c \in ended},
         owner' = owner, boot' = boot, fenced' = fenced
  PROVE  OwnerInv' /\ AuthorityHasSession' /\ AuthorityLastsWithSession'
<1>1. OwnerInv /\ AuthorityHasSession /\ AuthorityLastsWithSession /\ sessions \subseteq Clients
  BY DEF SessionInv, ControlInv, CoordinatorTypeOK
<1>2. OwnerInv'
  BY <1>1 DEF OwnerInv
<1>3. AuthorityHasSession'
  BY <1>1 DEF AuthorityHasSession
<1>4. AuthorityLastsWithSession'
  <2> SUFFICES ASSUME NEW d \in sessions \ ended, owner[d] # None
               PROVE \/ owner[d] \in live'
                     \/ owner[d].pub \in fenced
                     \/ owner[d].boot < boot[owner[d].pub]
    BY DEF AuthorityLastsWithSession
  <2>1. \A c \in ended : owner[c] # owner[d]
    BY <1>1 DEF OwnerInv
  <2> QED
    BY <1>1, <2>1 DEF AuthorityLastsWithSession
<1> QED
  BY <1>2, <1>3, <1>4

LEMMA SessionInit == Init => SessionInv
<1> SUFFICES ASSUME Init PROVE SessionInv
  OBVIOUS
<1>1. OwnerInv
  BY DEF Init, OwnerInv
<1>2. AuthorityHasSession /\ AuthorityLastsWithSession
  BY DEF Init, AuthorityHasSession, AuthorityLastsWithSession
<1> QED
  BY <1>1, <1>2, ControlInit DEF SessionInv

LEMMA SessionStep == SessionInv /\ [Next]_vars => SessionInv'
<1> SUFFICES ASSUME SessionInv, [Next]_vars
             PROVE  OwnerInv' /\ AuthorityHasSession' /\ AuthorityLastsWithSession'
  BY ControlStep DEF SessionInv
<1>0. CoordinatorTypeOK /\ TurnInv /\ StageInv /\ CoordinatorTypeOK'
  BY ControlStep DEF SessionInv, ControlInv
<1> USE DEF clientVars, netVars, turnVars, sessionVars, registryVars
<1>1. ASSUME \/ Poll \/ RequestShutdown \/ UNCHANGED vars
             \/ \E c \in Clients : \/ ReadSession(c) \/ Connect(c) \/ Close(c)
                                   \/ \E f \in Requests(c) : Send(c, f)
      PROVE  OwnerInv' /\ AuthorityHasSession' /\ AuthorityLastsWithSession'
  <2>1. /\ sessions' = sessions /\ owner' = owner /\ boot' = boot /\ live' = live
        /\ fenced' = fenced
    BY <1>1 DEF Poll, RequestShutdown, vars, ReadSession, Connect, Close, Send
  <2> QED
    BY <1>0, <2>1, AuthoritySame DEF CoordinatorTypeOK
<1>2. ASSUME Select PROVE OwnerInv' /\ AuthorityHasSession' /\ AuthorityLastsWithSession'
  <2>1. /\ sessions \subseteq sessions' /\ sessions' \subseteq sessions \cup backlog
        /\ owner' = owner /\ boot' = boot /\ live' = live /\ fenced' = fenced
    BY <1>2 DEF Select
  <2>2. \A c \in sessions' \ sessions : owner[c] = None
    BY <1>0, <2>1 DEF StageInv, CoordinatorTypeOK
  <2> QED
    BY <1>0, <2>1, <2>2, AuthoritySame DEF CoordinatorTypeOK
<1>3. ASSUME RetireDead PROVE OwnerInv' /\ AuthorityHasSession' /\ AuthorityLastsWithSession'
  <2>1. dead \in SUBSET sessions
    BY <1>0 DEF TurnInv
  <2>2. /\ sessions' = sessions \ dead /\ live' = live \ {owner[c] : c \in dead}
        /\ owner' = owner /\ boot' = boot /\ fenced' = fenced
    BY <1>3 DEF RetireDead
  <2> QED
    BY <2>1, <2>2, EndedAuthority
<1>4. ASSUME Stop PROVE OwnerInv' /\ AuthorityHasSession' /\ AuthorityLastsWithSession'
  <2>1. /\ sessions' = sessions \ sessions /\ live' = live \ {owner[c] : c \in sessions}
        /\ owner' = owner /\ boot' = boot /\ fenced' = fenced
    BY <1>4 DEF Stop
  <2> QED
    BY <2>1, EndedAuthority
<1> QED
  BY <1>1, <1>2, <1>3, <1>4, DispatchAuthority DEF Next, LoopStep, ClientStep

\* Authority never outlives its connection, and is never shared by two: whatever is
\* registered, fenced, dropped or retired, in any order and by any number of clients
\* (dispatch_frames, drop_session, retire_session and the end of run()).
THEOREM AuthorityNeedsSession == Spec => []AuthorityHasSession
<1>1. SessionInv => AuthorityHasSession
  BY DEF SessionInv
<1> QED
  BY <1>1, SessionInit, SessionStep, PTL DEF Spec

\* An open session keeps the authority it was given until its publisher is fenced or
\* registers again; no other session's end takes it away (retire_session).
THEOREM AuthorityIsNotStolen == Spec => []AuthorityLastsWithSession
<1>1. SessionInv => AuthorityLastsWithSession
  BY DEF SessionInv
<1> QED
  BY <1>1, SessionInit, SessionStep, PTL DEF Spec

====================================================================================
