------------------------------- MODULE Coordinator -------------------------------
(***************************************************************************)
(* The coordinator's event loop and its sessions, with the publishers and  *)
(* query clients at the other end of the connections.                      *)
(*                                                                         *)
(* One thread waits until some socket is readable, accepts at most one     *)
(* connection, reads every ready session, retires the sessions found dead, *)
(* and then interprets the frames it read, one session after the other.    *)
(* Clients send, and die, between any two of these steps.                  *)
(*                                                                         *)
(* Abstractions.  A connection is a client of this model; a process that   *)
(* reconnects is another client with the same publisher.  Bytes are whole  *)
(* frames, and "Garbage" is what the decoder refuses.  A client takes its  *)
(* answer as soon as it is sent: the clients of this code read the answer  *)
(* to a request before anything else.  The registry is reduced to which    *)
(* identities (publisher, boot) hold authority; PublisherAuthority has the *)
(* rest of it.                                                             *)
(***************************************************************************)
EXTENDS Integers, Sequences, FiniteSets

CONSTANTS
  Clients,          \* connections that are attempted
  Publishers,       \* publisher ids
  RegistersAs,      \* the publishers a client may turn out to be
  Operators,        \* the clients that may query, fence and stop
  MaxConnections,   \* limits.max_connections
  MaxPublishers,    \* limits.max_publishers
  MaxBatch,         \* limits.max_pending_publications
  Window,           \* bound: requests a publisher sends ahead of their answers
  MaxRequests,      \* bound: requests of each client
  None              \* model value

Identity == [pub : Publishers, boot : Nat]

ASSUME CoordinatorConstants ==
  /\ RegistersAs \in [Clients -> SUBSET Publishers] /\ Operators \subseteq Clients
  /\ None \notin Publishers /\ None \notin Clients /\ None \notin Identity
  /\ MaxConnections \in Nat /\ MaxPublishers \in Nat /\ MaxBatch \in Nat /\ Window \in Nat
  /\ MaxRequests \in [Clients -> Nat]

VARIABLES
  \* the clients
  stage,       \* how far connect_and_register or connect has come
  waiting,     \* requests whose answer has not come
  sent,        \* requests so far, for the bound
  hung,        \* the clients that closed their end or died
  \* the network
  backlog,     \* connections the listener has not accepted
  inbox,       \* frames in flight to the coordinator
  \* the event loop
  loop,        \* where it is
  token,       \* shutdown was requested
  sessions,    \* the clients in Impl::sessions
  greeted,     \* session.handshake_complete
  owner,       \* session.publisher and session.boot, None unless registered
  unread,      \* ready sessions still to be read in this turn
  dead,        \* sessions found closed in this turn
  batch,       \* frames read in this turn and not interpreted yet
  serving,     \* the session whose frames are being interpreted
  \* the registry
  boot,        \* the last boot assigned to a publisher
  live,        \* identities that hold authority
  fenced       \* publishers fenced by an administrator

clientVars == <<stage, waiting, sent, hung>>
netVars == <<backlog, inbox>>
turnVars == <<unread, dead, batch, serving>>
sessionVars == <<sessions, greeted, owner>>
registryVars == <<boot, live, fenced>>
vars == <<clientVars, netVars, loop, token, turnVars, sessionVars, registryVars>>

Frame(kind, about) == [kind |-> kind, about |-> about]
Empty == [c \in Clients |-> <<>>]

--------------------------------------------------------------------------------
(* Clients.                                                                *)

\* connect_loopback: the kernel completes the connection, whatever the loop does.
Connect(c) ==
  /\ stage[c] = "off"
  /\ loop # "stopped"
  /\ stage' = [stage EXCEPT ![c] = "connected"]
  /\ backlog' = backlog \cup {c}
  /\ UNCHANGED <<waiting, sent, hung, inbox, loop, token, turnVars, sessionVars,
                 registryVars>>

\* What a client may send next: a HELLO; then a publisher registers, and publishes (a
\* heartbeat is served alike), while an operator queries, fences, stops the
\* coordinator, or speaks something else.
Requests(c) ==
  CASE stage[c] = "connected" -> {Frame("Hello", None)}
    [] stage[c] = "greeted" ->
         [kind : {"Register"}, about : RegistersAs[c]]
           \cup {f \in [kind : {"Query", "Shutdown", "Garbage"}, about : {None}]
                         \cup [kind : {"Fence"}, about : Publishers] : c \in Operators}
    [] stage[c] = "registered" -> {Frame("Publish", None)}
    [] OTHER -> {}

\* One request leaves.  The clients of this code wait for every answer; a publisher that
\* does not, which the limit on a batch is there for, is ahead by up to Window.
Send(c, f) ==
  /\ c \in (sessions \cup backlog) \ hung
  /\ f \in Requests(c)
  /\ waiting[c] < IF stage[c] = "registered" THEN Window ELSE 1
  /\ sent[c] < MaxRequests[c]
  /\ sent' = [sent EXCEPT ![c] = @ + 1]
  /\ waiting' = [waiting EXCEPT ![c] = @ + 1]
  /\ inbox' = [inbox EXCEPT ![c] = Append(@, f)]
  /\ UNCHANGED <<stage, hung, backlog, loop, token, turnVars, sessionVars, registryVars>>

\* disconnect, the destructor, or the end of the process, while the connection lasts.
Close(c) ==
  /\ c \in (sessions \cup backlog) \ hung
  /\ hung' = hung \cup {c}
  /\ UNCHANGED <<stage, waiting, sent, netVars, loop, token, turnVars, sessionVars,
                 registryVars>>

--------------------------------------------------------------------------------
(* The first half of a turn: wait, accept, read, retire.                   *)

Ready == {c \in sessions : inbox[c] # <<>> \/ c \in hung}

\* Mutant of Poll: the token is not looked at before the loop waits again.
PollUnchecked ==
  /\ loop = "top"
  /\ loop' = "select"
  /\ UNCHANGED <<clientVars, netVars, token, turnVars, sessionVars, registryVars>>

\* The top of the loop, where the token is polled.
Poll ==
  /\ loop = "top"
  /\ ~token
  /\ loop' = "select"
  /\ UNCHANGED <<clientVars, netVars, token, turnVars, sessionVars, registryVars>>

\* wait_all_readable returns, without a timeout, once something is readable.  If the
\* listener is, one connection is accepted, or refused when the limit is reached; it
\* is not among the sessions that are read in this turn.
Select ==
  /\ loop = "select"
  /\ backlog # {} \/ Ready # {}
  /\ unread' = Ready
  /\ loop' = IF Ready = {} THEN "top" ELSE "read"
  /\ IF backlog = {} THEN UNCHANGED <<backlog, sessions>>
     ELSE \E c \in backlog :
            /\ backlog' = backlog \ {c}
            /\ sessions' = IF Cardinality(sessions) < MaxConnections
                           THEN sessions \cup {c} ELSE sessions
  /\ UNCHANGED <<clientVars, inbox, token, dead, batch, serving, greeted, owner, registryVars>>

\* read_session: whatever has arrived is read and decoded.  The session is dead when
\* there is nothing to read or the read fails (which it may once the peer is gone),
\* when a frame is malformed, and when there are too many; the frames are then lost.
ReadSession(c) ==
  LET arrived == inbox[c]
      Bad == \/ arrived = <<>>
             \/ \E n \in DOMAIN arrived : arrived[n].kind = "Garbage"
             \/ Len(arrived) > MaxBatch
  IN /\ loop = "read"
     /\ c \in unread
     /\ unread' = unread \ {c}
     /\ loop' = IF unread' = {} THEN "retire" ELSE "read"
     /\ inbox' = [inbox EXCEPT ![c] = <<>>]
     /\ \E closed \in BOOLEAN :
          /\ Bad => closed
          /\ closed => Bad \/ c \in hung
          /\ dead' = IF closed THEN dead \cup {c} ELSE dead
          /\ batch' = [batch EXCEPT ![c] = IF closed THEN <<>> ELSE arrived]
     /\ UNCHANGED <<clientVars, backlog, token, serving, sessionVars, registryVars>>

\* Mutant of RetireDead: the sessions are erased, their boots are not retired.
RetireNothing ==
  /\ loop = "retire"
  /\ loop' = IF batch = Empty THEN "top" ELSE "dispatch"
  /\ sessions' = sessions \ dead
  /\ dead' = {}
  /\ UNCHANGED <<clientVars, netVars, token, unread, batch, serving, greeted, owner,
                 registryVars>>

\* Mutant of RetireDead: the publisher of a dead session loses authority, whatever its boot.
RetirePublisherOfDead ==
  /\ loop = "retire"
  /\ loop' = IF batch = Empty THEN "top" ELSE "dispatch"
  /\ sessions' = sessions \ dead
  /\ live' = {i \in live : \A c \in dead : owner[c] # None => owner[c].pub # i.pub}
  /\ dead' = {}
  /\ UNCHANGED <<clientVars, netVars, token, unread, batch, serving, greeted, owner,
                 boot, fenced>>

\* drop_session for every dead session: its boot is retired before any frame of any
\* session is interpreted.
RetireDead ==
  /\ loop = "retire"
  /\ loop' = IF batch = Empty THEN "top" ELSE "dispatch"
  /\ sessions' = sessions \ dead
  /\ live' = live \ {owner[c] : c \in dead}
  /\ dead' = {}
  /\ UNCHANGED <<clientVars, netVars, token, unread, batch, serving, greeted, owner,
                 boot, fenced>>

--------------------------------------------------------------------------------
(* The second half: interpret the frames.                                  *)

\* The next frame of the session being served, or of any session that has frames.
Interprets(c, kind) ==
  /\ loop = "dispatch"
  /\ batch[c] # <<>>
  /\ serving \in {None, c}
  /\ Head(batch[c]).kind = kind

\* An answer to a peer that is gone may fail to be sent.
Sendable(c) == IF c \in hung THEN BOOLEAN ELSE {TRUE}

\* Mutant of Answered: only the first frame of a batch is interpreted.
AnsweredFirstOnly(c, ok, newStage, id, authority, stopping) ==
  /\ token' = stopping
  /\ batch' = [batch EXCEPT ![c] = <<>>]
  /\ serving' = None
  /\ loop' = IF batch' = Empty THEN "top" ELSE "dispatch"
  /\ waiting' = [waiting EXCEPT ![c] = IF ok THEN @ - 1 ELSE @]
  /\ stage' = [stage EXCEPT ![c] = IF ok THEN newStage ELSE @]
  /\ owner' = [owner EXCEPT ![c] = id]
  /\ live' = IF ok THEN authority ELSE authority \ {id}
  /\ sessions' = IF ok THEN sessions ELSE sessions \ {c}
  /\ UNCHANGED <<sent, hung, netVars, unread, dead>>

\* dispatch_frames after a frame: the session is dropped when the answer could not be
\* sent, and the rest of its frames are left when shutdown has been requested.
Answered(c, ok, newStage, id, authority, stopping) ==
  LET rest == IF ok /\ ~stopping THEN Tail(batch[c]) ELSE <<>>
  IN /\ token' = stopping
     /\ batch' = [batch EXCEPT ![c] = rest]
     /\ serving' = IF rest = <<>> THEN None ELSE c
     /\ loop' = IF batch' = Empty THEN "top" ELSE "dispatch"
     /\ waiting' = [waiting EXCEPT ![c] = IF ok THEN @ - 1 ELSE @]
     /\ stage' = [stage EXCEPT ![c] = IF ok THEN newStage ELSE @]
     /\ owner' = [owner EXCEPT ![c] = id]
     /\ live' = IF ok THEN authority ELSE authority \ {id}
     /\ sessions' = IF ok THEN sessions ELSE sessions \ {c}
     /\ UNCHANGED <<sent, hung, netVars, unread, dead>>

Hello(c) ==
  /\ Interprets(c, "Hello")
  /\ greeted' = greeted \cup {c}
  /\ \E ok \in Sendable(c) : Answered(c, ok, "greeted", owner[c], live, token)
  /\ UNCHANGED <<boot, fenced>>

\* register_publisher_locked takes a publisher that is not fenced and, if it is new, for
\* which there is a place.
Registrable(p) ==
  /\ p \notin fenced
  /\ boot[p] = 0 => Cardinality({q \in Publishers : boot[q] # 0}) < MaxPublishers

\* A registration without a boot: the registry assigns a fresh one and fences the one
\* before; the session takes note of it.
Register(c) ==
  LET p == Head(batch[c]).about
      fresh == [pub |-> p, boot |-> boot[p] + 1]
  IN /\ Interprets(c, "Register")
     /\ c \in greeted
     /\ Registrable(p)
     /\ boot' = [boot EXCEPT ![p] = @ + 1]
     /\ \E ok \in Sendable(c) :
          Answered(c, ok, "registered", fresh, {i \in live : i.pub # p} \cup {fresh}, token)
     /\ UNCHANGED <<greeted, fenced>>

\* A registration that is refused, for want of a HELLO or by the registry.
RefuseRegister(c) ==
  /\ Interprets(c, "Register")
  /\ c \notin greeted \/ ~Registrable(Head(batch[c]).about)
  /\ \E ok \in Sendable(c) : Answered(c, ok, "refused", owner[c], live, token)
  /\ UNCHANGED <<greeted, boot, fenced>>

\* Publications and heartbeats are answered.  Which publications the registry accepts
\* is PublisherAuthority's business.
ServePublisher(c) ==
  /\ Interprets(c, "Publish")
  /\ \E ok \in Sendable(c) : Answered(c, ok, stage[c], owner[c], live, token)
  /\ UNCHANGED <<greeted, boot, fenced>>

\* serve_query: the answer, or an error if it cannot be encoded or is too large.
ServeQuery(c) ==
  /\ Interprets(c, "Query")
  /\ \E ok \in Sendable(c) : Answered(c, ok, stage[c], owner[c], live, token)
  /\ UNCHANGED <<greeted, boot, fenced>>

\* fence_publisher, from any connection.
Fence(c) ==
  LET p == Head(batch[c]).about
  IN /\ Interprets(c, "Fence")
     /\ fenced' = IF boot[p] = 0 THEN fenced ELSE fenced \cup {p}
     /\ \E ok \in Sendable(c) :
          Answered(c, ok, stage[c], owner[c], {i \in live : i.pub # p}, token)
     /\ UNCHANGED <<greeted, boot>>

\* A shutdown request through the control channel: acknowledged, then requested.
ShutdownRequest(c) ==
  /\ Interprets(c, "Shutdown")
  /\ \E ok \in Sendable(c) : Answered(c, ok, stage[c], owner[c], live, TRUE)
  /\ UNCHANGED <<greeted, boot, fenced>>

Dispatch(c) ==
  \/ Hello(c) \/ Register(c) \/ RefuseRegister(c) \/ ServePublisher(c) \/ Fence(c)
  \/ ServeQuery(c) \/ ShutdownRequest(c)

--------------------------------------------------------------------------------
(* The end.                                                                *)

\* request_shutdown, from any thread.  The loop does not wake up for it.
RequestShutdown ==
  /\ ~token
  /\ loop # "stopped"
  /\ token' = TRUE
  /\ UNCHANGED <<clientVars, netVars, loop, turnVars, sessionVars, registryVars>>

\* The ordered shutdown at the end of run(): the listener is closed, every session is
\* retired.
Stop ==
  /\ loop = "top"
  /\ token
  /\ loop' = "stopped"
  /\ backlog' = {}
  /\ sessions' = {}
  /\ live' = live \ {owner[c] : c \in sessions}
  /\ UNCHANGED <<clientVars, inbox, token, turnVars, greeted, owner, boot, fenced>>

--------------------------------------------------------------------------------
Init ==
  /\ stage = [c \in Clients |-> "off"]
  /\ waiting = [c \in Clients |-> 0]
  /\ sent = [c \in Clients |-> 0]
  /\ hung = {}
  /\ backlog = {}
  /\ inbox = Empty
  /\ loop = "top"
  /\ token = FALSE
  /\ sessions = {}
  /\ greeted = {}
  /\ owner = [c \in Clients |-> None]
  /\ unread = {}
  /\ dead = {}
  /\ batch = Empty
  /\ serving = None
  /\ boot = [p \in Publishers |-> 0]
  /\ live = {}
  /\ fenced = {}

LoopStep ==
  \/ Poll \/ Select \/ RetireDead \/ Stop
  \/ \E c \in Clients : ReadSession(c) \/ Dispatch(c)

ClientStep ==
  \E c \in Clients : Connect(c) \/ Close(c) \/ \E f \in Requests(c) : Send(c, f)

Next == LoopStep \/ ClientStep \/ RequestShutdown

\* The loop's thread runs: it never waits but in select and, here, never in a send.
\* Clients and the threads that request shutdown owe nothing.
Spec == Init /\ [][Next]_vars /\ WF_vars(LoopStep)

--------------------------------------------------------------------------------
(* Properties.                                                             *)

\* Authority never outlives its connection: every identity that holds authority was
\* given to exactly one open session, whatever was registered, dropped or fenced in
\* between (RegisterPublisher in dispatch, retire_session, the end of run).
AuthorityHasSession ==
  \A i \in live : \E c \in sessions : owner[c] = i /\ \A d \in Clients : owner[d] = i => d = c

\* Authority lasts as long as the connection: a publisher whose session is open holds it
\* unless it was fenced or a later boot replaced it; neither the end of another session
\* of the same publisher nor that of its predecessor takes it away (retire_session).
AuthorityLastsWithSession ==
  \A c \in sessions :
    owner[c] # None => \/ owner[c] \in live
                       \/ owner[c].pub \in fenced
                       \/ owner[c].boot < boot[owner[c].pub]

\* Every request of a connected client is answered, or its session ends.
RequestsServed ==
  \A c \in Clients : waiting[c] > 0 ~> waiting[c] = 0 \/ c \notin sessions \cup backlog

\* The boot of a publisher that died loses authority: the loop sees the end of the
\* connection and retires it, whatever the other clients do.
DeathRetires ==
  \A c \in Clients : c \in hung /\ owner[c] \in live ~> owner[c] \notin live

\* A shutdown requested while the loop is awake, or when something is readable, is
\* carried out.  (Requested in an idle select it waits for the next activity.)
ShutdownServed ==
  token /\ (loop # "select" \/ backlog # {} \/ Ready # {}) ~> loop = "stopped"

================================================================================
