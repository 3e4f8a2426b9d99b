------------------------------ MODULE DeviceMesh -------------------------------
(***************************************************************************)
(* The mesh as one host device sees it: its sockets (a session may have    *)
(* several: tabs, or a reconnection the server meets before it notices     *)
(* that the old socket is dead), the registry that says whether the device *)
(* is online, the presence announced to the other devices, the outbox of   *)
(* each session, and the prompts other devices send to chats it hosts.     *)
(*                                                                         *)
(* A handler of the server is a fiber: reading or changing a Ref is a      *)
(* step, and what it does with the value read is another.  A Queue is      *)
(* named after the fiber that created it.                                  *)
(*                                                                         *)
(* Sources: server/src/mesh/Layers (DeviceRegistry, PresenceBroadcaster,   *)
(* PromptRouter), mesh/meshWsHandlers, ws (the socket's acquire and        *)
(* release); web/src/environments/runtime/service, rpc/wsTransport.        *)
(***************************************************************************)
EXTENDS Integers, Sequences, FiniteSets

CONSTANTS
  Sockets,      \* connections of the host device, each opened at most once
  Sessions,     \* its authenticated sessions
  SessionOf,    \* the session a socket authenticates as
  Prompts,      \* turn starts other devices send to chats of the host
  None

ASSUME MeshAssumption ==
  /\ SessionOf \in [Sockets -> Sessions]
  /\ None \notin Sockets \cup Sessions \cup Prompts \cup {"on", "off"}
  /\ Sockets \cap Prompts = {} /\ IsFiniteSet(Sockets)

Queues == Sockets \cup Prompts

VARIABLES
  phase,       \* of a socket at the server
  alive,       \* the socket still has its client
  online,      \* DeviceRegistry: the sessions of the device that are online
  owes,        \* the presence a socket's fiber has still to publish, or None
  announced,   \* how often each presence was published
  outboxes,    \* PromptRouter: session |-> queue, or None
  queued,      \* queue |-> the prompts in it
  making,      \* the queue a fiber created and has not installed yet, or None
  reads,       \* the queue a socket's subscription takes from, or None
  wire,        \* prompts sent to the client of a socket, not acknowledged
  commands,    \* prompts the client dispatched on its socket
  target,      \* the session a prompt was routed to, or None
  outcome,     \* what became of a prompt
  lost         \* prompts that went down with a socket

registry == <<online, owes, announced>>
router == <<outboxes, queued, making>>
vars == <<phase, alive, online, owes, announced, outboxes, queued, making, reads,
          wire, commands, target, outcome, lost>>

Init ==
  /\ phase = [s \in Sockets |-> "away"] /\ alive = [s \in Sockets |-> FALSE]
  /\ online = {} /\ owes = [s \in Sockets |-> None]
  /\ announced = [on |-> 0, off |-> 0]
  /\ outboxes = [a \in Sessions |-> None] /\ queued = [q \in Queues |-> <<>>]
  /\ making = [q \in Queues |-> None] /\ reads = [s \in Sockets |-> None]
  /\ wire = [s \in Sockets |-> <<>>] /\ commands = [s \in Sockets |-> {}]
  /\ target = [p \in Prompts |-> None] /\ outcome = [p \in Prompts |-> "unsent"]
  /\ lost = {}

Elements(seq) == {seq[i] : i \in 1..Len(seq)}

-----------------------------------------------------------------------------
(* DeviceRegistry and the presence it publishes: a session is in the set   *)
(* once, however many sockets it has.  Faults: a session is kept while     *)
(* another of its sockets is there, if only to leave; the last one leaves  *)
(* a blank entry; a session that is not in the set takes the device        *)
(* offline again.                                                          *)
WithoutUnlessShared(sessions, a) ==
  LET there == {s \in Sockets : SessionOf[s] = a /\ phase[s] \in {"open", "leaving"}} IN
  IF Cardinality(there) > 1 THEN sessions ELSE sessions \ {a}
WithoutEntry(sessions, a) == IF sessions \subseteq {a} THEN {None} ELSE sessions \ {a}
BecameOfflineNow(before, after) == after = {}

Without(sessions, a) == sessions \ {a}
BecameOffline(before, after) == before # {} /\ after = {}

(* The acquisition of a socket: register.                                  *)
Register(s) ==
  /\ phase[s] = "away"
  /\ phase' = [phase EXCEPT ![s] = "joining"] /\ alive' = [alive EXCEPT ![s] = TRUE]
  /\ online' = online \cup {SessionOf[s]}
  /\ owes' = [owes EXCEPT ![s] = IF online = {} THEN "on" ELSE None]
  /\ UNCHANGED <<announced, router, reads, wire, commands, target, outcome, lost>>

Announce(s) ==
  announced' = IF owes[s] = None THEN announced ELSE [announced EXCEPT ![owes[s]] = @ + 1]

AnnounceJoin(s) ==
  /\ phase[s] = "joining" /\ phase' = [phase EXCEPT ![s] = "open"]
  /\ Announce(s) /\ owes' = [owes EXCEPT ![s] = None]
  /\ UNCHANGED <<alive, online, router, reads, wire, commands, target, outcome, lost>>

(* The client goes away; the server has not noticed.                       *)
Drop(s) ==
  /\ alive[s] /\ alive' = [alive EXCEPT ![s] = FALSE]
  /\ UNCHANGED <<phase, registry, router, reads, wire, commands, target, outcome, lost>>

(* The release of a socket: its streams and requests are interrupted, and  *)
(* unregister.                                                             *)
Unregister(s) ==
  LET after == Without(online, SessionOf[s]) IN
  /\ phase[s] = "open" /\ ~alive[s]
  /\ phase' = [phase EXCEPT ![s] = "leaving"]
  /\ online' = after
  /\ owes' = [owes EXCEPT ![s] = IF BecameOffline(online, after) THEN "off" ELSE None]
  /\ reads' = [reads EXCEPT ![s] = None] /\ making' = [making EXCEPT ![s] = None]
  /\ lost' = lost \cup Elements(wire[s]) \cup commands[s]
  /\ wire' = [wire EXCEPT ![s] = <<>>] /\ commands' = [commands EXCEPT ![s] = {}]
  /\ UNCHANGED <<alive, announced, outboxes, queued, target, outcome>>

AnnounceLeave(s) ==
  /\ phase[s] = "leaving" /\ phase' = [phase EXCEPT ![s] = "left"]
  /\ Announce(s) /\ owes' = [owes EXCEPT ![s] = None]
  /\ UNCHANGED <<alive, online, router, reads, wire, commands, target, outcome, lost>>

-----------------------------------------------------------------------------
(* getOrCreateOutbox: look up, create a Queue, install it unless another   *)
(* fiber did, and use what is installed.  Fault: use the queue created.    *)
OwnQueue(a, created) == created
Installed(a, created) == IF outboxes[a] = None THEN created ELSE outboxes[a]

Create(q) == making' = [making EXCEPT ![q] = q]
Install(a, created) ==
  outboxes' = [outboxes EXCEPT ![a] = IF @ = None THEN created ELSE @]

(* subscribePrompts, asked for by a client once its socket is open.        *)
Subscribe(s) ==
  LET a == SessionOf[s] IN
  /\ phase[s] = "open" /\ reads[s] = None
  /\ \/ /\ making[s] = None /\ alive[s] /\ outboxes[a] # None
        /\ reads' = [reads EXCEPT ![s] = outboxes[a]] /\ UNCHANGED <<outboxes, making>>
     \/ /\ making[s] = None /\ alive[s] /\ outboxes[a] = None
        /\ Create(s) /\ UNCHANGED <<outboxes, reads>>
     \/ /\ making[s] # None /\ Install(a, making[s])
        /\ reads' = [reads EXCEPT ![s] = Installed(a, making[s])]
        /\ making' = [making EXCEPT ![s] = None]
  /\ UNCHANGED <<phase, alive, registry, queued, wire, commands, target, outcome, lost>>

(* The stream takes all there is, and takes again when the client has      *)
(* acknowledged what it was sent.                                          *)
Take(s) ==
  /\ reads[s] # None /\ wire[s] = <<>> /\ queued[reads[s]] # <<>>
  /\ wire' = [wire EXCEPT ![s] = queued[reads[s]]]
  /\ queued' = [queued EXCEPT ![reads[s]] = <<>>]
  /\ UNCHANGED <<phase, alive, registry, outboxes, making, reads, commands, target,
                 outcome, lost>>

-----------------------------------------------------------------------------
(* sendPrompt of a viewer to a chat hosted by another device: pick an      *)
(* online session of the host (the one registered first), then publish to  *)
(* its outbox.                                                             *)
Route(p) ==
  /\ outcome[p] = "unsent"
  /\ \/ /\ online = {} /\ outcome' = [outcome EXCEPT ![p] = "refused"] /\ UNCHANGED target
     \/ \E a \in online :
          /\ target' = [target EXCEPT ![p] = a]
          /\ outcome' = [outcome EXCEPT ![p] = "routed"]
  /\ UNCHANGED <<phase, alive, registry, router, reads, wire, commands, lost>>

Offer(p, q) ==
  /\ queued' = [queued EXCEPT ![q] = Append(@, p)]
  /\ outcome' = [outcome EXCEPT ![p] = "forwarded"]

Publish(p) ==
  LET a == target[p] IN
  /\ outcome[p] = "routed"
  /\ \/ /\ making[p] = None /\ outboxes[a] # None
        /\ Offer(p, outboxes[a]) /\ UNCHANGED <<outboxes, making>>
     \/ /\ making[p] = None /\ outboxes[a] = None
        /\ Create(p) /\ UNCHANGED <<outboxes, queued, outcome>>
     \/ /\ making[p] # None /\ Install(a, making[p])
        /\ Offer(p, Installed(a, making[p])) /\ making' = [making EXCEPT ![p] = None]
  /\ UNCHANGED <<phase, alive, registry, reads, wire, commands, target, lost>>

(* applyPromptForward of the host's client: each prompt it receives is     *)
(* dispatched as a command of its own.                                     *)
Receive(s) ==
  /\ alive[s] /\ wire[s] # <<>>
  /\ commands' = [commands EXCEPT ![s] = @ \cup Elements(wire[s])]
  /\ wire' = [wire EXCEPT ![s] = <<>>]
  /\ UNCHANGED <<phase, alive, registry, router, reads, target, outcome, lost>>

(* The server runs a command that has reached it.                          *)
Dispatch(s) ==
  \E p \in commands[s] :
    /\ commands' = [commands EXCEPT ![s] = @ \ {p}]
    /\ outcome' = [outcome EXCEPT ![p] = "applied"]
    /\ UNCHANGED <<phase, alive, registry, router, reads, wire, target, lost>>

-----------------------------------------------------------------------------
Run ==
  \/ \E s \in Sockets : \/ AnnounceJoin(s) \/ Unregister(s) \/ AnnounceLeave(s)
                        \/ Subscribe(s) \/ Take(s) \/ Receive(s) \/ Dispatch(s)
  \/ \E p \in Prompts : Publish(p)

Next ==
  \/ \E s \in Sockets : Register(s) \/ Drop(s)
  \/ \E p \in Prompts : Route(p)
  \/ Run

Spec == Init /\ [][Next]_vars
FairSpec == Spec /\ WF_vars(Run)

-----------------------------------------------------------------------------
TypeOK ==
  /\ phase \in [Sockets -> {"away", "joining", "open", "leaving", "left"}]
  /\ alive \in [Sockets -> BOOLEAN]
  /\ online \subseteq Sessions /\ owes \in [Sockets -> {"on", "off", None}]
  /\ announced \in [on : Nat, off : Nat]
  /\ outboxes \in [Sessions -> Queues \cup {None}]
  /\ queued \in [Queues -> Seq(Prompts)]
  /\ making \in [Queues -> Queues \cup {None}]
  /\ reads \in [Sockets -> Queues \cup {None}]
  /\ wire \in [Sockets -> Seq(Prompts)] /\ commands \in [Sockets -> SUBSET Prompts]
  /\ target \in [Prompts -> Sessions \cup {None}]
  /\ outcome \in [Prompts -> {"unsent", "refused", "routed", "forwarded", "applied"}]
  /\ lost \subseteq Prompts

(* However the sockets of a device join and leave, a session the registry  *)
(* calls online has a socket the server still serves: when all are gone    *)
(* the device is offline, and prompts for its chats are refused.           *)
NoGhostSession ==
  \A a \in online : \E s \in Sockets : SessionOf[s] = a /\ phase[s] \in {"joining", "open"}

(* Every change of the device between online and offline is announced      *)
(* once: counting what fibers have still to publish, "online" was said as  *)
(* often as "offline", and once more while the device is online.           *)
Owing(presence) == Cardinality({s \in Sockets : owes[s] = presence})

AnnouncementsBalance ==
  announced.on + Owing("on") =
    announced.off + Owing("off") + IF online = {} THEN 0 ELSE 1

(* A socket with a client and a subscription leaves nothing waiting: what  *)
(* is published to its session ends in a command, or with a dead socket    *)
(* that took it first.  (An outbox is created by whoever comes first, the  *)
(* publisher or a subscriber, and both may be creating it.)                *)
Delivered(p) == outcome[p] = "applied" \/ p \in lost

ForwardedPromptsArrive ==
  <>[] \A s \in Sockets :
         alive[s] /\ phase[s] = "open" =>
           \A p \in Prompts : target[p] = SessionOf[s] => Delivered(p)
===============================================================================
