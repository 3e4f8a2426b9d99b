--------------------------- MODULE DeviceMeshProofs ----------------------------
(***************************************************************************)
(* Whatever the number of sockets, sessions and prompts: a session the     *)
(* registry calls online has a socket, and presence is announced once per  *)
(* change.                                                                 *)
EXTENDS DeviceMesh, TLAPS, FiniteSetTheorems

(* The strengthening: a fiber owes an announcement only between its change *)
(* of the registry and the end of its step, and a prompt being published   *)
(* has a session to be published to.                                       *)
OwesInPassing == \A s \in Sockets : owes[s] # None => phase[s] \in {"joining", "leaving"}
RoutedSomewhere == \A p \in Prompts : outcome[p] = "routed" => target[p] \in Sessions

IInv == TypeOK /\ NoGhostSession /\ AnnouncementsBalance /\ OwesInPassing /\ RoutedSomewhere

-----------------------------------------------------------------------------
(* How the number of fibers that owe an announcement changes with one.     *)
Unit(x, value) == IF x = value THEN 1 ELSE 0

LEMMA OwingOfOne ==
  ASSUME owes \in [Sockets -> {"on", "off", None}], NEW s \in Sockets,
         NEW v \in {"on", "off", None}, owes' = [owes EXCEPT ![s] = v]
  PROVE  /\ Owing("on") \in Nat /\ Owing("on")' \in Nat
         /\ Owing("off") \in Nat /\ Owing("off")' \in Nat
         /\ Owing("on")' + Unit(owes[s], "on") = Owing("on") + Unit(v, "on")
         /\ Owing("off")' + Unit(owes[s], "off") = Owing("off") + Unit(v, "off")
<1>1. ASSUME NEW presence
      PROVE  /\ Owing(presence) \in Nat /\ Owing(presence)' \in Nat
             /\ Owing(presence)' + Unit(owes[s], presence) =
                  Owing(presence) + Unit(v, presence)
  <2> DEFINE Others == {t \in Sockets \ {s} : owes[t] = presence}
             Before == {t \in Sockets : owes[t] = presence}
             After == {t \in Sockets : owes'[t] = presence}
  <2>1. IsFiniteSet(Others) /\ Cardinality(Others) \in Nat /\ s \notin Others
    <3>1. Others \in SUBSET Sockets
      OBVIOUS
    <3> QED BY <3>1, MeshAssumption, FS_Subset, FS_CardinalityType DEF MeshAssumption
  <2>2. Before = IF owes[s] = presence THEN Others \cup {s} ELSE Others
    OBVIOUS
  <2>3. After = IF v = presence THEN Others \cup {s} ELSE Others
    OBVIOUS
  <2>4. Cardinality(Others \cup {s}) = Cardinality(Others) + 1
    BY <2>1, FS_AddElement
  <2>5. Owing(presence) = Cardinality(Before) /\ Owing(presence)' = Cardinality(After)
    BY DEF Owing
  <2> HIDE DEF Others, Before, After
  <2>6. Cardinality(Before) = Cardinality(Others) + Unit(owes[s], presence)
    BY <2>1, <2>2, <2>4 DEF Unit
  <2>7. Cardinality(After) = Cardinality(Others) + Unit(v, presence)
    BY <2>1, <2>3, <2>4 DEF Unit
  <2>8. Unit(owes[s], presence) \in Nat /\ Unit(v, presence) \in Nat
    BY DEF Unit
  <2> QED BY <2>1, <2>5, <2>6, <2>7, <2>8
<1> QED BY <1>1, Zenon

-----------------------------------------------------------------------------
THEOREM InitHolds == Init => IInv
<1> SUFFICES ASSUME Init PROVE IInv
  OBVIOUS
<1> USE MeshAssumption DEF MeshAssumption
<1>1. TypeOK /\ NoGhostSession /\ OwesInPassing /\ RoutedSomewhere
  BY DEF Init, TypeOK, NoGhostSession, OwesInPassing, RoutedSomewhere, Queues
<1>2. Owing("on") = 0 /\ Owing("off") = 0
  <2>1. {s \in Sockets : owes[s] = "on"} = {} /\ {s \in Sockets : owes[s] = "off"} = {}
    BY DEF Init
  <2> QED BY <2>1, FS_EmptySet DEF Owing
<1>3. AnnouncementsBalance
  BY <1>2 DEF AnnouncementsBalance, Init
<1> QED BY <1>1, <1>3 DEF IInv

LEMMA TypeStep == IInv /\ [Next]_vars => TypeOK'
<1> SUFFICES ASSUME IInv, [Next]_vars PROVE TypeOK'
  OBVIOUS
<1> USE MeshAssumption DEF MeshAssumption, IInv, TypeOK
<1>1. ASSUME NEW s \in Sockets, Register(s) PROVE TypeOK'
  BY <1>1 DEF Register, router
<1>2. ASSUME NEW s \in Sockets, Drop(s) PROVE TypeOK'
  BY <1>2 DEF Drop, registry, router
<1>3. ASSUME NEW s \in Sockets, AnnounceJoin(s) PROVE TypeOK'
  BY <1>3 DEF AnnounceJoin, Announce, router, Queues
<1>4. ASSUME NEW s \in Sockets, Unregister(s) PROVE TypeOK'
  BY <1>4 DEF Unregister, Without, BecameOffline, Elements, Queues
<1>5. ASSUME NEW s \in Sockets, AnnounceLeave(s) PROVE TypeOK'
  BY <1>5 DEF AnnounceLeave, Announce, router, Queues
<1>6. ASSUME NEW s \in Sockets, Subscribe(s) PROVE TypeOK'
  <2>0. SessionOf[s] \in Sessions /\ s \in Queues
    BY DEF Queues
  <2>1. reads' \in [Sockets -> Queues \cup {None}]
    <3> DEFINE box == outboxes[SessionOf[s]]
               own == Installed(SessionOf[s], making[s])
    <3>1. box \in Queues \cup {None} /\ making[s] \in Queues \cup {None}
      BY <2>0
    <3>2. own \in Queues \cup {None}
      BY <3>1 DEF Installed
    <3>3. \/ reads' = reads \/ reads' = [reads EXCEPT ![s] = box]
          \/ reads' = [reads EXCEPT ![s] = own]
      BY <1>6 DEF Subscribe
    <3>4. reads \in [Sockets -> Queues \cup {None}]
      OBVIOUS
    <3> HIDE DEF box, own, TypeOK, IInv
    <3> QED BY <3>1, <3>2, <3>3, <3>4
  <2>2. outboxes' \in [Sessions -> Queues \cup {None}]
    BY <1>6, <2>0 DEF Subscribe, Install
  <2>3. making' \in [Queues -> Queues \cup {None}]
    <3>1. making' = making \/ making' = [making EXCEPT ![s] = s]
            \/ making' = [making EXCEPT ![s] = None]
      BY <1>6 DEF Subscribe, Create
    <3> QED BY ZenonT(60), <2>0, <3>1
  <2> QED BY <1>6, <2>1, <2>2, <2>3 DEF Subscribe, registry
<1>7. ASSUME NEW s \in Sockets, Take(s) PROVE TypeOK'
  BY <1>7 DEF Take, registry
<1>8. ASSUME NEW s \in Sockets, Receive(s) PROVE TypeOK'
  BY <1>8 DEF Receive, registry, router, Elements
<1>9. ASSUME NEW s \in Sockets, Dispatch(s) PROVE TypeOK'
  BY <1>9 DEF Dispatch, registry, router
<1>10. ASSUME NEW p \in Prompts, Route(p) PROVE TypeOK'
  <2>1. target' \in [Prompts -> Sessions \cup {None}]
    <3>1. target' = target \/ \E a \in online : target' = [target EXCEPT ![p] = a]
      BY <1>10 DEF Route
    <3> QED BY <3>1
  <2>2. outcome' \in [Prompts -> {"unsent", "refused", "routed", "forwarded", "applied"}]
    BY <1>10 DEF Route
  <2> QED BY <1>10, <2>1, <2>2 DEF Route, registry, router
<1>11. ASSUME NEW p \in Prompts, Publish(p) PROVE TypeOK'
  <2>0. target[p] \in Sessions /\ p \in Queues
    BY <1>11 DEF Publish, RoutedSomewhere, Queues
  <2>1. outboxes' \in [Sessions -> Queues \cup {None}]
    BY <1>11, <2>0 DEF Publish, Install
  <2>2. making' \in [Queues -> Queues \cup {None}]
    <3>1. making' = making \/ making' = [making EXCEPT ![p] = p]
            \/ making' = [making EXCEPT ![p] = None]
      BY <1>11 DEF Publish, Create
    <3> QED BY ZenonT(60), <2>0, <3>1
  <2>3. ASSUME NEW q \in Queues, Offer(p, q)
        PROVE  /\ queued' \in [Queues -> Seq(Prompts)]
               /\ outcome' \in
                    [Prompts -> {"unsent", "refused", "routed", "forwarded", "applied"}]
    BY <2>3 DEF Offer
  <2>4. /\ outboxes[target[p]] # None => outboxes[target[p]] \in Queues
        /\ making[p] # None => Installed(target[p], making[p]) \in Queues
    BY <2>0 DEF Installed
  <2> QED BY <1>11, <2>0, <2>1, <2>2, <2>3, <2>4 DEF Publish, registry
<1>12. CASE UNCHANGED vars
  BY <1>12 DEF vars
<1> QED
  BY <1>1, <1>2, <1>3, <1>4, <1>5, <1>6, <1>7, <1>8, <1>9, <1>10, <1>11, <1>12
  DEF Next, Run

LEMMA RoutedStep == IInv /\ [Next]_vars => RoutedSomewhere'
<1> SUFFICES ASSUME IInv, [Next]_vars PROVE RoutedSomewhere'
  OBVIOUS
<1> USE DEF IInv, TypeOK, RoutedSomewhere
<1>1. ASSUME NEW p \in Prompts, Route(p) PROVE RoutedSomewhere'
  BY <1>1 DEF Route
<1>2. ASSUME NEW p \in Prompts, Publish(p) PROVE RoutedSomewhere'
  BY <1>2 DEF Publish, Offer
<1>3. ASSUME NEW s \in Sockets, Dispatch(s) PROVE RoutedSomewhere'
  BY <1>3 DEF Dispatch
<1>4. CASE UNCHANGED <<target, outcome>>
  BY <1>4
<1> QED
  BY <1>1, <1>2, <1>3, <1>4
  DEF Next, Run, vars, Register, Drop, AnnounceJoin, Unregister, AnnounceLeave, Subscribe,
      Take, Receive

(* The registry changes in four actions only.                              *)
LEMMA RegistryStep ==
  IInv /\ [Next]_vars => NoGhostSession' /\ OwesInPassing' /\ AnnouncementsBalance'
<1> SUFFICES ASSUME IInv, [Next]_vars
             PROVE  NoGhostSession' /\ OwesInPassing' /\ AnnouncementsBalance'
  OBVIOUS
<1> DEFINE Goal == NoGhostSession' /\ OwesInPassing' /\ AnnouncementsBalance'
<1> USE MeshAssumption DEF MeshAssumption
<1>t. /\ phase \in [Sockets -> {"away", "joining", "open", "leaving", "left"}]
      /\ online \subseteq Sessions /\ owes \in [Sockets -> {"on", "off", None}]
      /\ announced \in [on : Nat, off : Nat]
  BY DEF IInv, TypeOK
<1>i. NoGhostSession /\ OwesInPassing /\ AnnouncementsBalance
  BY DEF IInv
<1>1. ASSUME NEW s \in Sockets, Register(s) PROVE Goal
  <2>1. NoGhostSession'
    BY <1>1, <1>t, <1>i DEF Register, NoGhostSession
  <2>2. OwesInPassing' /\ owes[s] = None
    BY <1>1, <1>t, <1>i DEF Register, OwesInPassing
  <2>3. AnnouncementsBalance'
    <3> DEFINE v == IF online = {} THEN "on" ELSE None
    <3>1. owes' = [owes EXCEPT ![s] = v] /\ v \in {"on", "off", None}
      BY <1>1 DEF Register
    <3>3. online' # {} /\ announced' = announced /\ v # "off"
      BY <1>1 DEF Register
    <3>2. /\ Owing("on") \in Nat /\ Owing("off") \in Nat
          /\ Owing("on")' = Owing("on") + (IF v = "on" THEN 1 ELSE 0)
          /\ Owing("off")' = Owing("off")
      <4> HIDE DEF v
      <4>1. /\ Owing("on") \in Nat /\ Owing("on")' \in Nat
            /\ Owing("off") \in Nat /\ Owing("off")' \in Nat
            /\ Owing("on")' + Unit(owes[s], "on") = Owing("on") + Unit(v, "on")
            /\ Owing("off")' + Unit(owes[s], "off") = Owing("off") + Unit(v, "off")
        BY <1>t, <3>1, OwingOfOne, Zenon
      <4>2. v # "off"
        BY <3>3
      <4> QED BY <2>2, <4>1, <4>2 DEF Unit
    <3>4. v = "on" <=> online = {}
      OBVIOUS
    <3> HIDE DEF v
    <3> QED BY <1>t, <1>i, <3>2, <3>3, <3>4 DEF AnnouncementsBalance
  <2> QED BY <2>1, <2>2, <2>3
<1>2. ASSUME NEW s \in Sockets, AnnounceJoin(s) \/ AnnounceLeave(s) PROVE Goal
  <2>1. NoGhostSession'
    BY <1>2, <1>t, <1>i DEF AnnounceJoin, AnnounceLeave, NoGhostSession
  <2>2. OwesInPassing'
    BY <1>2, <1>t, <1>i DEF AnnounceJoin, AnnounceLeave, OwesInPassing
  <2>3. AnnouncementsBalance'
    <3>1. owes' = [owes EXCEPT ![s] = None] /\ online' = online
      BY <1>2 DEF AnnounceJoin, AnnounceLeave
    <3>2. /\ Owing("on") \in Nat /\ Owing("on")' \in Nat
          /\ Owing("off") \in Nat /\ Owing("off")' \in Nat
          /\ Owing("on")' + (IF owes[s] = "on" THEN 1 ELSE 0) = Owing("on")
          /\ Owing("off")' + (IF owes[s] = "off" THEN 1 ELSE 0) = Owing("off")
      <4>1. /\ Owing("on") \in Nat /\ Owing("on")' \in Nat
            /\ Owing("off") \in Nat /\ Owing("off")' \in Nat
            /\ Owing("on")' + Unit(owes[s], "on") = Owing("on") + Unit(None, "on")
            /\ Owing("off")' + Unit(owes[s], "off") = Owing("off") + Unit(None, "off")
        BY <1>t, <3>1, OwingOfOne, Zenon
      <4> QED BY <4>1 DEF Unit
    <3>3. /\ announced'.on = announced.on + (IF owes[s] = "on" THEN 1 ELSE 0)
          /\ announced'.off = announced.off + (IF owes[s] = "off" THEN 1 ELSE 0)
      BY <1>2, <1>t DEF AnnounceJoin, AnnounceLeave, Announce
    <3> QED BY <1>t, <1>i, <3>1, <3>2, <3>3 DEF AnnouncementsBalance
  <2> QED BY <2>1, <2>2, <2>3
<1>3. ASSUME NEW s \in Sockets, Unregister(s) PROVE Goal
  <2>1. NoGhostSession'
    BY <1>3, <1>t, <1>i DEF Unregister, Without, NoGhostSession
  <2>2. OwesInPassing' /\ owes[s] = None
    BY <1>3, <1>t, <1>i DEF Unregister, OwesInPassing
  <2>3. AnnouncementsBalance'
    <3> DEFINE v == IF online # {} /\ online' = {} THEN "off" ELSE None
    <3>1. owes' = [owes EXCEPT ![s] = v] /\ v \in {"on", "off", None}
      BY <1>3 DEF Unregister, Without, BecameOffline
    <3>2. /\ Owing("on") \in Nat /\ Owing("off") \in Nat
          /\ Owing("off")' = Owing("off") + (IF v = "off" THEN 1 ELSE 0)
          /\ Owing("on")' = Owing("on")
      <4>1. v # "on"
        OBVIOUS
      <4> HIDE DEF v
      <4>2. /\ Owing("on") \in Nat /\ Owing("on")' \in Nat
            /\ Owing("off") \in Nat /\ Owing("off")' \in Nat
            /\ Owing("on")' + Unit(owes[s], "on") = Owing("on") + Unit(v, "on")
            /\ Owing("off")' + Unit(owes[s], "off") = Owing("off") + Unit(v, "off")
        BY <1>t, <3>1, OwingOfOne, Zenon
      <4> QED BY <2>2, <4>1, <4>2 DEF Unit
    <3>3. announced' = announced /\ (online' # {} => online # {})
      BY <1>3 DEF Unregister, Without
    <3>4. v = "off" <=> online # {} /\ online' = {}
      OBVIOUS
    <3> HIDE DEF v
    <3> QED BY <1>t, <1>i, <3>2, <3>3, <3>4 DEF AnnouncementsBalance
  <2> QED BY <2>1, <2>2, <2>3
<1>4. CASE UNCHANGED <<phase, online, owes, announced>>
  BY <1>4, <1>i DEF NoGhostSession, OwesInPassing, AnnouncementsBalance, Owing
<1> QED
  BY <1>1, <1>2, <1>3, <1>4
  DEF Next, Run, vars, registry, Drop, Subscribe, Take, Receive, Dispatch, Route, Publish

THEOREM Inductive == Spec => []IInv
<1>1. IInv /\ [Next]_vars => IInv'
  BY TypeStep, RoutedStep, RegistryStep DEF IInv
<1> QED BY InitHolds, <1>1, PTL DEF Spec

(* Sockets, registry, outboxes and prompts keep their types.               *)
THEOREM TypeCorrect == Spec => []TypeOK
BY Inductive, PTL DEF IInv

(* The registry of ws.ts and DeviceRegistry.ts never calls a session       *)
(* online that has no socket left, however its sockets overlap.            *)
THEOREM OnlineHasSocket == Spec => []NoGhostSession
BY Inductive, PTL DEF IInv

(* Each change between online and offline is announced exactly once.       *)
THEOREM PresenceIsAnnouncedOnce == Spec => []AnnouncementsBalance
BY Inductive, PTL DEF IInv
===============================================================================
