--------------------------- MODULE MarketDataProofs ---------------------------
(***************************************************************************)
(* Theorems about the two ways of market data: through the consumers of    *)
(* MarketDataPipeline into the table, and through WebSocketGateway to the  *)
(* clients.  The two share no state, and neither proof uses the other.     *)
(***************************************************************************)
EXTENDS MarketDataPipeline, WebSocketGateway, FiniteSetTheorems, SequenceTheorems,
        WellFoundedInduction, TLAPS

(***************************************************************************)
(* WebSocketGateway, for any connections, users, channels and limits.      *)
(*                                                                         *)
(* Several coroutines disconnect a connection: its endpoint, its           *)
(* heartbeat, and a broadcast that could not reach it.  RemoveEffect says  *)
(* what that does to the registries, once for all of them.                 *)
(***************************************************************************)

\* A connection that has not logged in is known to nobody but the manager.
Fresh ==
  \A c \in Conns :
    /\ endpoint[c] = "absent" => c \notin registered
    /\ endpoint[c] \in {"absent", "auth"} => user[c] = None /\ subs[c] = {}

\* An authenticated connection has a heartbeat until it is removed.
Watched ==
  \A c \in Conns :
    /\ heartbeat[c] = "done" => c \notin registered
    /\ endpoint[c] = "loop" => heartbeat[c] # "none"
    /\ endpoint[c] \in {"closing", "ended"} /\ heartbeat[c] = "none"
         => user[c] = None /\ subs[c] = {}

ManagerOK ==
  /\ registered \subseteq Conns
  /\ user \in [Conns -> Users \cup {None}]
  /\ subs \in [Conns -> SUBSET Channels]
  /\ channelSubs \in [Channels -> SUBSET Conns]
  /\ userConns \in [Users -> SUBSET Conns]
  /\ owed \in [Conns -> SUBSET Channels]

-----------------------------------------------------------------------------
\* disconnect() takes one connection out and changes no other.
LEMMA RemoveEffect ==
  ASSUME TypeOK, NEW c \in Conns, Remove(c)
  PROVE  /\ ManagerOK'
         /\ registered' = registered \ {c}
         /\ user'[c] = None /\ subs'[c] = {}
         /\ \A d \in Conns \ {c} : user'[d] = user[d] /\ subs'[d] = subs[d]
         /\ \A h \in Channels : channelSubs'[h] \subseteq channelSubs[h]
         /\ \A u \in Users : userConns'[u] \subseteq userConns[u]
<1> USE DEF TypeOK, Remove, ManagerOK
<1>1. /\ registered' = registered \ {c} /\ user' = [user EXCEPT ![c] = None]
      /\ subs' = [subs EXCEPT ![c] = {}] /\ owed' = [owed EXCEPT ![c] = {}]
  OBVIOUS
<1>2. /\ channelSubs' \in [Channels -> SUBSET Conns]
      /\ \A h \in Channels : channelSubs'[h] \subseteq channelSubs[h]
  OBVIOUS
<1>3. /\ userConns' \in [Users -> SUBSET Conns]
      /\ \A u \in Users : userConns'[u] \subseteq userConns[u]
  OBVIOUS
<1> QED BY <1>1, <1>2, <1>3

\* The heartbeat task is cancelled with it.
LEMMA DisconnectEffect ==
  ASSUME TypeOK, NEW c \in Conns, Disconnect(c)
  PROVE  /\ Remove(c)
         /\ heartbeat' \in [Conns -> {"none", "sleep", "wait", "done"}]
         /\ \A d \in Conns \ {c} : heartbeat'[d] = heartbeat[d]
         /\ heartbeat'[c] \in {heartbeat[c], "done"}
         /\ heartbeat'[c] = "none" <=> heartbeat[c] = "none"
BY DEF TypeOK, Disconnect, Beat

\* TypeOK: every registry keeps its shape whoever disconnects whom, and a
\* heartbeat belongs to a connection that has logged in.
THEOREM TypeCorrect == Spec => []TypeOK
<1>1. Init => TypeOK
  BY NamesAssumption DEF Init, TypeOK, NoCast
<1>2. TypeOK /\ [Next]_vars => TypeOK'
  <2> SUFFICES ASSUME TypeOK, [Next]_vars PROVE TypeOK'
    OBVIOUS
  <2> USE DEF TypeOK, Goto, Beat, manager, feed
  <2>1. ASSUME NEW c \in Conns, Connect(c) PROVE TypeOK'
    BY <2>1 DEF Connect
  <2>2. ASSUME NEW c \in Conns, NEW u \in Users, Authenticate(c, u) PROVE TypeOK'
    BY <2>2 DEF Authenticate
  <2>3. ASSUME NEW c \in Conns, Disconnect(c), ponged' \subseteq Conns, peer' = peer,
               cast' \in [todo : SUBSET Conns, stale : SUBSET Conns, channel : Channels],
               inbox' = inbox,
               \/ endpoint' = endpoint
               \/ endpoint' = [endpoint EXCEPT ![c] = "closing"]
               \/ endpoint' = [endpoint EXCEPT ![c] = "ended"]
        PROVE  TypeOK'
    <3>1. ManagerOK'
      BY <2>3, DisconnectEffect, RemoveEffect
    <3>2. endpoint' \in [Conns -> {"absent", "auth", "ready", "loop", "closing", "ended"}]
      BY <2>3
    <3>3. /\ heartbeat' \in [Conns -> {"none", "sleep", "wait", "done"}]
          /\ \A d \in Conns : heartbeat'[d] # "none" => heartbeat[d] # "none"
      BY <2>3, DisconnectEffect
    <3>4. \A d \in Conns : endpoint[d] \in {"loop", "closing", "ended"}
                             => endpoint'[d] \in {"loop", "closing", "ended"}
      BY <2>3
    <3>5. \A d \in Conns : heartbeat'[d] # "none" => endpoint'[d] \in {"loop", "closing", "ended"}
      BY <3>3, <3>4
    <3>6. /\ ponged' \subseteq Conns /\ inbox' \subseteq Channels
          /\ peer' \in [Conns -> {"answering", "silent", "gone"}]
          /\ cast' \in [todo : SUBSET Conns, stale : SUBSET Conns, channel : Channels]
      BY <2>3
    <3> QED BY <3>1, <3>2, <3>3, <3>5, <3>6 DEF ManagerOK
  <2>4. ASSUME NEW c \in Conns, RefuseAuth(c) \/ RateLimited(c) \/ Cleanup(c) PROVE TypeOK'
    BY <2>3, <2>4 DEF RefuseAuth, RateLimited, Cleanup
  <2>5. ASSUME NEW c \in Conns,
               \/ AuthRaises(c) \/ StartHeartbeat(c) \/ ReceiveEnds(c)
               \/ LoopRaises(c) \/ CleanupFails(c)
        PROVE  TypeOK'
    BY <2>5 DEF AuthRaises, StartHeartbeat, ReceiveEnds, LoopRaises, CleanupFails
  <2>6. ASSUME NEW c \in Conns, NEW h \in Channels, Subscribe(c, h) PROVE TypeOK'
    BY <2>6 DEF Subscribe
  <2>7. ASSUME NEW c \in Conns, NEW h \in Channels, Unsubscribe(c, h) PROVE TypeOK'
    BY <2>7 DEF Unsubscribe
  <2>8. ASSUME NEW c \in Conns, Pong(c) PROVE TypeOK'
    BY <2>8 DEF Pong
  <2>9. ASSUME NEW c \in Conns, SendHeartbeat(c) PROVE TypeOK'
    <3>1. CASE Disconnect(c)
      BY <2>3, <2>9, <3>1 DEF SendHeartbeat
    <3>2. CASE UNCHANGED <<manager, owed>> /\ (Beat(c, "done") \/ Beat(c, "wait"))
      BY <2>9, <3>2 DEF SendHeartbeat
    <3> QED BY <2>9, <3>1, <3>2 DEF SendHeartbeat
  <2>10. ASSUME NEW c \in Conns, CheckPong(c) PROVE TypeOK'
    <3>1. CASE Disconnect(c)
      BY <2>3, <2>10, <3>1 DEF CheckPong
    <3>2. CASE UNCHANGED <<manager, owed>> /\ (Beat(c, "done") \/ Beat(c, "sleep"))
      BY <2>10, <3>2 DEF CheckPong
    <3> QED BY <2>10, <3>1, <3>2 DEF CheckPong
  <2>11. ASSUME NEW c \in Conns, Silence(c) \/ Leave(c) PROVE TypeOK'
    BY <2>11 DEF Silence, Leave
  <2>12. ASSUME NEW h \in Channels, BridgePublishes(h) PROVE TypeOK'
    BY <2>12 DEF BridgePublishes
  <2>13. ASSUME NEW h \in Channels, Broadcast(h) PROVE TypeOK'
    BY <2>13 DEF Broadcast
  <2>14. ASSUME NEW c \in Conns, SendOne(c) PROVE TypeOK'
    <3>1. cast.todo \subseteq Conns /\ cast.stale \subseteq Conns /\ cast.channel \in Channels
      OBVIOUS
    <3>2. cast' \in [todo : SUBSET Conns, stale : SUBSET Conns, channel : Channels]
      <4>1. CASE cast' = [cast EXCEPT !.todo = @ \ {c}]
        BY <3>1, <4>1
      <4>2. CASE cast' = [cast EXCEPT !.todo = @ \ {c}, !.stale = @ \cup {c}]
        BY <3>1, <4>2
      <4> QED BY <2>14, <4>1, <4>2 DEF SendOne
    <3>3. owed' \in [Conns -> SUBSET Channels]
      BY <2>14, <3>1 DEF SendOne
    <3>4. UNCHANGED <<manager, endpoint, heartbeat, ponged, peer, inbox>>
      BY <2>14 DEF SendOne
    <3> QED BY <3>2, <3>3, <3>4
  <2>15. ASSUME NEW c \in Conns, DropStale(c) PROVE TypeOK'
    BY <2>3, <2>15 DEF DropStale
  <2>16. CASE UNCHANGED vars
    BY <2>16 DEF vars
  <2> QED
    BY <2>1, <2>2, <2>4, <2>5, <2>6, <2>7, <2>8, <2>9, <2>10, <2>11, <2>12, <2>13, <2>14,
       <2>15, <2>16 DEF Next, EndpointStep, ClosingStep, HeartbeatStep, CastStep
<1> QED BY <1>1, <1>2, PTL DEF Spec

-----------------------------------------------------------------------------
\* Who changes the registries: a step takes a connection in, logs it in,
\* subscribes it or unsubscribes it, disconnects it, or leaves them alone.
LEMMA RegistrySteps ==
  ASSUME [Next]_vars
  PROVE  \/ \E c \in Conns : Connect(c)
         \/ \E c \in Conns, u \in Users : Authenticate(c, u)
         \/ \E c \in Conns, h \in Channels : Subscribe(c, h) \/ Unsubscribe(c, h)
         \/ \E c \in Conns :
               /\ Disconnect(c)
               /\ \/ endpoint' = endpoint
                  \/ Goto(c, "closing") \/ Goto(c, "ended")
         \/ UNCHANGED manager
<1> USE DEF manager, feed
<1>1. ASSUME NEW c \in Conns,
             RefuseAuth(c) \/ RateLimited(c) \/ Cleanup(c) \/ DropStale(c)
      PROVE  Disconnect(c) /\ (endpoint' = endpoint \/ Goto(c, "closing") \/ Goto(c, "ended"))
  BY <1>1, Zenon DEF RefuseAuth, RateLimited, Cleanup, DropStale
<1>2. ASSUME NEW c \in Conns, SendHeartbeat(c) \/ CheckPong(c)
      PROVE  (Disconnect(c) /\ endpoint' = endpoint) \/ UNCHANGED manager
  BY <1>2, Zenon DEF SendHeartbeat, CheckPong
<1>3. ASSUME NEW c \in Conns,
             \/ AuthRaises(c) \/ StartHeartbeat(c) \/ ReceiveEnds(c) \/ LoopRaises(c)
             \/ CleanupFails(c) \/ Pong(c) \/ Silence(c) \/ Leave(c) \/ SendOne(c)
      PROVE  UNCHANGED manager
  BY <1>3 DEF AuthRaises, StartHeartbeat, ReceiveEnds, LoopRaises, CleanupFails, Pong,
     Silence, Leave, SendOne
<1>4. ASSUME NEW h \in Channels, BridgePublishes(h) \/ Broadcast(h)
      PROVE  UNCHANGED manager
  BY <1>4 DEF BridgePublishes, Broadcast
<1>5. UNCHANGED vars => UNCHANGED manager
  BY DEF vars
<1> QED
  BY <1>1, <1>2, <1>3, <1>4, <1>5, Zenon
  DEF Next, EndpointStep, ClosingStep, HeartbeatStep, CastStep

\* A coroutine that ran its login has left "absent" and "auth" for good.
LEMMA NextFresh ==
  ASSUME TypeOK, Fresh, [Next]_vars
  PROVE  Fresh'
<1> USE DEF TypeOK, Fresh, Goto, manager
<1>1. ASSUME UNCHANGED manager, ~(\E c \in Conns : Connect(c))
      PROVE  \A d \in Conns : endpoint'[d] \in {"absent", "auth"} => endpoint'[d] = endpoint[d]
  <2>1. \/ endpoint' = endpoint
        \/ \E c \in Conns, place \in {"ready", "loop", "closing", "ended"} :
              endpoint' = [endpoint EXCEPT ![c] = place]
    <3>1. ASSUME NEW c \in Conns,
                 \/ RefuseAuth(c) \/ RateLimited(c) \/ Cleanup(c) \/ AuthRaises(c)
                 \/ StartHeartbeat(c) \/ ReceiveEnds(c) \/ LoopRaises(c) \/ CleanupFails(c)
                 \/ \E u \in Users : Authenticate(c, u)
          PROVE  \E place \in {"ready", "loop", "closing", "ended"} :
                    endpoint' = [endpoint EXCEPT ![c] = place]
      BY <3>1 DEF RefuseAuth, RateLimited, Cleanup, AuthRaises, StartHeartbeat, ReceiveEnds,
         LoopRaises, CleanupFails, Authenticate
    <3>2. ASSUME NEW c \in Conns,
                 \/ Pong(c) \/ SendHeartbeat(c) \/ CheckPong(c) \/ Silence(c) \/ Leave(c)
                 \/ SendOne(c) \/ DropStale(c)
                 \/ \E h \in Channels : Subscribe(c, h) \/ Unsubscribe(c, h)
          PROVE  endpoint' = endpoint
      BY <3>2 DEF Pong, SendHeartbeat, CheckPong, Silence, Leave, SendOne, DropStale,
         Subscribe, Unsubscribe
    <3>3. ASSUME \/ \E h \in Channels : BridgePublishes(h) \/ Broadcast(h)
                 \/ UNCHANGED vars
          PROVE  endpoint' = endpoint
      BY <3>3 DEF BridgePublishes, Broadcast, vars
    <3> QED
      BY <1>1, <3>1, <3>2, <3>3, Zenon
      DEF Next, EndpointStep, ClosingStep, HeartbeatStep, CastStep
  <2> QED BY <2>1
<1>2. ASSUME NEW c \in Conns, Connect(c) PROVE Fresh'
  BY <1>2 DEF Connect
<1>3. ASSUME NEW c \in Conns, NEW u \in Users, Authenticate(c, u) PROVE Fresh'
  BY <1>3 DEF Authenticate
<1>4. ASSUME NEW c \in Conns, NEW h \in Channels, Subscribe(c, h) PROVE Fresh'
  BY <1>4 DEF Subscribe
<1>5. ASSUME NEW c \in Conns, NEW h \in Channels, Unsubscribe(c, h) PROVE Fresh'
  BY <1>5 DEF Unsubscribe
<1>6. ASSUME NEW c \in Conns, Disconnect(c),
             endpoint' = endpoint \/ Goto(c, "closing") \/ Goto(c, "ended")
      PROVE  Fresh'
  BY <1>6, DisconnectEffect, RemoveEffect
<1>7. CASE UNCHANGED manager
  BY <1>1, <1>7, <1>2
<1> QED BY <1>2, <1>3, <1>4, <1>5, <1>6, <1>7, RegistrySteps

LEMMA NextRegistriesAgree ==
  ASSUME TypeOK, Fresh, RegistriesAgree, [Next]_vars
  PROVE  RegistriesAgree'
<1> USE DEF TypeOK, RegistriesAgree
<1>1. ASSUME NEW c \in Conns, Connect(c) PROVE RegistriesAgree'
  <2>1. c \notin registered /\ user[c] = None /\ subs[c] = {}
    BY <1>1 DEF Connect, Fresh
  <2>2. /\ registered' = registered \cup {c}
        /\ UNCHANGED <<user, subs, channelSubs, userConns>>
    BY <1>1 DEF Connect
  <2> QED BY <2>1, <2>2, NamesAssumption
<1>2. ASSUME NEW c \in Conns, NEW u \in Users, Authenticate(c, u) PROVE RegistriesAgree'
  <2>1. c \in registered /\ user[c] = None
    BY <1>2 DEF Authenticate, Fresh
  <2>2. /\ user' = [user EXCEPT ![c] = u]
        /\ userConns' = [userConns EXCEPT ![u] = @ \cup {c}]
        /\ UNCHANGED <<registered, subs, channelSubs>>
    BY <1>2 DEF Authenticate
  <2>3. \A v \in Users : userConns'[v] = {d \in registered' : user'[d] = v}
    BY <2>1, <2>2, NamesAssumption
  <2> QED BY <2>2, <2>3
<1>3. ASSUME NEW c \in Conns, NEW h \in Channels, Subscribe(c, h) PROVE RegistriesAgree'
  BY <1>3 DEF Subscribe
<1>4. ASSUME NEW c \in Conns, NEW h \in Channels, Unsubscribe(c, h) PROVE RegistriesAgree'
  BY <1>4 DEF Unsubscribe
<1>5. ASSUME NEW c \in Conns, Disconnect(c) PROVE RegistriesAgree'
  <2>1. Remove(c)
    BY <1>5 DEF Disconnect
  <2>2. \A h \in Channels : channelSubs'[h] = channelSubs[h] \ {c}
    BY <2>1 DEF Remove
  <2>3. \A u \in Users : userConns'[u] = userConns[u] \ {c}
    BY <2>1 DEF Remove
  <2>4. /\ registered' = registered \ {c}
        /\ \A d \in Conns \ {c} : user'[d] = user[d] /\ subs'[d] = subs[d]
    BY <2>1, RemoveEffect
  <2> QED BY <2>2, <2>3, <2>4
<1>6. CASE UNCHANGED manager
  BY <1>6 DEF manager
<1> QED BY <1>1, <1>2, <1>3, <1>4, <1>5, <1>6, RegistrySteps

\* RegistriesAgree: the connection table, the channels' subscribers and the
\* users' connections never contradict each other, whatever coroutines remove a
\* connection and how often.
THEOREM RegistriesStayInStep == Spec => []RegistriesAgree
<1> DEFINE Inv == Fresh /\ RegistriesAgree
<1>1. Init => Inv
  BY DEF Init, Fresh, RegistriesAgree
<1>2. TypeOK /\ Inv /\ [Next]_vars => Inv'
  BY NextFresh, NextRegistriesAgree
<1> QED BY <1>1, <1>2, TypeCorrect, PTL DEF Spec

-----------------------------------------------------------------------------
\* LimitsHold: the limit is tested under the lock that also registers the
\* connection, so no interleaving of logins and subscriptions passes it.
THEOREM LimitsAreKept == Spec => []LimitsHold
<1>1. Init => LimitsHold
  <2> SUFFICES ASSUME Init PROVE LimitsHold
    OBVIOUS
  <2>1. \A u \in Users : userConns[u] = {}
    BY DEF Init
  <2>2. \A c \in Conns : subs[c] = {}
    BY DEF Init
  <2> QED BY <2>1, <2>2, FS_EmptySet, LimitsAssumption DEF LimitsHold
<1>2. TypeOK /\ LimitsHold /\ [Next]_vars => LimitsHold'
  <2> SUFFICES ASSUME TypeOK, LimitsHold, [Next]_vars PROVE LimitsHold'
    OBVIOUS
  <2> USE DEF TypeOK, LimitsHold
  <2>0. /\ \A u \in Users : IsFiniteSet(userConns[u]) /\ Cardinality(userConns[u]) \in Nat
        /\ \A c \in Conns : IsFiniteSet(subs[c]) /\ Cardinality(subs[c]) \in Nat
    BY NamesAssumption, FS_Subset, FS_CardinalityType
  <2>1. ASSUME NEW c \in Conns, Connect(c) PROVE LimitsHold'
    BY <2>1 DEF Connect
  <2>2. ASSUME NEW c \in Conns, NEW u \in Users, Authenticate(c, u) PROVE LimitsHold'
    <3>1. /\ userConns' = [userConns EXCEPT ![u] = @ \cup {c}] /\ subs' = subs
          /\ Cardinality(userConns[u]) < MaxConnections
      BY <2>2 DEF Authenticate
    <3>2. Cardinality(userConns[u] \cup {c}) <= MaxConnections
      <4>1. IsFiniteSet(userConns[u]) /\ Cardinality(userConns[u]) \in Nat
        BY <2>0
      <4>2. Cardinality(userConns[u] \cup {c})
              = IF c \in userConns[u] THEN Cardinality(userConns[u]) ELSE Cardinality(userConns[u]) + 1
        BY <4>1, FS_AddElement
      <4> QED BY <3>1, <4>1, <4>2, LimitsAssumption
    <3> QED BY <3>1, <3>2
  <2>3. ASSUME NEW c \in Conns, NEW h \in Channels, Subscribe(c, h) PROVE LimitsHold'
    <3>1. /\ subs' = [subs EXCEPT ![c] = @ \cup {h}] /\ userConns' = userConns
          /\ Cardinality(subs[c]) < MaxSubscriptions
      BY <2>3 DEF Subscribe
    <3>2. Cardinality(subs[c] \cup {h}) <= MaxSubscriptions
      <4>1. IsFiniteSet(subs[c]) /\ Cardinality(subs[c]) \in Nat
        BY <2>0
      <4>2. Cardinality(subs[c] \cup {h})
              = IF h \in subs[c] THEN Cardinality(subs[c]) ELSE Cardinality(subs[c]) + 1
        BY <4>1, FS_AddElement
      <4> QED BY <3>1, <4>1, <4>2, LimitsAssumption
    <3> QED BY <3>1, <3>2
  <2>4. ASSUME \A u \in Users : userConns'[u] \subseteq userConns[u],
               \A c \in Conns : subs'[c] \subseteq subs[c]
        PROVE  LimitsHold'
    <3>1. \A u \in Users : Cardinality(userConns'[u]) <= MaxConnections
      <4> TAKE u \in Users
      <4>1. userConns'[u] \subseteq userConns[u] /\ IsFiniteSet(userConns[u])
        BY <2>0, <2>4
      <4>2. /\ Cardinality(userConns'[u]) \in Nat
            /\ Cardinality(userConns'[u]) <= Cardinality(userConns[u])
        BY <4>1, FS_Subset, FS_CardinalityType
      <4> QED BY <2>0, <4>2, LimitsAssumption
    <3>2. \A c \in Conns : Cardinality(subs'[c]) <= MaxSubscriptions
      <4> TAKE c \in Conns
      <4>1. subs'[c] \subseteq subs[c] /\ IsFiniteSet(subs[c])
        BY <2>0, <2>4
      <4>2. /\ Cardinality(subs'[c]) \in Nat
            /\ Cardinality(subs'[c]) <= Cardinality(subs[c])
        BY <4>1, FS_Subset, FS_CardinalityType
      <4> QED BY <2>0, <4>2, LimitsAssumption
    <3> QED BY <3>1, <3>2
  <2>5. ASSUME NEW c \in Conns, NEW h \in Channels, Unsubscribe(c, h) PROVE LimitsHold'
    <3>1. subs' = [subs EXCEPT ![c] = @ \ {h}] /\ userConns' = userConns
      BY <2>5 DEF Unsubscribe
    <3> QED BY <2>4, <3>1
  <2>6. ASSUME NEW c \in Conns, Disconnect(c) PROVE LimitsHold'
    <3>1. Remove(c)
      BY <2>6 DEF Disconnect
    <3> QED BY <2>4, <3>1, RemoveEffect
  <2>7. CASE UNCHANGED manager
    BY <2>7 DEF manager
  <2> QED BY <2>1, <2>2, <2>3, <2>5, <2>6, <2>7, RegistrySteps
<1> QED BY <1>1, <1>2, TypeCorrect, PTL DEF Spec

-----------------------------------------------------------------------------
\* A heartbeat ends only when its connection is removed, and no step takes a
\* logged-in connection away from its heartbeat.
LEMMA NextWatched ==
  ASSUME TypeOK, Fresh, Watched, [Next]_vars
  PROVE  Watched'
<1> USE DEF TypeOK, Watched, Fresh, Goto, Beat, manager, feed
<1>1. ASSUME NEW c \in Conns, Connect(c) PROVE Watched'
  BY <1>1 DEF Connect
<1>2. ASSUME NEW c \in Conns, NEW u \in Users, Authenticate(c, u) PROVE Watched'
  BY <1>2 DEF Authenticate
<1>3. ASSUME NEW c \in Conns, NEW h \in Channels, Subscribe(c, h) PROVE Watched'
  BY <1>3 DEF Subscribe
<1>4. ASSUME NEW c \in Conns, NEW h \in Channels, Unsubscribe(c, h) PROVE Watched'
  BY <1>4 DEF Unsubscribe
<1>5. ASSUME NEW c \in Conns, Disconnect(c),
             endpoint' = endpoint \/ Goto(c, "closing") \/ Goto(c, "ended")
      PROVE  Watched'
  <2>1. /\ registered' = registered \ {c} /\ user'[c] = None /\ subs'[c] = {}
        /\ \A d \in Conns \ {c} : user'[d] = user[d] /\ subs'[d] = subs[d]
    BY <1>5, DisconnectEffect, RemoveEffect
  <2>2. /\ \A d \in Conns \ {c} : heartbeat'[d] = heartbeat[d]
        /\ heartbeat'[c] = "none" <=> heartbeat[c] = "none"
    BY <1>5, DisconnectEffect
  <2>3. /\ \A d \in Conns \ {c} : endpoint'[d] = endpoint[d]
        /\ endpoint'[c] \in {endpoint[c], "closing", "ended"}
    BY <1>5
  <2> QED BY <2>1, <2>2, <2>3
<1>6. ASSUME NEW c \in Conns,
             RefuseAuth(c) \/ RateLimited(c) \/ Cleanup(c) \/ DropStale(c)
      PROVE  Watched'
  BY <1>5, <1>6 DEF RefuseAuth, RateLimited, Cleanup, DropStale
<1>7. ASSUME NEW c \in Conns,
             AuthRaises(c) \/ StartHeartbeat(c) \/ ReceiveEnds(c) \/ LoopRaises(c)
      PROVE  Watched'
  BY <1>7 DEF AuthRaises, StartHeartbeat, ReceiveEnds, LoopRaises
<1>8. ASSUME NEW c \in Conns, CleanupFails(c) PROVE Watched'
  BY <1>8 DEF CleanupFails
<1>9. ASSUME NEW c \in Conns, SendHeartbeat(c) \/ CheckPong(c) PROVE Watched'
  <2>1. endpoint' = endpoint
    BY <1>9 DEF SendHeartbeat, CheckPong
  <2>2. \/ Disconnect(c)
        \/ /\ UNCHANGED manager
           /\ heartbeat[c] # "none"
           /\ \/ c \notin registered /\ Beat(c, "done")
              \/ Beat(c, "wait") \/ Beat(c, "sleep")
    BY <1>9, Zenon DEF SendHeartbeat, CheckPong
  <2>3. CASE Disconnect(c)
    BY <1>5, <2>1, <2>3
  <2>4. CASE ~Disconnect(c)
    BY <2>1, <2>2, <2>4
  <2> QED BY <2>3, <2>4
<1>10. ASSUME UNCHANGED <<manager, endpoint, heartbeat>> PROVE Watched'
  BY <1>10
<1>11. ASSUME NEW c \in Conns, Pong(c) \/ Silence(c) \/ Leave(c) \/ SendOne(c)
       PROVE  UNCHANGED <<manager, endpoint, heartbeat>>
  BY <1>11 DEF Pong, Silence, Leave, SendOne
<1>12. ASSUME NEW h \in Channels, BridgePublishes(h) \/ Broadcast(h)
       PROVE  UNCHANGED <<manager, endpoint, heartbeat>>
  BY <1>12 DEF BridgePublishes, Broadcast
<1>13. UNCHANGED vars => UNCHANGED <<manager, endpoint, heartbeat>>
  BY DEF vars
<1> QED
  BY <1>1, <1>2, <1>3, <1>4, <1>6, <1>7, <1>8, <1>9, <1>10, <1>11, <1>12, <1>13, Zenon
  DEF Next, EndpointStep, ClosingStep, HeartbeatStep, CastStep

\* LeaksHoldNothing: when Redis fails in the cleanup the connection stays, but
\* its heartbeat is still there to remove it, or it never logged in.
THEOREM OnlyStrangersLeak == Spec => []LeaksHoldNothing
<1> DEFINE Inv == Fresh /\ Watched
<1>1. Init => Inv
  BY DEF Init, Fresh, Watched
<1>2. TypeOK /\ Inv /\ [Next]_vars => Inv'
  BY NextFresh, NextWatched
<1>3. TypeOK /\ Inv => LeaksHoldNothing
  BY DEF TypeOK, Watched, LeaksHoldNothing
<1> QED BY <1>1, <1>2, <1>3, TypeCorrect, PTL DEF Spec
-----------------------------------------------------------------------------
(***************************************************************************)
(* MarketDataPipeline, for any records, feeds, batch size and number of    *)
(* faults.                                                                 *)
(*                                                                         *)
(* First the price grid: rounding to the tick of the tier a price comes    *)
(* from also lands on the grid of the tier it arrives in.  Then what each  *)
(* operation of Kafka does to the messages ahead of a reader, those it has *)
(* read and those a producer holds; then the forms a step takes; then, one *)
(* step form at a time, what lies in each topic is fit for it, and every   *)
(* record has someone who still answers for it.                            *)
(***************************************************************************)
\* The tiers do not overlap: a price in one of them has its tick.
LEMMA TickOfTier ==
  ASSUME NEW price \in Int, NEW tier \in Tiers, tier.low <= price, price <= tier.high
  PROVE  TickSize(price) = tier.tick
<1>1. {t \in Tiers : t.low <= price /\ price <= t.high} = {tier}
  BY DEF Tiers
<1> HIDE DEF Tiers
<1> QED BY <1>1 DEF TickSize

\* The tick of every price, also of those between two tiers and outside them all.
LEMMA Ticks ==
  ASSUME NEW price \in Int
  PROVE  TickSize(price) =
           IF 0 <= price /\ price <= 1990 THEN 10
           ELSE IF 2000 <= price /\ price <= 4990 THEN 20
           ELSE IF 5000 <= price /\ price <= 19990 THEN 50
           ELSE IF 20000 <= price /\ price <= 49990 THEN 100
           ELSE 250
<1>1. CASE 0 <= price /\ price <= 1990
  BY <1>1, TickOfTier DEF Tiers
<1>2. CASE 2000 <= price /\ price <= 4990
  BY <1>2, TickOfTier DEF Tiers
<1>3. CASE 5000 <= price /\ price <= 19990
  BY <1>3, TickOfTier DEF Tiers
<1>4. CASE 20000 <= price /\ price <= 49990
  BY <1>4, TickOfTier DEF Tiers
<1>5. CASE 50000 <= price /\ price <= 999990
  BY <1>5, TickOfTier DEF Tiers
<1>6. CASE \/ price < 0 \/ 999990 < price
           \/ 1990 < price /\ price < 2000
           \/ 4990 < price /\ price < 5000
           \/ 19990 < price /\ price < 20000
           \/ 49990 < price /\ price < 50000
  <2>1. {t \in Tiers : t.low <= price /\ price <= t.high} = {}
    BY <1>6 DEF Tiers
  <2> QED BY <1>6, <2>1 DEF TickSize, DefaultTick
<1> QED BY <1>1, <1>2, <1>3, <1>4, <1>5, <1>6

\* k * d is a multiple of d nearest to n.
Nearest(n, d, k) == 2 * (n - k * d) <= d /\ 2 * (k * d - n) <= d

\* Rounding takes a price to a multiple of its tick at most half a tick away.
LEMMA RoundingIsNearest ==
  ASSUME NEW n \in Int, NEW d \in {10, 20, 50, 100, 250}
  PROVE  RoundHalfEven(n, d) \in Int /\ Nearest(n, d, RoundHalfEven(n, d))
<1> DEFINE q == n \div d
           r == n % d
<1>1. q \in Int /\ r \in 0..(d - 1) /\ n = q * d + r
  <2>1. CASE d = 10
    BY <2>1
  <2>2. CASE d = 20
    BY <2>2
  <2>3. CASE d = 50
    BY <2>3
  <2>4. CASE d = 100
    BY <2>4
  <2>5. CASE d = 250
    BY <2>5
  <2> QED BY <2>1, <2>2, <2>3, <2>4, <2>5
<1>2. RoundHalfEven(n, d) = IF 2 * r > d \/ (2 * r = d /\ q % 2 = 1) THEN q + 1 ELSE q
  BY DEF RoundHalfEven
<1> HIDE DEF q, r
<1>3. r \in Int /\ d \in Int /\ 0 <= r /\ r < d /\ q * d \in Int /\ (q + 1) * d = q * d + d
  BY <1>1
<1>4. CASE 2 * r > d
  <2>1. RoundHalfEven(n, d) = q + 1
    BY <1>2, <1>4
  <2> QED BY <1>1, <1>3, <1>4, <2>1 DEF Nearest
<1>5. CASE 2 * r = d
  <2>1. RoundHalfEven(n, d) = q \/ RoundHalfEven(n, d) = q + 1
    BY <1>2
  <2> QED BY <1>1, <1>3, <1>5, <2>1 DEF Nearest
<1>6. CASE 2 * r < d
  <2>1. RoundHalfEven(n, d) = q
    BY <1>2, <1>3, <1>6
  <2> QED BY <1>1, <1>3, <1>6, <2>1 DEF Nearest
<1> QED BY <1>3, <1>4, <1>5, <1>6

\* The adjusted close is on the grid of the tier it falls in, also when rounding
\* took it from one tier into the next.
LEMMA AdjustedIsOnGrid ==
  ASSUME NEW price \in Int
  PROVE  /\ Adjusted(price) \in Int
         /\ OnGrid(Adjusted(price))
         /\ price >= 0 => Adjusted(price) >= 0
<1> DEFINE d == TickSize(price)
           k == RoundHalfEven(price, d)
<1>1. d \in {10, 20, 50, 100, 250}
  BY Ticks
<1>2. Adjusted(price) = k * d
  BY DEF Adjusted
<1> HIDE DEF d
<1>3. k \in Int /\ Nearest(price, d, k)
  BY <1>1, RoundingIsNearest
<1> HIDE DEF k
<1>4. k \in Int /\ 2 * (price - k * d) <= d /\ 2 * (k * d - price) <= d
  BY <1>3 DEF Nearest
<1>5. CASE d = 10
  <2>1. 0 <= price /\ price <= 1990
    BY <1>5, Ticks DEF d
  <2>2. 0 <= k * 10 /\ k * 10 <= 1990
    BY <1>4, <1>5, <2>1
  <2>3. TickSize(k * 10) = 10
    BY <1>4, <2>2, Ticks
  <2> QED BY <1>2, <1>4, <1>5, <2>2, <2>3 DEF OnGrid
<1>6. CASE d = 20
  <2>1. 2000 <= price /\ price <= 4990
    BY <1>6, Ticks DEF d
  <2>2. 2000 <= k * 20 /\ k * 20 <= 5000
    BY <1>4, <1>6, <2>1
  <2>3. k * 20 = 5000 \/ TickSize(k * 20) = 20
    BY <1>4, <2>2, Ticks
  <2>4. TickSize(5000) = 50
    BY Ticks
  <2> QED BY <1>2, <1>4, <1>6, <2>2, <2>3, <2>4 DEF OnGrid
<1>7. CASE d = 50
  <2>1. 5000 <= price /\ price <= 19990
    BY <1>7, Ticks DEF d
  <2>2. 5000 <= k * 50 /\ k * 50 <= 20000
    BY <1>4, <1>7, <2>1
  <2>3. k * 50 = 20000 \/ TickSize(k * 50) = 50
    BY <1>4, <2>2, Ticks
  <2>4. TickSize(20000) = 100
    BY Ticks
  <2> QED BY <1>2, <1>4, <1>7, <2>2, <2>3, <2>4 DEF OnGrid
<1>8. CASE d = 100
  <2>1. 20000 <= price /\ price <= 49990
    BY <1>8, Ticks DEF d
  <2>2. 20000 <= k * 100 /\ k * 100 <= 50000
    BY <1>4, <1>8, <2>1
  <2>3. k * 100 = 50000 \/ TickSize(k * 100) = 100
    BY <1>4, <2>2, Ticks
  <2>4. TickSize(50000) = 250
    BY Ticks
  <2> QED BY <1>2, <1>4, <1>8, <2>2, <2>3, <2>4 DEF OnGrid
<1>9. CASE d = 250
  <2>1. \/ price < 0 \/ 49990 < price
        \/ 1990 < price /\ price < 2000
        \/ 4990 < price /\ price < 5000
        \/ 19990 < price /\ price < 20000
    BY <1>9, Ticks DEF d
  <2>2. 2 * price - 250 <= 500 * k /\ 500 * k <= 2 * price + 250
    BY <1>4, <1>9
  <2>3. CASE price < 0
    <3>1. k * 250 <= 0
      BY <1>4, <2>2, <2>3
    <3>2. TickSize(k * 250) \in {10, 250}
      BY <1>4, <3>1, Ticks
    <3> QED BY <1>2, <1>4, <1>9, <2>3, <3>1, <3>2 DEF OnGrid
  <2>4. CASE 1990 < price /\ price < 2000
    <3>1. k = 8
      BY <1>4, <2>2, <2>4
    <3>2. TickSize(2000) = 20
      BY Ticks
    <3> QED BY <1>2, <1>9, <3>1, <3>2 DEF OnGrid
  <2>5. CASE 4990 < price /\ price < 5000
    <3>1. k = 20
      BY <1>4, <2>2, <2>5
    <3>2. TickSize(5000) = 50
      BY Ticks
    <3> QED BY <1>2, <1>9, <3>1, <3>2 DEF OnGrid
  <2>6. CASE 19990 < price /\ price < 20000
    <3>1. k = 80
      BY <1>4, <2>2, <2>6
    <3>2. TickSize(20000) = 100
      BY Ticks
    <3> QED BY <1>2, <1>9, <3>1, <3>2 DEF OnGrid
  <2>7. CASE 49990 < price
    <3>1. k * 250 >= 50000
      BY <1>4, <2>2, <2>7
    <3>2. TickSize(k * 250) = 250
      BY <1>4, <3>1, Ticks
    <3> QED BY <1>2, <1>4, <1>9, <3>1, <3>2 DEF OnGrid
  <2> QED BY <2>1, <2>3, <2>4, <2>5, <2>6, <2>7
<1> QED BY <1>1, <1>5, <1>6, <1>7, <1>8, <1>9
-----------------------------------------------------------------------------
\* A set of natural numbers that is not empty has a least element.
LEMMA LeastNatural ==
  ASSUME NEW S \in SUBSET Nat, S # {}
  PROVE  \E m \in S : \A k \in S : m <= k
<1> DEFINE R == {ss \in Nat \X Nat : ss[1] < ss[2]}
<1>1. IsWellFoundedOn(R, Nat)
  BY NatLessThanWellFounded, Zenon DEF OpToRel
<1>2. \E m \in S : \A k \in S : ~(<<k, m>> \in R)
  <2> HIDE DEF R
  <2> QED BY <1>1, WFMin
<1>3. PICK m \in S : \A k \in S : ~(<<k, m>> \in R)
  BY <1>2
<1>4. \A k \in S : ~(k < m)
  BY <1>3
<1> QED BY <1>4

-----------------------------------------------------------------------------
\* What Kafka and the producers hold.
Entries == [topic : Topics, msg : Messages]

KafkaOK ==
  /\ queue \in [Topics -> Seq(Messages)]
  /\ taken \in [Topics -> Nat]
  /\ \A t \in Topics : taken[t] <= Len(queue[t])
  /\ buffer \in [Procs -> Seq(Entries)]

\* The elements of a sequence.
Elements(s) == {s[i] : i \in 1..Len(s)}

\* Append adds one element.
LEMMA ElementsOfAppend ==
  ASSUME NEW S, NEW s \in Seq(S), NEW e \in S
  PROVE  Elements(Append(s, e)) = Elements(s) \cup {e}
<1>1. /\ Len(s) \in Nat /\ Len(Append(s, e)) = Len(s) + 1
      /\ \A i \in 1..Len(s) : Append(s, e)[i] = s[i]
      /\ Append(s, e)[Len(s) + 1] = e
  OBVIOUS
<1>2. ASSUME NEW x \in Elements(Append(s, e)) PROVE x \in Elements(s) \cup {e}
  <2>1. PICK i \in 1..(Len(s) + 1) : x = Append(s, e)[i]
    BY <1>1, <1>2 DEF Elements
  <2>2. i \in 1..Len(s) \/ i = Len(s) + 1
    BY <1>1
  <2> QED BY <1>1, <2>1, <2>2 DEF Elements
<1>3. ASSUME NEW x \in Elements(s) PROVE x \in Elements(Append(s, e))
  <2>1. PICK i \in 1..Len(s) : x = s[i]
    BY <1>3 DEF Elements
  <2>2. i \in 1..Len(Append(s, e)) /\ Append(s, e)[i] = x
    BY <1>1, <2>1
  <2> QED BY <2>2 DEF Elements
<1>4. e \in Elements(Append(s, e))
  <2>1. Len(s) + 1 \in 1..Len(Append(s, e))
    BY <1>1
  <2> QED BY <1>1, <2>1 DEF Elements
<1> QED BY <1>2, <1>3, <1>4

\* Concatenation adds the elements of the second sequence.
LEMMA ElementsOfConcat ==
  ASSUME NEW S, NEW s \in Seq(S), NEW t \in Seq(S)
  PROVE  Elements(s \o t) = Elements(s) \cup Elements(t)
<1>1. /\ Len(s) \in Nat /\ Len(t) \in Nat /\ Len(s \o t) = Len(s) + Len(t)
      /\ \A i \in 1..(Len(s) + Len(t)) :
           (s \o t)[i] = IF i <= Len(s) THEN s[i] ELSE t[i - Len(s)]
  BY ConcatProperties, LenProperties
<1>2. ASSUME NEW x \in Elements(s \o t) PROVE x \in Elements(s) \cup Elements(t)
  <2>1. PICK i \in 1..(Len(s) + Len(t)) : x = (s \o t)[i]
    BY <1>1, <1>2 DEF Elements
  <2>2. CASE i <= Len(s)
    BY <1>1, <2>1, <2>2 DEF Elements
  <2>3. CASE i > Len(s)
    <3>1. i - Len(s) \in 1..Len(t) /\ x = t[i - Len(s)]
      BY <1>1, <2>1, <2>3
    <3> QED BY <3>1 DEF Elements
  <2> QED BY <1>1, <2>2, <2>3
<1>3. ASSUME NEW x \in Elements(s) PROVE x \in Elements(s \o t)
  <2>1. PICK i \in 1..Len(s) : x = s[i]
    BY <1>3 DEF Elements
  <2>2. i \in 1..Len(s \o t) /\ (s \o t)[i] = x
    BY <1>1, <2>1
  <2> QED BY <2>2 DEF Elements
<1>4. ASSUME NEW x \in Elements(t) PROVE x \in Elements(s \o t)
  <2>1. PICK i \in 1..Len(t) : x = t[i]
    BY <1>4 DEF Elements
  <2>2. Len(s) + i \in 1..Len(s \o t) /\ (s \o t)[Len(s) + i] = x
    BY <1>1, <2>1
  <2> QED BY <2>2 DEF Elements
<1> QED BY <1>2, <1>3, <1>4

\* Tail takes away the head and nothing else.
LEMMA ElementsOfTail ==
  ASSUME NEW S, NEW s \in Seq(S), s # <<>>
  PROVE  /\ Head(s) \in S /\ Tail(s) \in Seq(S) /\ Head(s) \in Elements(s)
         /\ Elements(Tail(s)) \subseteq Elements(s)
         /\ Elements(s) \subseteq Elements(Tail(s)) \cup {Head(s)}
<1>1. /\ Head(s) \in S /\ Tail(s) \in Seq(S) /\ Len(Tail(s)) = Len(s) - 1
      /\ \A i \in 1..Len(Tail(s)) : Tail(s)[i] = s[i + 1]
      /\ Len(s) \in Nat \ {0} /\ Head(s) = s[1]
  BY HeadTailProperties, EmptySeq
<1>2. Head(s) \in Elements(s)
  BY <1>1 DEF Elements
<1>3. ASSUME NEW x \in Elements(Tail(s)) PROVE x \in Elements(s)
  <2>1. PICK i \in 1..Len(Tail(s)) : x = Tail(s)[i]
    BY <1>3 DEF Elements
  <2>2. i + 1 \in 1..Len(s) /\ x = s[i + 1]
    BY <1>1, <2>1
  <2> QED BY <2>2 DEF Elements
<1>4. ASSUME NEW x \in Elements(s), x # Head(s) PROVE x \in Elements(Tail(s))
  <2>1. PICK i \in 1..Len(s) : x = s[i]
    BY <1>4 DEF Elements
  <2>2. i - 1 \in 1..Len(Tail(s)) /\ Tail(s)[i - 1] = x
    BY <1>1, <1>4, <2>1
  <2> QED BY <2>2 DEF Elements
<1> QED BY <1>1, <1>2, <1>3, <1>4

Uncommitted(t) == Elements(queue[t])
Ahead(t) == {queue[t][i] : i \in (taken[t] + 1)..Len(queue[t])}
Read(t) == {queue[t][i] : i \in 1..taken[t]}
Sent(p) == Elements(buffer[p])
Collected == Elements(batch)

\* A topic holds messages, those ahead of the reader and those it has read; a
\* producer holds entries.
LEMMA ViewTypes ==
  ASSUME KafkaOK
  PROVE  /\ \A t \in Topics : Uncommitted(t) \subseteq Messages
         /\ \A t \in Topics : Ahead(t) \subseteq Uncommitted(t) /\ Read(t) \subseteq Uncommitted(t)
         /\ \A p \in Procs : Sent(p) \subseteq Entries
<1>1. ASSUME NEW t \in Topics PROVE Uncommitted(t) \subseteq Messages
  BY DEF KafkaOK, Uncommitted, Elements
<1>2. ASSUME NEW t \in Topics
      PROVE  Ahead(t) \subseteq Uncommitted(t) /\ Read(t) \subseteq Uncommitted(t)
  <2>1. taken[t] \in Nat /\ Len(queue[t]) \in Nat /\ taken[t] <= Len(queue[t])
    BY DEF KafkaOK
  <2> QED BY <2>1 DEF Ahead, Read, Uncommitted, Elements
<1>3. ASSUME NEW p \in Procs PROVE Sent(p) \subseteq Entries
  BY DEF KafkaOK, Sent, Elements
<1> QED BY <1>1, <1>2, <1>3

\* Every process subscribes to topics.
LEMMA SubscribedTopics == \A p \in Procs : Subscribed(p) \subseteq Topics
BY DEF Subscribed, Procs, Topics, Stages, Kinds

\* Reading moves a message from those ahead to those read.
LEMMA TakeEffect ==
  ASSUME KafkaOK, NEW p \in Procs, NEW t, Take(p, t), UNCHANGED queue
  PROVE  /\ t \in Topics /\ t \in Subscribed(p)
         /\ Unread(t) \in Messages /\ Unread(t) \in Ahead(t)
         /\ taken' \in [Topics -> Nat]
         /\ \A u \in Topics : taken'[u] <= Len(queue'[u])
         /\ \A u \in Topics : /\ Uncommitted(u)' = Uncommitted(u)
                              /\ Read(u) \subseteq Read(u)'
                              /\ Ahead(u) \subseteq Ahead(u)' \cup {Unread(t)}
         /\ Unread(t) \in Read(t)'
<1>1. t \in Topics /\ t \in Subscribed(p) /\ taken[t] < Len(queue[t])
      /\ taken' = [taken EXCEPT ![t] = @ + 1]
  BY SubscribedTopics DEF Take
<1>2. taken[t] \in Nat /\ Len(queue[t]) \in Nat /\ queue[t] \in Seq(Messages)
  BY <1>1 DEF KafkaOK
<1>3. Unread(t) \in Messages /\ Unread(t) \in Ahead(t)
  BY <1>1, <1>2 DEF Unread, Ahead
<1>4. taken' \in [Topics -> Nat] /\ \A u \in Topics : taken'[u] <= Len(queue'[u])
  BY <1>1, <1>2 DEF KafkaOK
<1>5. ASSUME NEW u \in Topics
      PROVE  /\ Uncommitted(u)' = Uncommitted(u)
             /\ Read(u) \subseteq Read(u)'
             /\ Ahead(u) \subseteq Ahead(u)' \cup {Unread(t)}
  <2>1. taken[u] \in Nat /\ Len(queue[u]) \in Nat
    BY DEF KafkaOK
  <2>2. CASE u = t
    BY <1>1, <2>1, <2>2 DEF KafkaOK, Uncommitted, Read, Ahead, Unread
  <2>3. CASE u # t
    BY <1>1, <2>3 DEF KafkaOK, Uncommitted, Read, Ahead
  <2> QED BY <2>2, <2>3
<1>6. Unread(t) \in Read(t)'
  <2>1. taken'[t] = taken[t] + 1
    BY <1>1 DEF KafkaOK
  <2>2. taken[t] + 1 \in 1..taken'[t]
    BY <1>2, <2>1
  <2> QED BY <2>2 DEF Unread, Read
<1> QED BY <1>1, <1>3, <1>4, <1>5, <1>6

\* A send adds one entry to the buffer of its own producer.
LEMMA SendEffect ==
  ASSUME KafkaOK, NEW p \in Procs, NEW t \in Topics, NEW m \in Messages, Send(p, t, m)
  PROVE  /\ buffer' \in [Procs -> Seq(Entries)]
         /\ Sent(p)' = Sent(p) \cup {[topic |-> t, msg |-> m]}
         /\ \A q \in Procs \ {p} : Sent(q)' = Sent(q)
<1> DEFINE e == [topic |-> t, msg |-> m]
<1>1. e \in Entries /\ buffer[p] \in Seq(Entries)
  BY DEF Entries, KafkaOK
<1>2. buffer' = [buffer EXCEPT ![p] = Append(@, e)]
  BY DEF Send
<1> HIDE DEF e
<1>3. buffer'[p] = Append(buffer[p], e)
  BY <1>2 DEF KafkaOK
<1>4. buffer'[p] \in Seq(Entries)
  BY <1>1, <1>3
<1>5. Sent(p)' = Sent(p) \cup {e}
  BY <1>1, <1>3, ElementsOfAppend DEF Sent
<1>6. buffer' \in [Procs -> Seq(Entries)]
  BY <1>2, <1>3, <1>4 DEF KafkaOK
<1>7. \A q \in Procs \ {p} : Sent(q)' = Sent(q)
  BY <1>2 DEF Sent, KafkaOK
<1> QED BY <1>5, <1>6, <1>7 DEF e

\* A commit forgets what was read, and nothing of what is ahead.
LEMMA CommitEffect ==
  ASSUME KafkaOK, NEW p \in Procs, CommitOffsets(p)
  PROVE  /\ queue' \in [Topics -> Seq(Messages)]
         /\ taken' \in [Topics -> Nat]
         /\ \A u \in Topics : /\ taken'[u] <= Len(queue'[u])
                              /\ Ahead(u)' = Ahead(u)
                              /\ Uncommitted(u)' \subseteq Uncommitted(u)
         /\ \A u \in Topics \ Subscribed(p) : Read(u)' = Read(u)
<1>1. taken' \in [Topics -> Nat]
  BY DEF CommitOffsets, KafkaOK
<1>2. ASSUME NEW u \in Topics, u \notin Subscribed(p)
      PROVE  queue'[u] = queue[u] /\ taken'[u] = taken[u]
  BY <1>2 DEF CommitOffsets
<1>3. ASSUME NEW u \in Topics, u \in Subscribed(p)
      PROVE  /\ queue'[u] \in Seq(Messages) /\ taken'[u] = 0
             /\ Len(queue'[u]) = Len(queue[u]) - taken[u]
             /\ \A i \in 1..(Len(queue[u]) - taken[u]) : queue'[u][i] = queue[u][taken[u] + i]
  <2>1. /\ queue[u] \in Seq(Messages) /\ taken[u] \in Nat /\ Len(queue[u]) \in Nat
        /\ taken[u] <= Len(queue[u])
    BY DEF KafkaOK
  <2>2. queue'[u] = SubSeq(queue[u], taken[u] + 1, Len(queue[u])) /\ taken'[u] = 0
    BY <1>3 DEF CommitOffsets
  <2>3. \A i \in (taken[u] + 1)..Len(queue[u]) : queue[u][i] \in Messages
    BY <2>1
  <2> DEFINE s == queue[u]
             m == taken[u] + 1
             n == Len(queue[u])
  <2>4. /\ SubSeq(s, m, n) \in Seq(Messages)
        /\ Len(SubSeq(s, m, n)) = IF m <= n THEN n - m + 1 ELSE 0
        /\ \A i \in 1..(n - m + 1) : SubSeq(s, m, n)[i] = s[m + i - 1]
    <3>1. m \in Int /\ n \in Int /\ \A i \in m..n : s[i] \in Messages
      BY <2>1, <2>3
    <3> HIDE DEF s, m, n
    <3> QED BY <3>1, SubSeqProperties
  <2>5. Len(queue'[u]) = Len(queue[u]) - taken[u] /\ queue'[u] \in Seq(Messages)
    BY <2>1, <2>2, <2>4
  <2>6. ASSUME NEW i \in 1..(Len(queue[u]) - taken[u])
        PROVE  queue'[u][i] = queue[u][taken[u] + i]
    <3>1. i \in 1..(n - m + 1) /\ m + i - 1 = taken[u] + i
      BY <2>1
    <3> QED BY <2>2, <2>4, <3>1
  <2> QED BY <2>2, <2>5, <2>6
<1>4. queue' \in [Topics -> Seq(Messages)]
  <2>1. \A u \in Topics : queue'[u] \in Seq(Messages)
    BY <1>2, <1>3 DEF KafkaOK
  <2>2. queue' = [u \in Topics |-> queue'[u]]
    BY DEF CommitOffsets
  <2> QED BY <2>1, <2>2
<1>5. ASSUME NEW u \in Topics
      PROVE  /\ taken'[u] <= Len(queue'[u]) /\ Ahead(u)' = Ahead(u)
             /\ Uncommitted(u)' \subseteq Uncommitted(u)
  <2>1. /\ taken[u] \in Nat /\ Len(queue[u]) \in Nat /\ taken[u] <= Len(queue[u])
    BY DEF KafkaOK
  <2>2. CASE u \notin Subscribed(p)
    BY <1>2, <2>1, <2>2 DEF Ahead, Uncommitted, Elements
  <2>3. CASE u \in Subscribed(p)
    <3>1. taken'[u] = 0 /\ Len(queue'[u]) = Len(queue[u]) - taken[u] /\ taken'[u] <= Len(queue'[u])
      BY <1>3, <2>1, <2>3
    <3>2. ASSUME NEW x \in Ahead(u)' PROVE x \in Ahead(u) /\ x \in Uncommitted(u)
      <4>1. PICK i \in 1..(Len(queue[u]) - taken[u]) : x = queue'[u][i]
        BY <3>1, <3>2 DEF Ahead
      <4>2. x = queue[u][taken[u] + i]
        BY <1>3, <2>3, <4>1
      <4>3. taken[u] + i \in (taken[u] + 1)..Len(queue[u]) /\ taken[u] + i \in 1..Len(queue[u])
        BY <2>1
      <4> QED BY <4>2, <4>3 DEF Ahead, Uncommitted, Elements
    <3>3. ASSUME NEW x \in Ahead(u) PROVE x \in Ahead(u)'
      <4>1. PICK i \in (taken[u] + 1)..Len(queue[u]) : x = queue[u][i]
        BY <3>3 DEF Ahead
      <4>2. i - taken[u] \in 1..(Len(queue[u]) - taken[u]) /\ taken[u] + (i - taken[u]) = i
        BY <2>1
      <4>3. queue'[u][i - taken[u]] = x
        BY <1>3, <2>3, <4>1, <4>2
      <4>4. i - taken[u] \in (taken'[u] + 1)..Len(queue'[u])
        BY <3>1, <4>2
      <4> QED BY <4>3, <4>4 DEF Ahead
    <3>4. Uncommitted(u)' = Ahead(u)'
      BY <3>1 DEF Uncommitted, Elements, Ahead
    <3> QED BY <3>1, <3>2, <3>3, <3>4
  <2> QED BY <2>2, <2>3
<1>6. ASSUME NEW u \in Topics \ Subscribed(p) PROVE Read(u)' = Read(u)
  BY <1>2 DEF Read
<1> QED BY <1>1, <1>4, <1>5, <1>6

\* A delivery moves the head of a buffer to the end of its topic.
LEMMA DeliverEffect ==
  ASSUME KafkaOK, NEW p \in Procs, Deliver(p)
  PROVE  /\ KafkaOK'
         /\ \A u \in Topics : Ahead(u) \subseteq Ahead(u)' /\ Read(u)' = Read(u)
         /\ \E e \in Sent(p) :
              /\ \A u \in Topics \ {e.topic} : Uncommitted(u)' = Uncommitted(u)
              /\ Uncommitted(e.topic)' = Uncommitted(e.topic) \cup {e.msg}
              /\ e.msg \in Ahead(e.topic)'
              /\ Sent(p)' \subseteq Sent(p) /\ Sent(p) \subseteq Sent(p)' \cup {e}
         /\ \A q \in Procs \ {p} : Sent(q)' = Sent(q)
<1>1. PICK s \in Seq(Entries) : s = buffer[p] /\ s # <<>>
  BY DEF KafkaOK, Deliver
<1>2. PICK e : e = Head(s)
  OBVIOUS
<1>3. /\ e \in Entries /\ Tail(s) \in Seq(Entries) /\ e \in Elements(s)
      /\ Elements(Tail(s)) \subseteq Elements(s) /\ Elements(s) \subseteq Elements(Tail(s)) \cup {e}
  BY <1>1, <1>2, ElementsOfTail
<1> DEFINE t == e.topic
<1>4. t \in Topics /\ e.msg \in Messages
  BY <1>3 DEF Entries
<1>5. queue' = [queue EXCEPT ![t] = Append(@, e.msg)] /\ buffer' = [buffer EXCEPT ![p] = Tail(s)]
      /\ taken' = taken
  BY <1>1, <1>2 DEF Deliver
<1> HIDE DEF t
<1>6. /\ queue[t] \in Seq(Messages) /\ taken[t] \in Nat /\ taken[t] <= Len(queue[t])
      /\ Len(queue[t]) \in Nat
  BY <1>4 DEF KafkaOK
<1>7. queue'[t] = Append(queue[t], e.msg) /\ \A u \in Topics \ {t} : queue'[u] = queue[u]
  BY <1>4, <1>5 DEF KafkaOK
<1>8. /\ queue'[t] \in Seq(Messages) /\ Len(queue'[t]) = Len(queue[t]) + 1
      /\ \A i \in 1..Len(queue[t]) : queue'[t][i] = queue[t][i]
      /\ queue'[t][Len(queue[t]) + 1] = e.msg
  BY <1>4, <1>6, <1>7
<1>9. KafkaOK'
  <2>1. queue' \in [Topics -> Seq(Messages)]
    BY <1>5, <1>8 DEF KafkaOK
  <2>2. \A u \in Topics : taken'[u] <= Len(queue'[u])
    BY <1>5, <1>6, <1>7, <1>8 DEF KafkaOK
  <2>3. buffer' \in [Procs -> Seq(Entries)]
    BY <1>3, <1>5 DEF KafkaOK
  <2> QED BY <1>5, <2>1, <2>2, <2>3 DEF KafkaOK
<1>10. ASSUME NEW u \in Topics PROVE Ahead(u) \subseteq Ahead(u)' /\ Read(u)' = Read(u)
  <2>1. CASE u # t
    BY <1>5, <1>7, <2>1 DEF Ahead, Read
  <2>2. CASE u = t
    <3>1. ASSUME NEW x \in Ahead(t) PROVE x \in Ahead(t)'
      <4>1. PICK i \in (taken[t] + 1)..Len(queue[t]) : x = queue[t][i]
        BY <3>1 DEF Ahead
      <4>2. i \in 1..Len(queue[t]) /\ i \in (taken[t] + 1)..(Len(queue[t]) + 1)
        BY <1>6, <4>1
      <4>3. queue'[t][i] = x
        BY <1>8, <4>1, <4>2
      <4>4. i \in (taken'[t] + 1)..Len(queue'[t])
        BY <1>5, <1>8, <4>2
      <4> QED BY <4>3, <4>4 DEF Ahead
    <3>2. \A i \in 1..taken[t] : i \in 1..Len(queue[t])
      BY <1>6
    <3>3. \A i \in 1..taken[t] : queue'[t][i] = queue[t][i]
      BY <1>8, <3>2
    <3>4. taken'[t] = taken[t]
      BY <1>5
    <3>5. Read(t)' = Read(t)
      BY <3>3, <3>4 DEF Read
    <3> QED BY <2>2, <3>1, <3>5
  <2> QED BY <2>1, <2>2
<1>11. Uncommitted(t)' = Uncommitted(t) \cup {e.msg}
  BY <1>4, <1>6, <1>7, ElementsOfAppend DEF Uncommitted
<1>12. e.msg \in Ahead(t)'
  <2>1. Len(queue[t]) + 1 \in (taken'[t] + 1)..Len(queue'[t])
    BY <1>5, <1>6, <1>8
  <2> QED BY <1>8, <2>1 DEF Ahead
<1>13. \A u \in Topics \ {t} : Uncommitted(u)' = Uncommitted(u)
  BY <1>7 DEF Uncommitted
<1>14. Sent(p)' = Elements(Tail(s)) /\ Sent(p) = Elements(s)
  BY <1>1, <1>5 DEF Sent, KafkaOK
<1>15. \A q \in Procs \ {p} : Sent(q)' = Sent(q)
  BY <1>5 DEF Sent, KafkaOK
<1> QED BY <1>3, <1>9, <1>10, <1>11, <1>12, <1>13, <1>14, <1>15 DEF t

\* The letters to the dead that BuryBatch writes, one for each message.
Buried(m) == [topic |-> <<"dlq", "eod">>, msg |-> Message(m.rec, m.close, 0)]

\* Every message of a refused batch goes into the buffer as a dead letter.
LEMMA BuryEffect ==
  ASSUME KafkaOK, batch \in Seq(Messages), BuryBatch
  PROVE  /\ buffer' \in [Procs -> Seq(Entries)]
         /\ Sent("writer")' = Sent("writer") \cup {Buried(m) : m \in Collected}
         /\ \A q \in Procs \ {"writer"} : Sent(q)' = Sent(q)
<1> DEFINE letters == [i \in 1..Len(batch) |-> Buried(batch[i])]
<1>1. \A m \in Messages : Buried(m) \in Entries
  BY BoundsAssumption DEF Buried, Entries, Messages, Message, Topics, Stages, Kinds
<1>2. /\ DOMAIN batch = 1..Len(batch) /\ Len(batch) \in Nat
      /\ \A i \in 1..Len(batch) : batch[i] \in Messages
  OBVIOUS
<1>3. letters \in Seq(Entries) /\ Len(letters) = Len(batch)
  BY <1>1, <1>2
<1>4. Elements(letters) = {Buried(m) : m \in Collected}
  BY <1>2, <1>3 DEF Elements, Collected
<1>5. buffer' = [buffer EXCEPT !["writer"] = @ \o letters]
  BY <1>2 DEF BuryBatch, Buried
<1>6. "writer" \in Procs /\ buffer["writer"] \in Seq(Entries)
  BY DEF KafkaOK, Procs
<1> HIDE DEF letters
<1>7. buffer'["writer"] = buffer["writer"] \o letters
  BY <1>5, <1>6 DEF KafkaOK
<1>8. buffer'["writer"] \in Seq(Entries)
  BY <1>3, <1>6, <1>7, ConcatProperties
<1>9. Sent("writer")' = Sent("writer") \cup Elements(letters)
  BY <1>3, <1>6, <1>7, ElementsOfConcat DEF Sent
<1>10. buffer' \in [Procs -> Seq(Entries)]
  BY <1>5, <1>8 DEF KafkaOK
<1>11. \A q \in Procs \ {"writer"} : Sent(q)' = Sent(q)
  BY <1>5 DEF Sent, KafkaOK
<1> QED BY <1>4, <1>9, <1>10, <1>11

-----------------------------------------------------------------------------
\* The message carries the close that was published.
Original(m) == m.close = Bar[m.rec].close

\* The message may be written.
Clean(m) ==
  /\ verdict[m.rec] = "valid" /\ m.close >= 0
  /\ Kind(m.rec) = "eod" => OnGrid(m.close)

\* What the messages of a topic are like.  A clean one is among the dead letters
\* when the database refused its batch.
Fits(t, m) ==
  /\ t[1] = "raw" => Original(m)
  /\ t[1] = "validated" => Clean(m)
  /\ t[1] = "dlq" => Clean(m) \/ (Original(m) /\ verdict[m.rec] # "valid")

MessagesFit ==
  /\ \A t \in Topics : \A m \in Uncommitted(t) : Fits(t, m)
  /\ \A p \in Procs : \A e \in Sent(p) : Fits(e.topic, e.msg)
  /\ \A m \in Collected : Clean(m)

WriterOK ==
  /\ batch \in Seq(Messages) /\ Len(batch) <= BatchSize
  /\ pc["writer"] = "idle" => Len(batch) < BatchSize

RestOK ==
  /\ pc \in [Procs -> Points]
  /\ flushed \subseteq exhausted /\ exhausted \subseteq Records /\ dropped \subseteq Records
  /\ faults \in 0..MaxFaults

RowsClean ==
  /\ row \in [Records -> Nat \cup {NoRow}]
  /\ \A r \in Records : row[r] # NoRow =>
       verdict[r] = "valid" /\ (Kind(r) = "eod" => OnGrid(row[r]))

PipelineIInv == KafkaOK /\ WriterOK /\ RestOK /\ MessagesFit /\ RowsClean

\* What the validator lets through may be written once its close is on the grid.
LEMMA ValidOutputIsClean ==
  ASSUME NEW m \in Messages, Original(m), verdict[m.rec] = "valid"
  PROVE  /\ ValidOutput(m) \in Messages /\ ValidOutput(m).rec = m.rec
         /\ Clean(ValidOutput(m))
<1> DEFINE r == m.rec
<1>1. r \in Records /\ m.close \in Int /\ m.count \in 0..MAX_RETRIES /\ m.close = Bar[r].close
  BY DEF Messages, Original
<1>2. Verdict(Bar[r]) = "valid" /\ Bar[r].kind \in Kinds
  BY <1>1, RecordsAssumption DEF verdict
<1>3. m = [rec |-> r, close |-> m.close, count |-> m.count]
  BY DEF Messages
<1>4. CASE Kind(r) = "eod"
  <2>1. ValidOutput(m) = [rec |-> r, close |-> Adjusted(m.close), count |-> m.count]
    BY <1>4 DEF ValidOutput, Message
  <2>2. m.close > 0
    BY <1>1, <1>2, <1>4 DEF Verdict, BarPasses, Kind
  <2>3. Adjusted(m.close) \in Int /\ OnGrid(Adjusted(m.close)) /\ Adjusted(m.close) >= 0
    BY <1>1, <2>2, AdjustedIsOnGrid
  <2>4. ValidOutput(m) \in Messages /\ ValidOutput(m).rec = r
        /\ ValidOutput(m).close = Adjusted(m.close)
    BY <1>1, <2>1, <2>3 DEF Messages
  <2> QED BY <2>3, <2>4 DEF Clean
<1>5. CASE Kind(r) # "eod"
  <2>1. ValidOutput(m) = m
    BY <1>5 DEF ValidOutput
  <2>2. CASE Kind(r) = "fundamentals"
    BY <1>1, <2>1, <2>2, <1>5, RecordsAssumption DEF Clean, Kind
  <2>3. CASE Kind(r) = "intraday"
    <3>1. TickerPasses(Bar[r])
      BY <1>2, <2>3 DEF Verdict, Kind
    <3>2. Bar[r].close >= 0
      BY <3>1 DEF TickerPasses
    <3> QED BY <1>1, <1>5, <2>1, <3>2 DEF Clean
  <2> QED BY <1>2, <1>5, <2>2, <2>3 DEF Kind, Kinds
<1> QED BY <1>4, <1>5

\* What the retrier finds valid has been valid before: its close is on the grid
\* already.
LEMMA RevalidatedIsClean ==
  ASSUME NEW m \in Messages, NEW t, Revalidates(t, m), Fits(t, m)
  PROVE  Clean(m)
<1>1. t[1] = "dlq" /\ Kind(m.rec) = "eod" /\ Bar[m.rec].defect = "none"
      /\ BarPasses(Bar[m.rec], m.close)
  BY DEF Revalidates
<1>2. m.rec \in Records
  BY DEF Messages
<1>3. ASSUME Original(m) PROVE verdict[m.rec] = "valid"
  <2>1. BarPasses(Bar[m.rec], Bar[m.rec].close)
    BY <1>1, <1>3 DEF Original
  <2> QED BY <1>1, <1>2, <2>1 DEF verdict, Verdict, Kind
<1> QED BY <1>1, <1>3 DEF Fits

-----------------------------------------------------------------------------
\* The forms a step takes.  A record is read and sent on.
Forwards(p, t, u, m) ==
  /\ Take(p, t) /\ Send(p, u, m) /\ Enter(p, "commit")
  /\ p # "writer" /\ u \in Topics /\ m \in Messages /\ m.rec = Unread(t).rec
  /\ Fits(u, m)
  /\ UNCHANGED <<store, queue, batch, dropped, faults>>

\* A record is read and not sent on: a fault, a permanent failure, or the
\* validator raises.
Shelves(p, t) ==
  /\ Take(p, t) /\ p # "writer"
  /\ pc' \in [Procs -> Points] /\ pc'["writer"] = pc["writer"]
  /\ dropped \subseteq dropped' /\ dropped' \subseteq dropped \cup {Unread(t).rec}
  /\ exhausted \subseteq exhausted' /\ exhausted' \subseteq exhausted \cup {Unread(t).rec}
  /\ flushed' \subseteq exhausted'
  /\ Unread(t).rec \in dropped' \cup exhausted' \/ verdict[Unread(t).rec] = "raises"
  /\ faults' \in 0..MaxFaults
  /\ UNCHANGED <<queue, buffer, batch, row>>

\* The offsets are committed, by the writer once its batch is in.
Commits(p) ==
  /\ CommitOffsets(p) /\ pc[p] = "commit" /\ Enter(p, "idle")
  /\ batch' = IF p = "writer" THEN <<>> ELSE batch
  /\ UNCHANGED <<store, buffer, dropped, faults>>

Buries == pc["writer"] # "idle" /\ BuryBatch /\ faults' \in 0..MaxFaults

\* A fault keeps within the bound.
LEMMA FaultsAreBounded == RestOK /\ Fault => faults' \in 0..MaxFaults
BY BoundsAssumption DEF RestOK, Fault

\* What a process reads fits its topic.
LEMMA UnreadFits ==
  ASSUME KafkaOK, MessagesFit, NEW p \in Procs, NEW t, Take(p, t), UNCHANGED queue
  PROVE  /\ Unread(t) \in Messages /\ t \in Topics /\ t \in Subscribed(p)
         /\ Fits(t, Unread(t))
<1>1. Unread(t) \in Messages /\ t \in Topics /\ t \in Subscribed(p) /\ Unread(t) \in Ahead(t)
  BY TakeEffect
<1>2. Unread(t) \in Uncommitted(t)
  BY <1>1, ViewTypes
<1> QED BY <1>1, <1>2 DEF MessagesFit

\* The steps that read a message and send one on; what they send fits.
LEMMA ForwardingSteps ==
  ASSUME KafkaOK, MessagesFit, NEW t, Route(t) \/ Resolve(t) \/ Requeue(t)
  PROVE  \E p \in Procs : \E u, m : Forwards(p, t, u, m)
<1>1. PICK m : m = Unread(t)
  OBVIOUS
<1>2. \A p \in Procs : Take(p, t) /\ UNCHANGED queue =>
        m \in Messages /\ t \in Topics /\ t \in Subscribed(p) /\ Fits(t, m)
  BY <1>1, UnreadFits
<1>3. "validator" \in Procs /\ "retrier" \in Procs
  BY DEF Procs
<1>4. CASE Route(t)
  <2>1. Take("validator", t) /\ Enter("validator", "commit")
        /\ UNCHANGED <<store, queue, batch, dropped, faults>>
    BY <1>4 DEF Route
  <2>2. m \in Messages /\ t[1] = "raw" /\ Original(m)
    BY <1>2, <1>3, <2>1 DEF Subscribed, Fits
  <2>3. m.rec \in Records /\ Kind(m.rec) \in Kinds
    BY <2>2, RecordsAssumption DEF Messages, Kind
  <2>4. CASE /\ verdict[m.rec] = "valid"
             /\ Send("validator", <<"validated", Kind(m.rec)>>, ValidOutput(m))
    <3>1. PICK u : u = <<"validated", Kind(m.rec)>>
      OBVIOUS
    <3>2. u \in Topics /\ u[1] = "validated"
      BY <2>3, <3>1 DEF Topics, Stages
    <3>3. ValidOutput(m) \in Messages /\ ValidOutput(m).rec = m.rec /\ Fits(u, ValidOutput(m))
      BY <2>2, <2>4, <3>2, ValidOutputIsClean DEF Fits
    <3>4. Forwards("validator", t, u, ValidOutput(m))
      BY <1>1, <2>1, <2>4, <3>1, <3>2, <3>3 DEF Forwards
    <3> QED BY <1>3, <3>4
  <2>5. CASE verdict[m.rec] = "invalid" /\ Send("validator", <<"dlq", Kind(m.rec)>>, m)
    <3>1. PICK u : u = <<"dlq", Kind(m.rec)>>
      OBVIOUS
    <3>2. u \in Topics /\ u[1] = "dlq"
      BY <2>3, <3>1 DEF Topics, Stages
    <3>3. Fits(u, m)
      BY <2>2, <2>5, <3>2 DEF Fits
    <3>4. Forwards("validator", t, u, m)
      BY <1>1, <2>1, <2>2, <2>5, <3>1, <3>2, <3>3 DEF Forwards
    <3> QED BY <1>3, <3>4
  <2> QED BY <1>1, <1>4, <2>4, <2>5 DEF Route
<1>5. CASE Resolve(t)
  <2>1. /\ Take("retrier", t) /\ Enter("retrier", "commit") /\ Revalidates(t, m)
        /\ UNCHANGED <<store, queue, batch, dropped, faults>>
    BY <1>1, <1>5 DEF Resolve
  <2>2. m \in Messages /\ Clean(m)
    BY <1>2, <1>3, <2>1, RevalidatedIsClean
  <2>3. PICK n : n = Message(m.rec, m.close, 0)
    OBVIOUS
  <2>4. n \in Messages /\ n.rec = m.rec /\ n.close = m.close
    BY <2>2, <2>3, BoundsAssumption DEF Messages, Message
  <2>5. PICK u : u = <<"validated", "eod">>
    OBVIOUS
  <2>6. u \in Topics /\ u[1] = "validated"
    BY <2>5 DEF Topics, Stages, Kinds
  <2>7. Fits(u, n)
    BY <2>2, <2>4, <2>6 DEF Fits, Clean
  <2>8. Send("retrier", u, n)
    BY <1>1, <1>5, <2>3, <2>5 DEF Resolve
  <2>9. Forwards("retrier", t, u, n)
    BY <1>1, <2>1, <2>4, <2>6, <2>7, <2>8 DEF Forwards
  <2> QED BY <1>3, <2>9
<1>6. CASE Requeue(t)
  <2>1. /\ Take("retrier", t) /\ Enter("retrier", "commit") /\ m.count < MAX_RETRIES
        /\ UNCHANGED <<store, queue, batch, dropped, faults>>
    BY <1>1, <1>6 DEF Requeue
  <2>2. m \in Messages /\ t \in Topics /\ t[1] = "dlq" /\ Fits(t, m)
    BY <1>2, <1>3, <2>1 DEF Subscribed
  <2>3. PICK n : n = Message(m.rec, m.close, m.count + 1)
    OBVIOUS
  <2>4. n \in Messages /\ n.rec = m.rec /\ n.close = m.close
    BY <2>1, <2>2, <2>3, BoundsAssumption DEF Messages, Message
  <2>5. Fits(t, n)
    BY <2>2, <2>4 DEF Fits, Clean, Original
  <2>6. Send("retrier", t, n)
    BY <1>1, <1>6, <2>3 DEF Requeue
  <2>7. Forwards("retrier", t, t, n)
    BY <1>1, <2>1, <2>2, <2>4, <2>5, <2>6 DEF Forwards
  <2> QED BY <1>3, <2>7
<1> QED BY <1>4, <1>5, <1>6

\* The steps that read a message and send none.
LEMMA ShelvingSteps ==
  ASSUME KafkaOK, RestOK, NEW t, SkipRecord(t) \/ RouteFails(t) \/ WritePermanent(t)
  PROVE  \E p \in Procs : Shelves(p, t)
<1>1. "validator" \in Procs /\ "retrier" \in Procs
  BY DEF Procs
<1>2. CASE SkipRecord(t)
  <2>1. Shelves("validator", t)
    BY <1>2 DEF SkipRecord, Shelves, store, RestOK
  <2> QED BY <1>1, <2>1
<1>3. CASE RouteFails(t)
  <2>1. Shelves("validator", t)
    BY <1>3, FaultsAreBounded DEF RouteFails, Shelves, store, RestOK
  <2> QED BY <1>1, <2>1
<1>4. CASE WritePermanent(t)
  <2>1. pc' \in [Procs -> Points] /\ pc'["writer"] = pc["writer"]
    BY <1>4 DEF WritePermanent, Enter, RestOK, Points, Procs
  <2>2. Shelves("retrier", t)
    BY <1>4, <2>1 DEF WritePermanent, Shelves, RestOK
  <2> QED BY <1>1, <2>2
<1> QED BY <1>2, <1>3, <1>4

\* The commits of the three consumers.
LEMMA CommittingSteps ==
  ASSUME CommitRaw \/ CommitBatch \/ CommitDead
  PROVE  \E p \in Procs : Commits(p)
<1>1. CASE CommitRaw
  BY <1>1 DEF CommitRaw, Commits, Procs
<1>2. CASE CommitBatch
  BY <1>2 DEF CommitBatch, Commits, Procs
<1>3. CASE CommitDead
  BY <1>3 DEF CommitDead, Commits, Procs
<1> QED BY <1>1, <1>2, <1>3

\* The two ways a batch goes to the dead letters.
LEMMA BuryingSteps ==
  ASSUME RestOK, BatchRefused \/ BatchFails
  PROVE  Buries
BY FaultsAreBounded DEF BatchRefused, BatchFails, Buries, RestOK

\* Every step has one of these forms.
LEMMA Steps ==
  ASSUME KafkaOK, RestOK, MessagesFit, PipelineNext
  PROVE  \/ \E p \in Procs : \E t, u, m : Forwards(p, t, u, m)
         \/ \E p \in Procs : \E t : Shelves(p, t)
         \/ \E p \in Procs : Commits(p)
         \/ \E t : Collect(t)
         \/ WriteBatch \/ Buries \/ CommitRawFails
         \/ \E p \in Procs : Deliver(p) \/ LoseSend(p) \/ Crash(p)
BY ForwardingSteps, ShelvingSteps, CommittingSteps, BuryingSteps
   DEF PipelineNext, ValidatorStep, WriterStep, RetrierStep

-----------------------------------------------------------------------------
\* A lost send and a crash shrink the buffers and read again.
LEMMA LossEffect ==
  ASSUME KafkaOK, NEW p \in Procs, LoseSend(p) \/ Crash(p)
  PROVE  /\ KafkaOK'
         /\ \A u \in Topics : /\ Uncommitted(u)' = Uncommitted(u)
                              /\ Ahead(u) \subseteq Ahead(u)'
         /\ \A q \in Procs : Sent(q)' \subseteq Sent(q)
         /\ \A q \in Procs : \A e \in Sent(q) : e \in Sent(q)' \/ e.msg.rec \in dropped'
<1>1. CASE LoseSend(p)
  <2>1. PICK s \in Seq(Entries) : s = buffer[p] /\ s # <<>>
    BY <1>1 DEF KafkaOK, LoseSend
  <2>2. /\ Head(s) \in Entries /\ Tail(s) \in Seq(Entries)
        /\ Elements(Tail(s)) \subseteq Elements(s)
        /\ Elements(s) \subseteq Elements(Tail(s)) \cup {Head(s)}
    BY <2>1, ElementsOfTail
  <2>3. buffer' = [buffer EXCEPT ![p] = Tail(s)] /\ UNCHANGED <<queue, taken>>
    BY <1>1, <2>1 DEF LoseSend
  <2>4. Head(s).msg.rec \in dropped'
    BY <1>1, <2>1 DEF LoseSend
  <2>5. KafkaOK'
    BY <2>2, <2>3 DEF KafkaOK
  <2>6. \A u \in Topics : Uncommitted(u)' = Uncommitted(u) /\ Ahead(u)' = Ahead(u)
    BY <2>3 DEF Uncommitted, Ahead
  <2>7. Sent(p) = Elements(s) /\ Sent(p)' = Elements(Tail(s))
        /\ \A q \in Procs \ {p} : Sent(q)' = Sent(q)
    BY <2>1, <2>3 DEF Sent, KafkaOK
  <2> QED BY <2>2, <2>4, <2>5, <2>6, <2>7
<1>2. CASE Crash(p)
  <2>1. /\ taken' = [t \in Topics |-> IF t \in Subscribed(p) THEN 0 ELSE taken[t]]
        /\ buffer' = [buffer EXCEPT ![p] = <<>>] /\ UNCHANGED queue
        /\ {buffer[p][i].msg.rec : i \in DOMAIN buffer[p]} \subseteq dropped'
    BY <1>2 DEF Crash
  <2>2. \A t \in Topics : taken'[t] \in Nat /\ taken'[t] <= taken[t]
    BY <2>1 DEF KafkaOK
  <2>3. KafkaOK'
    <3>1. taken' \in [Topics -> Nat]
      BY <2>1, <2>2
    <3>2. \A t \in Topics : taken'[t] <= Len(queue'[t])
      <4>1. \A t \in Topics : taken[t] \in Nat /\ taken[t] <= Len(queue[t]) /\ Len(queue[t]) \in Nat
        BY DEF KafkaOK
      <4> QED BY <2>1, <2>2, <4>1
    <3>3. <<>> \in Seq(Entries)
      OBVIOUS
    <3>4. buffer' \in [Procs -> Seq(Entries)]
      BY <2>1, <3>3 DEF KafkaOK
    <3> QED BY <2>1, <3>1, <3>2, <3>4 DEF KafkaOK
  <2>4. ASSUME NEW u \in Topics
        PROVE  Uncommitted(u)' = Uncommitted(u) /\ Ahead(u) \subseteq Ahead(u)'
    <3>1. queue' = queue /\ taken[u] \in Nat /\ taken'[u] \in Nat /\ taken'[u] <= taken[u]
          /\ Len(queue[u]) \in Nat
      BY <2>1, <2>2 DEF KafkaOK
    <3>2. (taken[u] + 1)..Len(queue[u]) \subseteq (taken'[u] + 1)..Len(queue[u])
      BY <3>1
    <3> QED BY <3>1, <3>2 DEF Uncommitted, Ahead
  <2>5. Sent(p)' = {}
    <3>1. buffer'[p] = <<>> /\ Len(<<>>) = 0
      BY <2>1 DEF KafkaOK
    <3> QED BY <3>1 DEF Sent, Elements
  <2>6. \A e \in Sent(p) : e.msg.rec \in dropped'
    <3>1. DOMAIN buffer[p] = 1..Len(buffer[p])
      BY DEF KafkaOK
    <3> QED BY <2>1, <3>1 DEF Sent, Elements
  <2>7. \A q \in Procs \ {p} : Sent(q)' = Sent(q)
    BY <2>1 DEF Sent, KafkaOK
  <2> QED BY <2>3, <2>4, <2>5, <2>6, <2>7
<1> QED BY <1>1, <1>2

\* What a crashed process had read and not committed is ahead of it again.
LEMMA CrashEffect ==
  ASSUME KafkaOK, NEW p \in Procs, Crash(p), NEW u \in Topics
  PROVE  /\ u \in Subscribed(p) => Read(u) \subseteq Ahead(u)'
         /\ u \notin Subscribed(p) => Read(u)' = Read(u)
<1>1. queue' = queue /\ taken'[u] = IF u \in Subscribed(p) THEN 0 ELSE taken[u]
  BY DEF Crash
<1>2. taken[u] \in Nat /\ Len(queue[u]) \in Nat /\ taken[u] <= Len(queue[u])
  BY DEF KafkaOK
<1>3. 1..taken[u] \subseteq 1..Len(queue[u])
  BY <1>2
<1>4. CASE u \in Subscribed(p)
  <2>1. Ahead(u)' = {queue[u][i] : i \in 1..Len(queue[u])}
    BY <1>1, <1>4 DEF Ahead
  <2> QED BY <1>3, <1>4, <2>1 DEF Read
<1>5. CASE u \notin Subscribed(p)
  BY <1>1, <1>5 DEF Read
<1> QED BY <1>4, <1>5

\* The row written for a record of the batch comes from a message of the batch.
LEMMA FirstOfBatch ==
  ASSUME WriterOK, NEW r \in InBatch
  PROVE  FirstOf(r) \in 1..Len(batch) /\ batch[FirstOf(r)].rec = r
<1> DEFINE S == {i \in 1..Len(batch) : batch[i].rec = r}
<1>1. DOMAIN batch = 1..Len(batch) /\ Len(batch) \in Nat
  BY DEF WriterOK
<1>2. S \in SUBSET Nat /\ S # {}
  BY <1>1 DEF InBatch
<1>3. PICK m \in S : \A k \in S : m <= k
  <2> HIDE DEF S
  <2> QED BY <1>2, LeastNatural
<1>4. ASSUME NEW j \in 1..(m - 1) PROVE batch[j].rec # r
  BY <1>1, <1>3
<1>5. \E i \in DOMAIN batch : batch[i].rec = r /\ \A j \in 1..(i - 1) : batch[j].rec # r
  BY <1>1, <1>3, <1>4
<1> QED BY <1>1, <1>5 DEF FirstOf

\* Type correctness of Kafka and the producers.
LEMMA NextKafka ==
  ASSUME KafkaOK, WriterOK, RestOK, MessagesFit, PipelineNext
  PROVE  KafkaOK'
<1>1. ASSUME NEW p \in Procs, NEW t, NEW u, NEW m, Forwards(p, t, u, m) PROVE KafkaOK'
  <2>1. taken' \in [Topics -> Nat] /\ \A v \in Topics : taken'[v] <= Len(queue'[v])
    BY <1>1, TakeEffect DEF Forwards
  <2>2. buffer' \in [Procs -> Seq(Entries)]
    BY <1>1, SendEffect DEF Forwards
  <2> QED BY <1>1, <2>1, <2>2 DEF KafkaOK, Forwards
<1>2. ASSUME NEW p \in Procs, NEW t, Take(p, t), UNCHANGED <<queue, buffer>> PROVE KafkaOK'
  <2>2. taken' \in [Topics -> Nat] /\ \A v \in Topics : taken'[v] <= Len(queue'[v])
    BY <1>2, TakeEffect
  <2> QED BY <1>2, <2>2 DEF KafkaOK
<1>3. ASSUME NEW p \in Procs, Commits(p) PROVE KafkaOK'
  <2>1. CommitOffsets(p) /\ UNCHANGED buffer
    BY <1>3 DEF Commits
  <2>2. /\ queue' \in [Topics -> Seq(Messages)] /\ taken' \in [Topics -> Nat]
        /\ \A u \in Topics : taken'[u] <= Len(queue'[u])
    BY <2>1, CommitEffect
  <2> QED BY <2>1, <2>2 DEF KafkaOK
<1>4. CASE WriteBatch \/ CommitRawFails
  BY <1>4 DEF WriteBatch, CommitRawFails, KafkaOK
<1>5. CASE Buries
  <2>1. UNCHANGED <<queue, taken>> /\ buffer' \in [Procs -> Seq(Entries)]
    BY <1>5, BuryEffect DEF Buries, BuryBatch, WriterOK
  <2> QED BY <2>1 DEF KafkaOK
<1>6. ASSUME NEW p \in Procs, Deliver(p) \/ LoseSend(p) \/ Crash(p) PROVE KafkaOK'
  BY <1>6, DeliverEffect, LossEffect
<1>7. ASSUME NEW p \in Procs, NEW t, Shelves(p, t) PROVE KafkaOK'
  BY <1>2, <1>7 DEF Shelves
<1>8. ASSUME NEW t, Collect(t) PROVE KafkaOK'
  <2>1. "writer" \in Procs /\ Take("writer", t) /\ UNCHANGED <<queue, buffer>>
    BY <1>8 DEF Collect, Procs
  <2> QED BY <1>2, <2>1
<1> QED BY <1>1, <1>3, <1>4, <1>5, <1>6, <1>7, <1>8, Steps

\* The writer can begin a batch.
LEMMA EmptyBatch == <<>> \in Seq(Messages) /\ Len(<<>>) = 0 /\ 0 < BatchSize /\ 0 <= BatchSize
BY BoundsAssumption

\* Type correctness of the batch and of the rest: a batch is written as soon as it
\* is full, so that it never outgrows BATCH_SIZE.
LEMMA NextWriter ==
  ASSUME KafkaOK, WriterOK, RestOK, MessagesFit, PipelineNext
  PROVE  WriterOK' /\ RestOK'
<1> USE DEF RestOK
<1>1. ASSUME NEW p \in Procs, NEW t, NEW u, NEW m, Forwards(p, t, u, m) PROVE WriterOK' /\ RestOK'
  BY <1>1 DEF Forwards, Enter, WriterOK, Points, Procs, store
<1>2. ASSUME NEW p \in Procs, NEW t, Shelves(p, t) PROVE WriterOK' /\ RestOK'
  <2>1. Unread(t).rec \in Records
    BY <1>2, TakeEffect DEF Shelves, Messages
  <2> QED BY <1>2, <2>1 DEF Shelves, WriterOK
<1>3. ASSUME NEW t, Collect(t) PROVE WriterOK' /\ RestOK'
  <2>1. "writer" \in Procs /\ Take("writer", t) /\ UNCHANGED <<queue, flushed, exhausted, dropped, faults>>
        /\ pc["writer"] = "idle" /\ batch' = Append(batch, Unread(t))
    BY <1>3 DEF Collect, Take, Procs, store
  <2>2. Unread(t) \in Messages
    BY <2>1, TakeEffect
  <2>3. batch' \in Seq(Messages) /\ Len(batch') = Len(batch) + 1 /\ Len(batch) \in Nat
        /\ Len(batch) < BatchSize
    BY <2>1, <2>2 DEF WriterOK
  <2>4. \/ Len(batch') < BatchSize /\ UNCHANGED pc
        \/ pc' = [pc EXCEPT !["writer"] = "flush"]
    BY <1>3 DEF Collect, Enter
  <2>5. pc' \in [Procs -> Points] /\ (pc'["writer"] = "idle" => Len(batch') < BatchSize)
    BY <2>1, <2>4 DEF Points
  <2>6. Len(batch') <= BatchSize
    BY <2>3, BoundsAssumption
  <2> QED BY <2>1, <2>3, <2>5, <2>6 DEF WriterOK
<1>4. ASSUME NEW p \in Procs, Commits(p) PROVE WriterOK' /\ RestOK'
  <2>1. pc' = [pc EXCEPT ![p] = "idle"] /\ UNCHANGED <<flushed, exhausted, dropped, faults>>
        /\ batch' = IF p = "writer" THEN <<>> ELSE batch
    BY <1>4 DEF Commits, Enter, store
  <2>2. RestOK'
    BY <2>1 DEF Points
  <2>3. ASSUME p = "writer" PROVE WriterOK'
    BY <2>1, <2>3, EmptyBatch DEF WriterOK
  <2>4. ASSUME p # "writer" PROVE WriterOK'
    BY <2>1, <2>4 DEF WriterOK, Procs
  <2> QED BY <2>2, <2>3, <2>4
<1>5. CASE WriteBatch
  BY <1>5 DEF WriteBatch, Enter, WriterOK, Points, Procs
<1>6. CASE CommitRawFails
  BY <1>6, FaultsAreBounded DEF CommitRawFails, Enter, WriterOK, Points, Procs, store
<1>7. CASE Buries
  <2>1. batch' = <<>> /\ pc' = [pc EXCEPT !["writer"] = "idle"]
        /\ UNCHANGED <<flushed, exhausted, dropped>> /\ faults' \in 0..MaxFaults
    BY <1>7 DEF Buries, BuryBatch, Enter, store
  <2>2. WriterOK'
    BY <2>1, EmptyBatch DEF WriterOK
  <2> QED BY <2>1, <2>2 DEF Points, Procs
<1>8. ASSUME NEW p \in Procs, Deliver(p) PROVE WriterOK' /\ RestOK'
  BY <1>8 DEF Deliver, WriterOK, store
<1>9. ASSUME NEW p \in Procs, LoseSend(p) PROVE WriterOK' /\ RestOK'
  <2>1. buffer[p] \in Seq(Entries) /\ buffer[p] # <<>>
    BY <1>9 DEF LoseSend, KafkaOK
  <2>2. Head(buffer[p]) \in Entries
    BY <2>1
  <2>3. Head(buffer[p]).msg.rec \in Records
    BY <2>2 DEF Entries, Messages
  <2> QED BY <1>9, <2>3, FaultsAreBounded DEF LoseSend, WriterOK, store
<1>10. ASSUME NEW p \in Procs, Crash(p) PROVE WriterOK' /\ RestOK'
  <2>1. {buffer[p][i].msg.rec : i \in DOMAIN buffer[p]} \subseteq Records
    <3>1. buffer[p] \in Seq(Entries)
      BY DEF KafkaOK
    <3>2. \A i \in DOMAIN buffer[p] : buffer[p][i] \in Entries
      BY <3>1
    <3> QED BY <3>2 DEF Entries, Messages
  <2>2. /\ pc' = [pc EXCEPT ![p] = "idle"]
        /\ batch' = IF p = "writer" THEN <<>> ELSE batch
        /\ flushed' \subseteq flushed /\ UNCHANGED exhausted
        /\ dropped' = dropped \cup {buffer[p][i].msg.rec : i \in DOMAIN buffer[p]}
    BY <1>10 DEF Crash, Enter
  <2>3. faults' \in 0..MaxFaults
    BY <1>10, FaultsAreBounded DEF Crash
  <2>4. RestOK'
    BY <2>1, <2>2, <2>3 DEF Points
  <2>5. ASSUME p = "writer" PROVE WriterOK'
    BY <2>2, <2>5, EmptyBatch DEF WriterOK
  <2>6. ASSUME p # "writer" PROVE WriterOK'
    BY <2>2, <2>6 DEF WriterOK, Procs
  <2> QED BY <2>4, <2>5, <2>6
<1> QED BY <1>1, <1>2, <1>3, <1>4, <1>5, <1>6, <1>7, <1>8, <1>9, <1>10, Steps

-----------------------------------------------------------------------------
\* It is enough to look at the messages that have moved.
LEMMA NewMessagesFit ==
  ASSUME MessagesFit,
         \A t \in Topics : \A m \in Uncommitted(t)' : m \in Uncommitted(t) \/ Fits(t, m),
         \A p \in Procs : \A e \in Sent(p)' : e \in Sent(p) \/ Fits(e.topic, e.msg),
         \A m \in Collected' : m \in Collected \/ Clean(m)
  PROVE  MessagesFit'
BY DEF MessagesFit, Fits, Clean, Original, verdict

\* The messages a step moves fit where they come to rest.
LEMMA NextMessages ==
  ASSUME KafkaOK, WriterOK, RestOK, MessagesFit, PipelineNext
  PROVE  MessagesFit'
<1>1. \A p \in Procs : \A e \in Sent(p) : e.topic \in Topics /\ e.msg \in Messages
  BY ViewTypes DEF Entries
<1>2. UNCHANGED batch => Collected' = Collected
  BY DEF Collected
<1>3. batch' = <<>> => Collected' = {}
  BY DEF Collected, Elements
<1>4. UNCHANGED buffer => \A q \in Procs : Sent(q)' = Sent(q)
  BY DEF Sent
<1>5. UNCHANGED queue => \A v \in Topics : Uncommitted(v)' = Uncommitted(v)
  BY DEF Uncommitted
<1>6. ASSUME NEW p \in Procs, NEW t, NEW u, NEW m, Forwards(p, t, u, m) PROVE MessagesFit'
  <2>1. UNCHANGED <<queue, batch>> /\ Fits(u, m)
    BY <1>6 DEF Forwards
  <2>2. /\ Sent(p)' = Sent(p) \cup {[topic |-> u, msg |-> m]}
        /\ \A q \in Procs \ {p} : Sent(q)' = Sent(q)
    BY <1>6, SendEffect DEF Forwards
  <2>3. \A q \in Procs : \A e \in Sent(q)' : e \in Sent(q) \/ Fits(e.topic, e.msg)
    BY <2>1, <2>2
  <2> QED BY <1>2, <1>5, <2>1, <2>3, NewMessagesFit
<1>7. ASSUME NEW p \in Procs, NEW t, Shelves(p, t) PROVE MessagesFit'
  <2>1. UNCHANGED <<queue, buffer, batch>>
    BY <1>7 DEF Shelves
  <2> QED BY <1>2, <1>4, <1>5, <2>1, NewMessagesFit
<1>8. ASSUME NEW p \in Procs, Commits(p) PROVE MessagesFit'
  <2>1. CommitOffsets(p) /\ UNCHANGED buffer /\ (UNCHANGED batch \/ batch' = <<>>)
    BY <1>8 DEF Commits
  <2>2. \A v \in Topics : Uncommitted(v)' \subseteq Uncommitted(v)
    BY <2>1, CommitEffect
  <2> QED BY <1>2, <1>3, <1>4, <2>1, <2>2, NewMessagesFit
<1>9. ASSUME NEW t, Collect(t) PROVE MessagesFit'
  <2>1. "writer" \in Procs /\ Take("writer", t) /\ UNCHANGED <<queue, buffer>>
        /\ batch' = Append(batch, Unread(t))
    BY <1>9 DEF Collect, Procs
  <2>2. Unread(t) \in Messages /\ t[1] = "validated" /\ Fits(t, Unread(t))
    BY <2>1, UnreadFits DEF Subscribed
  <2>3. Collected' = Collected \cup {Unread(t)}
    BY <2>1, <2>2, ElementsOfAppend DEF Collected, WriterOK
  <2>4. Clean(Unread(t))
    BY <2>2 DEF Fits
  <2>5. \A m \in Collected' : m \in Collected \/ Clean(m)
    BY <2>3, <2>4
  <2> QED BY <1>4, <1>5, <2>1, <2>5, NewMessagesFit
<1>10. CASE WriteBatch \/ CommitRawFails
  <2>1. UNCHANGED <<queue, buffer, batch>>
    BY <1>10 DEF WriteBatch, CommitRawFails
  <2> QED BY <1>2, <1>4, <1>5, <2>1, NewMessagesFit
<1>11. CASE Buries
  <2>1. UNCHANGED queue /\ batch' = <<>> /\ BuryBatch /\ batch \in Seq(Messages)
    BY <1>11 DEF Buries, BuryBatch, WriterOK
  <2>2. /\ Sent("writer")' = Sent("writer") \cup {Buried(m) : m \in Collected}
        /\ \A q \in Procs \ {"writer"} : Sent(q)' = Sent(q)
    BY <2>1, BuryEffect
  <2>3. ASSUME NEW m \in Collected PROVE Fits(Buried(m).topic, Buried(m).msg)
    <3>1. Clean(m)
      BY DEF MessagesFit
    <3>2. PICK n : n = Buried(m).msg
      OBVIOUS
    <3>3. n.rec = m.rec /\ n.close = m.close /\ Buried(m).topic[1] = "dlq"
      BY <3>2 DEF Buried, Message
    <3>4. Clean(n)
      BY <3>1, <3>3 DEF Clean
    <3> QED BY <3>2, <3>3, <3>4 DEF Fits
  <2>4. \A q \in Procs : \A e \in Sent(q)' : e \in Sent(q) \/ Fits(e.topic, e.msg)
    BY <2>2, <2>3
  <2> QED BY <1>3, <1>5, <2>1, <2>4, NewMessagesFit
<1>12. ASSUME NEW p \in Procs, Deliver(p) PROVE MessagesFit'
  <2>1. UNCHANGED batch
    BY <1>12 DEF Deliver
  <2>2. PICK e \in Sent(p) :
          /\ \A u \in Topics \ {e.topic} : Uncommitted(u)' = Uncommitted(u)
          /\ Uncommitted(e.topic)' = Uncommitted(e.topic) \cup {e.msg}
          /\ Sent(p)' \subseteq Sent(p)
    BY <1>12, DeliverEffect
  <2>3. \A q \in Procs : Sent(q)' \subseteq Sent(q)
    BY <1>12, <2>2, DeliverEffect
  <2>4. Fits(e.topic, e.msg)
    BY DEF MessagesFit
  <2>5. \A v \in Topics : \A m \in Uncommitted(v)' : m \in Uncommitted(v) \/ Fits(v, m)
    BY <2>2, <2>4
  <2> QED BY <1>2, <2>1, <2>3, <2>5, NewMessagesFit
<1>13. ASSUME NEW p \in Procs, LoseSend(p) \/ Crash(p) PROVE MessagesFit'
  <2>1. UNCHANGED batch \/ batch' = <<>>
    BY <1>13 DEF LoseSend, Crash
  <2>2. /\ \A v \in Topics : Uncommitted(v)' = Uncommitted(v)
        /\ \A q \in Procs : Sent(q)' \subseteq Sent(q)
    BY <1>13, LossEffect
  <2> QED BY <1>2, <1>3, <2>1, <2>2, NewMessagesFit
<1> QED BY <1>6, <1>7, <1>8, <1>9, <1>10, <1>11, <1>12, <1>13, Steps

\* Only the writer changes rows, and what it writes is clean.
LEMMA NextRows ==
  ASSUME KafkaOK, WriterOK, RestOK, MessagesFit, RowsClean, PipelineNext
  PROVE  RowsClean'
<1>1. CASE UNCHANGED row
  BY <1>1 DEF RowsClean, verdict
<1>2. CASE WriteBatch
  <2>1. row' = [r \in Records |-> IF row[r] = NoRow /\ r \in InBatch
                                  THEN batch[FirstOf(r)].close ELSE row[r]]
    BY <1>2 DEF WriteBatch
  <2>2. ASSUME NEW r \in InBatch
        PROVE  /\ batch[FirstOf(r)].close \in Nat /\ verdict[r] = "valid"
               /\ Kind(r) = "eod" => OnGrid(batch[FirstOf(r)].close)
    <3>1. PICK m : m = batch[FirstOf(r)]
      OBVIOUS
    <3>2. m \in Collected /\ m.rec = r
      BY <3>1, FirstOfBatch DEF Collected, Elements
    <3>3. m \in Messages
      BY <3>1, FirstOfBatch DEF WriterOK
    <3>4. Clean(m)
      BY <3>2 DEF MessagesFit
    <3>5. m.close \in Int /\ m.close >= 0
      BY <3>3, <3>4 DEF Messages, Clean
    <3> QED BY <3>1, <3>2, <3>4, <3>5 DEF Clean
  <2>3. ASSUME NEW r \in Records
        PROVE  /\ row'[r] \in Nat \cup {NoRow}
               /\ row'[r] # NoRow => verdict[r] = "valid" /\ (Kind(r) = "eod" => OnGrid(row'[r]))
    <3>1. CASE row[r] = NoRow /\ r \in InBatch
      BY <2>1, <2>2, <3>1
    <3>2. CASE ~(row[r] = NoRow /\ r \in InBatch)
      BY <2>1, <3>2 DEF RowsClean
    <3> QED BY <3>1, <3>2
  <2>4. row' \in [Records -> Nat \cup {NoRow}]
    BY <2>1, <2>3
  <2> QED BY <2>3, <2>4 DEF RowsClean, verdict
<1>3. UNCHANGED row \/ WriteBatch
  BY Steps DEF Forwards, Shelves, Commits, Collect, Buries, BuryBatch, CommitRawFails,
               Deliver, LoseSend, Crash, store
<1> QED BY <1>1, <1>2, <1>3

-----------------------------------------------------------------------------
\* The published feed satisfies the invariant.
LEMMA InitIInv == PipelineInit => PipelineIInv
<1> SUFFICES ASSUME PipelineInit PROVE PipelineIInv
  OBVIOUS
<1> USE DEF PipelineInit
<1>1. ASSUME NEW k \in Kinds
      PROVE  Published(k) \in Seq(Messages) /\ \A m \in Elements(Published(k)) : Original(m)
  <2>1. PICK s \in Seq(Records) : s = Feed[k]
    BY FeedAssumption
  <2>2. Len(s) \in Nat /\ DOMAIN s = 1..Len(s) /\ \A i \in 1..Len(s) : s[i] \in Records
    OBVIOUS
  <2>3. Published(k) = [i \in 1..Len(s) |-> Message(s[i], Bar[s[i]].close, 0)]
    BY <2>1, <2>2 DEF Published
  <2>4. \A r \in Records : Message(r, Bar[r].close, 0) \in Messages
    BY RecordsAssumption, BoundsAssumption DEF Message, Messages
  <2>5. Published(k) \in Seq(Messages) /\ Len(Published(k)) = Len(s)
    BY <2>2, <2>3, <2>4
  <2>6. \A r \in Records : Original(Message(r, Bar[r].close, 0))
    BY DEF Original, Message
  <2> QED BY <2>2, <2>3, <2>5, <2>6 DEF Elements
<1>2. <<>> \in Seq(Messages) /\ <<>> \in Seq(Entries) /\ Elements(<<>>) = {}
  BY DEF Elements
<1>3. ASSUME NEW t \in Topics
      PROVE  queue[t] \in Seq(Messages) /\ \A m \in Uncommitted(t) : Fits(t, m)
  <2>1. t[2] \in Kinds
    BY DEF Topics
  <2>2. CASE t[1] = "raw"
    <3>1. queue[t] = Published(t[2])
      BY <2>2
    <3> QED BY <1>1, <2>1, <2>2, <3>1 DEF Uncommitted, Fits
  <2>3. CASE t[1] # "raw"
    <3>1. queue[t] = <<>>
      BY <2>3
    <3> QED BY <1>2, <3>1 DEF Uncommitted
  <2> QED BY <2>2, <2>3
<1>4. KafkaOK
  <2>1. queue \in [Topics -> Seq(Messages)]
    BY <1>3
  <2>2. \A t \in Topics : taken[t] \in Nat /\ taken[t] <= Len(queue[t])
    BY <1>3
  <2>3. taken \in [Topics -> Nat] /\ buffer \in [Procs -> Seq(Entries)]
    BY <1>2
  <2> QED BY <2>1, <2>2, <2>3 DEF KafkaOK
<1>5. WriterOK /\ RestOK /\ RowsClean
  BY <1>2, EmptyBatch, BoundsAssumption DEF WriterOK, RestOK, RowsClean, Points
<1>6. MessagesFit
  BY <1>2, <1>3 DEF MessagesFit, Sent, Collected
<1> QED BY <1>4, <1>5, <1>6 DEF PipelineIInv

\* Every step keeps it.
LEMMA NextIInv == PipelineIInv /\ [PipelineNext]_pipelineVars => PipelineIInv'
<1> SUFFICES ASSUME PipelineIInv, [PipelineNext]_pipelineVars PROVE PipelineIInv'
  OBVIOUS
<1> USE DEF PipelineIInv
<1>1. CASE PipelineNext
  BY <1>1, NextKafka, NextWriter, NextMessages, NextRows
<1>2. CASE UNCHANGED pipelineVars
  <2>1. KafkaOK' /\ WriterOK' /\ RestOK' /\ RowsClean'
    BY <1>2 DEF pipelineVars, KafkaOK, WriterOK, RestOK, RowsClean, verdict
  <2>2. MessagesFit'
    BY <1>2, NewMessagesFit DEF pipelineVars, Uncommitted, Sent, Collected
  <2> QED BY <2>1, <2>2
<1> QED BY <1>1, <1>2

\* So it always holds.
LEMMA PipelineInvariant == PipelineSpec => []PipelineIInv
BY InitIInv, NextIInv, PTL DEF PipelineSpec

\* Type correctness: the offsets a consumer has read never pass the end of a
\* topic, a batch is never longer than BATCH_SIZE, and no message is retried more
\* often than MAX_RETRIES, for every feed, batch size and number of faults.
THEOREM PipelineTypeCorrect == PipelineSpec => []PipelineTypeOK
<1>1. PipelineIInv => PipelineTypeOK
  BY DEF PipelineIInv, KafkaOK, WriterOK, RestOK, RowsClean, PipelineTypeOK, Entries
<1> QED BY <1>1, PipelineInvariant, PTL

\* A row of the table was valid when it was published and lies on the price grid,
\* whatever way it took: through the validator, a refused batch, the dead letters.
THEOREM TableStaysClean == PipelineSpec => []TableIsClean
<1>1. PipelineIInv => TableIsClean
  BY DEF PipelineIInv, RowsClean, TableIsClean, InTable
<1> QED BY <1>1, PipelineInvariant, PTL

-----------------------------------------------------------------------------
\* Where a record can be that no fault has interrupted.
Accounted(r) ==
  \/ r \in dropped \/ verdict[r] = "raises" \/ InTable(r) \/ r \in exhausted
  \/ \E t \in Topics : \E m \in Ahead(t) : m.rec = r
  \/ \E p \in Procs : \E e \in Sent(p) : e.msg.rec = r
  \/ \E m \in Collected : m.rec = r

\* The messages of the batch can be read again until the writer commits, and then
\* they are in the table.
BatchIsSafe ==
  /\ \A m \in Collected : \E t \in Subscribed("writer") : m \in Read(t)
  /\ pc["writer"] = "commit" => \A m \in Collected : InTable(m.rec)

Custody == (\A r \in Records : Accounted(r)) /\ BatchIsSafe

\* Nothing leaves the table, and a batch that is left alone stays what it is.
LEMMA RowsRemain ==
  ASSUME UNCHANGED row \/ WriteBatch, NEW r \in Records, InTable(r)
  PROVE  InTable(r)'
BY DEF InTable, WriteBatch

\* A record stays accounted for when each place it can be in hands it on.
LEMMA StillAccounted ==
  ASSUME NEW r \in Records, Accounted(r),
         r \in dropped => r \in dropped',
         InTable(r) => InTable(r)',
         r \in exhausted => r \in exhausted',
         \A t \in Topics : \A m \in Ahead(t) : m.rec = r => Accounted(r)' \/ m \in Ahead(t)',
         \A p \in Procs : \A e \in Sent(p) : e.msg.rec = r => Accounted(r)' \/ e \in Sent(p)',
         \A m \in Collected : m.rec = r => Accounted(r)' \/ m \in Collected'
  PROVE  Accounted(r)'
BY DEF Accounted, verdict

\* A step passes records on from one place to another, or a fault interrupts them.
LEMMA NextAccounted ==
  ASSUME PipelineIInv, BatchIsSafe, PipelineNext, NEW r \in Records, Accounted(r)
  PROVE  Accounted(r)'
<1> USE DEF PipelineIInv
<1>1. UNCHANGED batch => Collected' = Collected
  BY DEF Collected
<1>2. UNCHANGED buffer => \A q \in Procs : Sent(q)' = Sent(q)
  BY DEF Sent
<1>3. UNCHANGED <<queue, taken>> => \A v \in Topics : Ahead(v)' = Ahead(v)
  BY DEF Ahead
<1>4. UNCHANGED row => (InTable(r) => InTable(r)')
  BY DEF InTable
<1>5. r \in dropped' \cup exhausted' \/ InTable(r)' => Accounted(r)'
  BY DEF Accounted
<1>6. ASSUME NEW p \in Procs, NEW t, NEW u, NEW m, Forwards(p, t, u, m) PROVE Accounted(r)'
  <2>1. UNCHANGED <<row, exhausted, dropped, batch>> /\ m.rec = Unread(t).rec
    BY <1>6 DEF Forwards, store
  <2>2. \A v \in Topics : Ahead(v) \subseteq Ahead(v)' \cup {Unread(t)}
    BY <1>6, TakeEffect DEF Forwards
  <2>3. PICK e : e = [topic |-> u, msg |-> m]
    OBVIOUS
  <2>4. Sent(p)' = Sent(p) \cup {e} /\ \A q \in Procs \ {p} : Sent(q)' = Sent(q)
    BY <1>6, <2>3, SendEffect DEF Forwards
  <2>5. e \in Sent(p)' /\ e.msg.rec = Unread(t).rec
    BY <2>1, <2>3, <2>4
  <2>6. Unread(t).rec = r => Accounted(r)'
    BY <2>5 DEF Accounted
  <2>7. \A q \in Procs : Sent(q) \subseteq Sent(q)'
    BY <2>4
  <2> QED BY <1>1, <1>4, <2>1, <2>2, <2>6, <2>7, StillAccounted
<1>7. ASSUME NEW p \in Procs, NEW t, Shelves(p, t) PROVE Accounted(r)'
  <2>1. /\ UNCHANGED <<row, batch, buffer>>
        /\ dropped \subseteq dropped' /\ exhausted \subseteq exhausted'
        /\ Unread(t).rec \in dropped' \cup exhausted' \/ verdict[Unread(t).rec] = "raises"
    BY <1>7 DEF Shelves
  <2>2. \A v \in Topics : Ahead(v) \subseteq Ahead(v)' \cup {Unread(t)}
    BY <1>7, TakeEffect DEF Shelves
  <2>3. Unread(t).rec = r => Accounted(r)'
    BY <1>5, <2>1 DEF Accounted, verdict
  <2> QED BY <1>1, <1>2, <1>4, <2>1, <2>2, <2>3, StillAccounted
<1>8. ASSUME NEW p \in Procs, Commits(p) PROVE Accounted(r)'
  <2>1. CommitOffsets(p) /\ UNCHANGED <<row, exhausted, dropped, buffer>>
    BY <1>8 DEF Commits, store
  <2>2. \A v \in Topics : Ahead(v)' = Ahead(v)
    BY <2>1, CommitEffect
  <2>3. UNCHANGED batch \/ \A m \in Collected : InTable(m.rec)
    BY <1>8 DEF Commits, BatchIsSafe
  <2>4. \A m \in Collected : m.rec = r => Accounted(r)' \/ m \in Collected'
    BY <1>1, <1>4, <1>5, <2>1, <2>3
  <2> QED BY <1>2, <1>4, <2>1, <2>2, <2>4, StillAccounted
<1>9. ASSUME NEW t, Collect(t) PROVE Accounted(r)'
  <2>1. "writer" \in Procs /\ Take("writer", t) /\ batch' = Append(batch, Unread(t))
        /\ UNCHANGED <<queue, row, exhausted, dropped, buffer>>
    BY <1>9 DEF Collect, Procs, store
  <2>2. /\ \A v \in Topics : Ahead(v) \subseteq Ahead(v)' \cup {Unread(t)}
        /\ Unread(t) \in Messages
    BY <2>1, TakeEffect
  <2>3. Collected' = Collected \cup {Unread(t)}
    BY <2>1, <2>2, ElementsOfAppend DEF Collected, WriterOK
  <2>4. Unread(t).rec = r => Accounted(r)'
    BY <2>3 DEF Accounted
  <2> QED BY <1>2, <1>4, <2>1, <2>2, <2>3, <2>4, StillAccounted
<1>10. CASE WriteBatch \/ CommitRawFails
  <2>1. UNCHANGED <<queue, taken, buffer, batch, exhausted, dropped>> /\ (UNCHANGED row \/ WriteBatch)
    BY <1>10 DEF WriteBatch, CommitRawFails, store
  <2> QED BY <1>1, <1>2, <1>3, <2>1, RowsRemain, StillAccounted
<1>11. CASE Buries
  <2>1. UNCHANGED <<queue, taken, row, exhausted, dropped>> /\ BuryBatch /\ batch \in Seq(Messages)
        /\ "writer" \in Procs
    BY <1>11 DEF Buries, BuryBatch, WriterOK, store, Procs
  <2>2. /\ Sent("writer")' = Sent("writer") \cup {Buried(m) : m \in Collected}
        /\ \A q \in Procs \ {"writer"} : Sent(q)' = Sent(q)
    BY <2>1, BuryEffect
  <2>3. ASSUME NEW m \in Collected, m.rec = r PROVE Accounted(r)'
    <3>1. Buried(m) \in Sent("writer")'
      BY <2>2
    <3>2. Buried(m).msg.rec = r
      BY <2>3 DEF Buried, Message
    <3> QED BY <2>1, <3>1, <3>2 DEF Accounted
  <2>4. \A q \in Procs : Sent(q) \subseteq Sent(q)'
    BY <2>2
  <2> QED BY <1>3, <1>4, <2>1, <2>3, <2>4, StillAccounted
<1>12. ASSUME NEW p \in Procs, Deliver(p) PROVE Accounted(r)'
  <2>1. UNCHANGED <<row, exhausted, dropped, batch>>
    BY <1>12 DEF Deliver, store
  <2>2. PICK e \in Sent(p) : e.msg \in Ahead(e.topic)' /\ Sent(p) \subseteq Sent(p)' \cup {e}
    BY <1>12, DeliverEffect
  <2>3. e.topic \in Topics
    BY ViewTypes DEF Entries
  <2>4. e.msg.rec = r => Accounted(r)'
    BY <2>2, <2>3 DEF Accounted
  <2>5. /\ \A v \in Topics : Ahead(v) \subseteq Ahead(v)'
        /\ \A q \in Procs \ {p} : Sent(q)' = Sent(q)
    BY <1>12, DeliverEffect
  <2>6. \A q \in Procs : Sent(q) \subseteq Sent(q)' \cup {e}
    BY <2>2, <2>5
  <2> QED BY <1>1, <1>4, <2>1, <2>4, <2>5, <2>6, StillAccounted
<1>13. ASSUME NEW p \in Procs, LoseSend(p) \/ Crash(p) PROVE Accounted(r)'
  <2>1. /\ UNCHANGED row /\ dropped \subseteq dropped' /\ UNCHANGED exhausted
    BY <1>13 DEF LoseSend, Crash, store
  <2>2. /\ \A v \in Topics : Ahead(v) \subseteq Ahead(v)'
        /\ \A q \in Procs : \A e \in Sent(q) : e \in Sent(q)' \/ e.msg.rec \in dropped'
    BY <1>13, LossEffect
  <2>3. ASSUME NEW m \in Collected, m.rec = r PROVE Accounted(r)' \/ m \in Collected'
    <3>1. CASE UNCHANGED batch
      BY <1>1, <3>1
    <3>2. CASE Crash(p) /\ p = "writer"
      <4>1. PICK v \in Subscribed("writer") : m \in Read(v)
        BY DEF BatchIsSafe
      <4>2. v \in Topics
        BY <3>2, SubscribedTopics
      <4>3. m \in Ahead(v)'
        BY <3>2, <4>1, <4>2, CrashEffect
      <4> QED BY <2>3, <4>2, <4>3 DEF Accounted
    <3> QED BY <1>13, <3>1, <3>2 DEF LoseSend, Crash
  <2>4. \A q \in Procs : \A e \in Sent(q) : e.msg.rec = r => Accounted(r)' \/ e \in Sent(q)'
    BY <1>5, <2>2
  <2> QED BY <1>4, <2>1, <2>2, <2>3, <2>4, StillAccounted
<1> QED BY <1>6, <1>7, <1>8, <1>9, <1>10, <1>11, <1>12, <1>13, Steps

\* Only the writer commits or rereads what the writer has read.
LEMMA WriterReadsAlone ==
  ASSUME NEW p \in Procs, p # "writer", NEW t \in Subscribed("writer")
  PROVE  t \in Topics /\ t \notin Subscribed(p)
<1>1. "writer" \in Procs
  BY DEF Procs
<1>2. t \in Topics /\ t[1] = "validated"
  BY <1>1, SubscribedTopics DEF Subscribed
<1>3. \A u \in Subscribed(p) : u[1] # "validated"
  BY DEF Subscribed, Procs
<1> QED BY <1>2, <1>3

\* The batch stays safe while messages join it and is let go once it is written,
\* handed to the dead letters, or to be read again.
LEMMA StillSafe ==
  ASSUME BatchIsSafe, UNCHANGED batch,
         \A t \in Subscribed("writer") : Read(t) \subseteq Read(t)',
         pc'["writer"] = "commit" =>
           \/ pc["writer"] = "commit" /\ \A r \in Records : InTable(r) => InTable(r)'
           \/ \A m \in Collected : InTable(m.rec)',
         WriterOK
  PROVE  BatchIsSafe'
<1>1. Collected' = Collected /\ \A m \in Collected : m.rec \in Records
  <2>1. Collected' = Collected
    BY DEF Collected
  <2>2. \A i \in 1..Len(batch) : batch[i] \in Messages
    BY DEF WriterOK
  <2> QED BY <2>1, <2>2 DEF Collected, Elements, Messages
<1>2. \A m \in Collected : \E t \in Subscribed("writer") : m \in Read(t)'
  BY DEF BatchIsSafe
<1>3. pc'["writer"] = "commit" => \A m \in Collected : InTable(m.rec)'
  BY <1>1 DEF BatchIsSafe
<1> QED BY <1>1, <1>2, <1>3 DEF BatchIsSafe, Subscribed

\* Every step keeps the batch safe.
LEMMA NextBatch ==
  ASSUME PipelineIInv, BatchIsSafe, PipelineNext
  PROVE  BatchIsSafe'
<1> USE DEF PipelineIInv
<1>0. "writer" \in Procs /\ \A t \in Subscribed("writer") : t \in Topics
  BY SubscribedTopics DEF Procs
<1>1. ASSUME batch' = <<>> PROVE BatchIsSafe'
  <2>1. Collected' = {}
    BY <1>1 DEF Collected, Elements
  <2> QED BY <2>1 DEF BatchIsSafe
<1>2. UNCHANGED row => \A r \in Records : InTable(r) => InTable(r)'
  BY DEF InTable
<1>3. UNCHANGED <<queue, taken>> => \A v \in Topics : Read(v)' = Read(v)
  BY DEF Read
<1>4. ASSUME NEW p \in Procs, NEW t, Take(p, t), UNCHANGED <<queue, row, batch>>,
             pc'["writer"] = pc["writer"]
      PROVE  BatchIsSafe'
  <2>1. \A v \in Topics : Read(v) \subseteq Read(v)'
    BY <1>4, TakeEffect
  <2> QED BY <1>0, <1>2, <1>4, <2>1, StillSafe
<1>5. ASSUME NEW p \in Procs, NEW t, NEW u, NEW m, Forwards(p, t, u, m) PROVE BatchIsSafe'
  <2>1. pc'["writer"] = pc["writer"]
    BY <1>0, <1>5 DEF Forwards, Enter, RestOK
  <2> QED BY <1>4, <1>5, <2>1 DEF Forwards, store
<1>6. ASSUME NEW p \in Procs, NEW t, Shelves(p, t) PROVE BatchIsSafe'
  BY <1>4, <1>6 DEF Shelves
<1>7. ASSUME NEW p \in Procs, Commits(p) PROVE BatchIsSafe'
  <2>1. CASE p = "writer"
    BY <1>1, <1>7, <2>1 DEF Commits
  <2>2. CASE p # "writer"
    <3>1. CommitOffsets(p) /\ UNCHANGED <<row, batch>> /\ pc'["writer"] = pc["writer"]
      BY <1>0, <1>7, <2>2 DEF Commits, Enter, RestOK, store
    <3>2. \A v \in Subscribed("writer") : Read(v)' = Read(v)
      BY <2>2, <3>1, CommitEffect, WriterReadsAlone
    <3> QED BY <1>2, <3>1, <3>2, StillSafe
  <2> QED BY <2>1, <2>2
<1>8. ASSUME NEW t, Collect(t) PROVE BatchIsSafe'
  <2>1. Take("writer", t) /\ batch' = Append(batch, Unread(t)) /\ UNCHANGED queue
    BY <1>8 DEF Collect
  <2>2. pc'["writer"] # "commit"
    BY <1>0, <1>8 DEF Collect, Take, Enter, RestOK
  <2>3. /\ \A v \in Topics : Read(v) \subseteq Read(v)'
        /\ t \in Subscribed("writer") /\ Unread(t) \in Messages /\ Unread(t) \in Read(t)'
    BY <1>0, <2>1, TakeEffect
  <2>4. Collected' = Collected \cup {Unread(t)}
    BY <2>1, <2>3, ElementsOfAppend DEF Collected, WriterOK
  <2>5. ASSUME NEW m \in Collected' PROVE \E v \in Subscribed("writer") : m \in Read(v)'
    <3>1. CASE m \in Collected
      BY <1>0, <2>3, <3>1 DEF BatchIsSafe
    <3>2. CASE m = Unread(t)
      BY <2>3, <3>2
    <3> QED BY <2>4, <3>1, <3>2
  <2> QED BY <2>2, <2>5 DEF BatchIsSafe, Subscribed
<1>9. CASE WriteBatch
  <2>1. UNCHANGED <<queue, taken, batch>>
    BY <1>9 DEF WriteBatch
  <2>2. ASSUME NEW m \in Collected PROVE InTable(m.rec)'
    <3>1. DOMAIN batch = 1..Len(batch) /\ m \in Messages
      BY DEF WriterOK, Collected, Elements
    <3>2. m.rec \in InBatch /\ m.rec \in Records
      BY <3>1 DEF InBatch, Collected, Elements, Messages
    <3>3. /\ FirstOf(m.rec) \in 1..Len(batch) /\ batch[FirstOf(m.rec)].rec = m.rec
      BY <3>2, FirstOfBatch
    <3>4. batch[FirstOf(m.rec)] \in Collected
      BY <3>3 DEF Collected, Elements
    <3>5. batch[FirstOf(m.rec)] \in Messages /\ Clean(batch[FirstOf(m.rec)])
      BY <3>3, <3>4 DEF MessagesFit, WriterOK
    <3>6. batch[FirstOf(m.rec)].close # NoRow
      BY <3>5 DEF Clean, Messages, NoRow
    <3> QED BY <1>9, <3>2, <3>6 DEF WriteBatch, InTable
  <2> QED BY <1>0, <1>3, <2>1, <2>2, StillSafe
<1>10. CASE CommitRawFails
  <2>1. UNCHANGED <<queue, taken, batch, row>> /\ pc'["writer"] = pc["writer"]
    BY <1>10 DEF CommitRawFails, Enter, RestOK, Procs, store
  <2> QED BY <1>0, <1>2, <1>3, <2>1, StillSafe
<1>11. CASE Buries
  BY <1>1, <1>11 DEF Buries, BuryBatch
<1>12. ASSUME NEW p \in Procs, Deliver(p) PROVE BatchIsSafe'
  <2>1. UNCHANGED <<batch, row, pc>> /\ \A v \in Topics : Read(v)' = Read(v)
    BY <1>12, DeliverEffect DEF Deliver, store
  <2> QED BY <1>0, <1>2, <2>1, StillSafe
<1>13. ASSUME NEW p \in Procs, LoseSend(p) PROVE BatchIsSafe'
  <2>1. UNCHANGED <<queue, taken, batch, row, pc>>
    BY <1>13 DEF LoseSend, store
  <2> QED BY <1>0, <1>2, <1>3, <2>1, StillSafe
<1>14. ASSUME NEW p \in Procs, Crash(p) PROVE BatchIsSafe'
  <2>1. CASE p = "writer"
    BY <1>1, <1>14, <2>1 DEF Crash
  <2>2. CASE p # "writer"
    <3>1. UNCHANGED <<row, batch>> /\ pc'["writer"] = pc["writer"]
      BY <1>0, <1>14, <2>2 DEF Crash, Enter, RestOK
    <3>2. \A v \in Subscribed("writer") : Read(v)' = Read(v)
      BY <1>14, <2>2, CrashEffect, WriterReadsAlone
    <3> QED BY <1>2, <3>1, <3>2, StillSafe
  <2> QED BY <2>1, <2>2
<1> QED BY <1>5, <1>6, <1>7, <1>8, <1>9, <1>10, <1>11, <1>12, <1>13, <1>14, Steps

\* Every record is published, and not read yet.
LEMMA InitCustody == PipelineInit => Custody
<1> SUFFICES ASSUME PipelineInit PROVE Custody
  OBVIOUS
<1>1. ASSUME NEW r \in Records PROVE Accounted(r)
  <2>1. PICK k \in Kinds : k = Bar[r].kind
    BY RecordsAssumption
  <2>2. PICK i \in DOMAIN Feed[k] : Feed[k][i] = r
    BY <2>1, FeedAssumption
  <2>3. Feed[k] \in Seq(Records)
    BY FeedAssumption
  <2>4. PICK t : t = <<"raw", k>>
    OBVIOUS
  <2>5. t \in Topics /\ t[1] = "raw" /\ t[2] = k
    BY <2>4 DEF Topics, Stages
  <2>6. queue[t] = Published(k) /\ taken[t] = 0
    BY <2>5 DEF PipelineInit
  <2>7. Published(k)[i].rec = r
    BY <2>2 DEF Published, Message
  <2>8. i \in 1..Len(Published(k))
    <3>1. DOMAIN Feed[k] = 1..Len(Feed[k]) /\ Len(Feed[k]) \in Nat
      BY <2>3
    <3>2. Len(Published(k)) = Len(Feed[k])
      BY <3>1 DEF Published
    <3> QED BY <2>2, <3>1, <3>2
  <2>9. queue[t][i] \in Ahead(t)
    BY <2>6, <2>8 DEF Ahead
  <2> QED BY <2>5, <2>6, <2>7, <2>9 DEF Accounted
<1>2. BatchIsSafe
  <2>1. Collected = {}
    BY DEF PipelineInit, Collected, Elements
  <2> QED BY <2>1 DEF BatchIsSafe
<1> QED BY <1>1, <1>2 DEF Custody

\* Every step keeps the custody of the records.
LEMMA NextCustody == PipelineIInv /\ Custody /\ [PipelineNext]_pipelineVars => Custody'
<1> SUFFICES ASSUME PipelineIInv, Custody, [PipelineNext]_pipelineVars PROVE Custody'
  OBVIOUS
<1>1. CASE PipelineNext
  BY <1>1, NextAccounted, NextBatch DEF Custody
<1>2. CASE UNCHANGED pipelineVars
  BY <1>2 DEF pipelineVars, Custody, Accounted, BatchIsSafe, Subscribed, verdict, InTable,
              Ahead, Read, Sent, Collected
<1> QED BY <1>1, <1>2

\* Whatever the three consumers commit and however they interleave, a record that
\* was published is in the table, given up after its retries, or still with Kafka or
\* a producer, unless a fault interrupted it or the validator raises on it.
THEOREM NothingIsLost == PipelineSpec => []NothingVanishes
<1>1. PipelineIInv /\ Custody => NothingVanishes
  <2> SUFFICES ASSUME PipelineIInv, Custody, NEW r \in Records \ dropped
               PROVE  \/ verdict[r] = "raises" \/ InTable(r) \/ r \in exhausted
                      \/ Queued(r) \/ Buffered(r)
    BY DEF NothingVanishes
  <2> USE DEF PipelineIInv
  <2>1. ASSUME NEW t \in Topics, NEW m \in Uncommitted(t), m.rec = r PROVE Queued(r)
    <3>1. DOMAIN queue[t] = 1..Len(queue[t])
      BY DEF KafkaOK
    <3> QED BY <2>1, <3>1 DEF Uncommitted, Elements, Queued
  <2>2. ASSUME NEW p \in Procs, NEW e \in Sent(p), e.msg.rec = r PROVE Buffered(r)
    <3>1. DOMAIN buffer[p] = 1..Len(buffer[p])
      BY DEF KafkaOK
    <3> QED BY <2>2, <3>1 DEF Sent, Elements, Buffered
  <2>3. ASSUME NEW m \in Collected, m.rec = r PROVE Queued(r)
    <3>1. PICK t \in Subscribed("writer") : m \in Read(t)
      BY DEF Custody, BatchIsSafe
    <3>2. t \in Topics
      BY SubscribedTopics DEF Procs
    <3> QED BY <2>1, <2>3, <3>1, <3>2, ViewTypes
  <2>4. Accounted(r)
    BY DEF Custody
  <2> QED BY <2>1, <2>2, <2>3, <2>4, ViewTypes DEF Accounted
<1>2. PipelineSpec => []Custody
  BY InitCustody, NextCustody, PipelineInvariant, PTL DEF PipelineSpec
<1> QED BY <1>1, <1>2, PipelineInvariant, PTL
=============================================================================
