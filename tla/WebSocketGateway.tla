-------------------------- MODULE WebSocketGateway --------------------------
(***************************************************************************)
(* services/api/websocket_gateway: the connection manager's registries,    *)
(* the endpoint coroutine and the heartbeat task of each connection, the   *)
(* bridge that publishes to Redis channels, and the tasks that broadcast.  *)
(*                                                                         *)
(* The manager's methods hold one lock, so a registry change is one step;  *)
(* sending and closing happen outside it.  An endpoint that ends for any   *)
(* reason first removes its rate-limit keys in Redis and then disconnects: *)
(* if Redis raises, it does not disconnect.  A heartbeat comes every 30    *)
(* seconds and is checked 10 seconds later against the last PONG; the      *)
(* model asks whether a PONG came since the check before.                  *)
(***************************************************************************)
EXTENDS FiniteSets, Integers

CONSTANTS
  Conns,             \* connection ids, fresh uuids
  Users, Channels,
  Market,            \* "pyhron:market:status"
  MaxConnections,    \* MAX_CONNECTIONS_PER_USER
  MaxSubscriptions   \* MAX_SUBSCRIPTIONS_PER_CONNECTION

None == "nobody"

ASSUME LimitsAssumption == MaxConnections \in Nat \ {0} /\ MaxSubscriptions \in Nat \ {0}
ASSUME NamesAssumption ==
  None \notin Users /\ Market \in Channels /\ IsFiniteSet(Conns) /\ IsFiniteSet(Channels)

VARIABLES
  registered,   \* keys of _connections
  user,         \* [Conns -> user or None]: state.user
  subs,         \* [Conns -> SUBSET Channels]: state.subscriptions
  channelSubs,  \* _channel_subs
  userConns,    \* _user_connections
  endpoint,     \* [Conns -> where the endpoint coroutine is]
  heartbeat,    \* [Conns -> {"none", "sleep", "wait", "done"}]
  ponged,       \* connections with a PONG since the last check
  peer,         \* [Conns -> {"answering", "silent", "gone"}]: the client
  cast,         \* the broadcast in progress
  inbox,        \* channels with a message for the RedisSubscriber
  owed          \* [Conns -> channels with a message published while subscribed]

manager == <<registered, user, subs, channelSubs, userConns>>
feed == <<cast, inbox>>
vars == <<manager, endpoint, heartbeat, ponged, peer, feed, owed>>

NoCast == [todo |-> {}, stale |-> {}, channel |-> Market]  \* before the first one

TypeOK ==
  /\ registered \subseteq Conns /\ ponged \subseteq Conns
  /\ user \in [Conns -> Users \cup {None}]
  /\ subs \in [Conns -> SUBSET Channels]
  /\ channelSubs \in [Channels -> SUBSET Conns]
  /\ userConns \in [Users -> SUBSET Conns]
  /\ endpoint \in [Conns -> {"absent", "auth", "ready", "loop", "closing", "ended"}]
  /\ heartbeat \in [Conns -> {"none", "sleep", "wait", "done"}]
  /\ peer \in [Conns -> {"answering", "silent", "gone"}]
  /\ cast \in [todo : SUBSET Conns, stale : SUBSET Conns, channel : Channels]
  /\ inbox \subseteq Channels
  /\ owed \in [Conns -> SUBSET Channels]
  /\ \A c \in Conns : heartbeat[c] # "none" => endpoint[c] \in {"loop", "closing", "ended"}

Init ==
  /\ registered = {} /\ ponged = {}
  /\ user = [c \in Conns |-> None]
  /\ subs = [c \in Conns |-> {}]
  /\ channelSubs = [h \in Channels |-> {}]
  /\ userConns = [u \in Users |-> {}]
  /\ endpoint = [c \in Conns |-> "absent"]
  /\ heartbeat = [c \in Conns |-> "none"]
  /\ peer = [c \in Conns |-> "answering"]
  /\ cast = NoCast /\ inbox = {}
  /\ owed = [c \in Conns |-> {}]

Goto(c, place) == endpoint' = [endpoint EXCEPT ![c] = place]
Beat(c, place) == heartbeat' = [heartbeat EXCEPT ![c] = place]

\* Mutant of Remove: the per-user set keeps the connection.
RemoveKeepsUser(c) ==
  /\ registered' = registered \ {c}
  /\ user' = [user EXCEPT ![c] = None]
  /\ subs' = [subs EXCEPT ![c] = {}]
  /\ channelSubs' = [h \in Channels |-> channelSubs[h] \ {c}]
  /\ UNCHANGED userConns
  /\ owed' = [owed EXCEPT ![c] = {}]

\* disconnect() under the lock, on a connection that is registered or not.
Remove(c) ==
  /\ registered' = registered \ {c}
  /\ user' = [user EXCEPT ![c] = None]
  /\ subs' = [subs EXCEPT ![c] = {}]
  /\ channelSubs' = [h \in Channels |-> IF h \in subs[c] THEN channelSubs[h] \ {c}
                                        ELSE channelSubs[h]]
  /\ userConns' = [u \in Users |-> IF u = user[c] THEN userConns[u] \ {c} ELSE userConns[u]]
  /\ owed' = [owed EXCEPT ![c] = {}]

\* disconnect() with the heartbeat task it cancels.
Disconnect(c) ==
  /\ Remove(c)
  /\ IF c \in registered /\ heartbeat[c] # "none" THEN Beat(c, "done")
     ELSE UNCHANGED heartbeat
-----------------------------------------------------------------------------
(***************************************************************************)
(* The endpoint                                                            *)
(***************************************************************************)
Connect(c) ==
  /\ endpoint[c] = "absent"
  /\ registered' = registered \cup {c}
  /\ Goto(c, "auth")
  /\ UNCHANGED <<user, subs, channelSubs, userConns, heartbeat, ponged, peer, feed, owed>>

Authenticate(c, u) ==
  /\ endpoint[c] = "auth" /\ peer[c] # "gone" /\ c \in registered
  /\ Cardinality(userConns[u]) < MaxConnections
  /\ user' = [user EXCEPT ![c] = u]
  /\ userConns' = [userConns EXCEPT ![u] = @ \cup {c}]
  /\ Goto(c, "ready")
  /\ UNCHANGED <<registered, subs, channelSubs, heartbeat, ponged, peer, feed, owed>>

\* No AUTH in time, no valid token, or the user is at the limit: 4001.
RefuseAuth(c) ==
  /\ endpoint[c] = "auth"
  /\ Disconnect(c)
  /\ Goto(c, "closing")
  /\ UNCHANGED <<ponged, peer, feed>>

\* Mutant of AuthRaises: sending AUTH_OK or the market status may raise too.
AuthRaisesLate(c) ==
  /\ endpoint[c] \in {"auth", "ready"} /\ peer[c] # "gone"
  /\ Goto(c, "closing")
  /\ UNCHANGED <<manager, heartbeat, ponged, peer, feed, owed>>

\* The first message is no JSON: receive_json raises past the except clause.
AuthRaises(c) ==
  /\ endpoint[c] = "auth" /\ peer[c] # "gone"
  /\ Goto(c, "closing")
  /\ UNCHANGED <<manager, heartbeat, ponged, peer, feed, owed>>

\* AUTH_OK and the market status are sent, failed sends are ignored, and the
\* heartbeat task is created and stored in one go.
StartHeartbeat(c) ==
  /\ endpoint[c] = "ready"
  /\ Beat(c, "sleep")
  /\ Goto(c, "loop")
  /\ UNCHANGED <<manager, ponged, peer, feed, owed>>

Subscribe(c, h) ==
  /\ endpoint[c] = "loop" /\ peer[c] # "gone"
  /\ c \in registered /\ user[c] # None
  /\ Cardinality(subs[c]) < MaxSubscriptions
  /\ subs' = [subs EXCEPT ![c] = @ \cup {h}]
  /\ channelSubs' = [channelSubs EXCEPT ![h] = @ \cup {c}]
  /\ UNCHANGED <<registered, user, userConns, endpoint, heartbeat, ponged, peer, feed, owed>>

Unsubscribe(c, h) ==
  /\ endpoint[c] = "loop" /\ peer[c] # "gone"
  /\ c \in registered /\ h \in subs[c]
  /\ subs' = [subs EXCEPT ![c] = @ \ {h}]
  /\ channelSubs' = [channelSubs EXCEPT ![h] = @ \ {c}]
  /\ owed' = [owed EXCEPT ![c] = @ \ {h}]
  /\ UNCHANGED <<registered, user, userConns, endpoint, heartbeat, ponged, peer, feed>>

\* record_pong.
Pong(c) ==
  /\ endpoint[c] = "loop" /\ peer[c] = "answering"
  /\ c \in registered
  /\ ponged' = ponged \cup {c}
  /\ UNCHANGED <<manager, endpoint, heartbeat, peer, feed, owed>>

RateLimited(c) ==
  /\ endpoint[c] = "loop" /\ peer[c] # "gone"
  /\ Disconnect(c)
  /\ Goto(c, "closing")
  /\ UNCHANGED <<ponged, peer, feed>>

\* WebSocketDisconnect.
ReceiveEnds(c) ==
  /\ endpoint[c] = "loop"
  /\ peer[c] = "gone" \/ c \notin registered
  /\ Goto(c, "closing")
  /\ UNCHANGED <<manager, heartbeat, ponged, peer, feed, owed>>

\* Redis fails under the rate limiter.
LoopRaises(c) ==
  /\ endpoint[c] = "loop" /\ peer[c] # "gone"
  /\ Goto(c, "closing")
  /\ UNCHANGED <<manager, heartbeat, ponged, peer, feed, owed>>

Cleanup(c) ==
  /\ endpoint[c] = "closing"
  /\ Disconnect(c)
  /\ Goto(c, "ended")
  /\ UNCHANGED <<ponged, peer, feed>>

\* rate_limiter.cleanup raises: the disconnect after it is not reached.
CleanupFails(c) ==
  /\ endpoint[c] = "closing"
  /\ Goto(c, "ended")
  /\ UNCHANGED <<manager, heartbeat, ponged, peer, feed, owed>>

-----------------------------------------------------------------------------
(***************************************************************************)
(* Heartbeats and clients                                                  *)
(***************************************************************************)
\* run_heartbeat_loop after its first sleep.
SendHeartbeat(c) ==
  /\ heartbeat[c] = "sleep"
  /\ \/ c \notin registered /\ Beat(c, "done") /\ UNCHANGED <<manager, owed>>
     \/ c \in registered /\ Beat(c, "wait") /\ UNCHANGED <<manager, owed>>
     \/ c \in registered /\ peer[c] = "gone" /\ Disconnect(c)
  /\ UNCHANGED <<endpoint, ponged, peer, feed>>

\* Mutant of CheckPong: an old PONG still counts.
CheckPongKept(c) ==
  /\ heartbeat[c] = "wait"
  /\ \/ c \notin registered /\ Beat(c, "done") /\ UNCHANGED <<manager, owed>>
     \/ c \in registered /\ c \in ponged /\ Beat(c, "sleep") /\ UNCHANGED <<manager, owed>>
     \/ c \in registered /\ c \notin ponged /\ Disconnect(c)
  /\ UNCHANGED <<endpoint, ponged, peer, feed>>

\* After the second sleep: no PONG for 40 seconds closes the connection.
CheckPong(c) ==
  /\ heartbeat[c] = "wait"
  /\ \/ c \notin registered /\ Beat(c, "done") /\ UNCHANGED <<manager, owed>>
     \/ c \in registered /\ c \in ponged /\ Beat(c, "sleep") /\ UNCHANGED <<manager, owed>>
     \/ c \in registered /\ c \notin ponged /\ Disconnect(c)
  /\ ponged' = ponged \ {c}
  /\ UNCHANGED <<endpoint, peer, feed>>

\* The client goes on sending without answering, or is gone.
Silence(c) ==
  /\ endpoint[c] # "absent" /\ peer[c] = "answering"
  /\ peer' = [peer EXCEPT ![c] = "silent"]
  /\ UNCHANGED <<manager, endpoint, heartbeat, ponged, feed, owed>>

Leave(c) ==
  /\ endpoint[c] # "absent" /\ peer[c] # "gone"
  /\ peer' = [peer EXCEPT ![c] = "gone"]
  /\ UNCHANGED <<manager, endpoint, heartbeat, ponged, feed, owed>>

-----------------------------------------------------------------------------
(***************************************************************************)
(* Redis and broadcasts                                                    *)
(***************************************************************************)
\* RedisSubscriber._subscribed_channels: nothing calls RedisSubscriber.subscribe.
Listening == {}

\* The bridge publishes to a channel of Redis; pub/sub keeps it for listeners.
BridgePublishes(h) ==
  /\ h # Market
  /\ owed' = [c \in Conns |-> IF c \in channelSubs[h] THEN owed[c] \cup {h} ELSE owed[c]]
  /\ inbox' = IF h \in Listening THEN inbox \cup {h} ELSE inbox
  /\ UNCHANGED <<manager, endpoint, heartbeat, ponged, peer, cast>>

\* broadcast_to_channel, after the one before it: for the broadcaster's own
\* message or one from Redis.
Broadcast(h) ==
  /\ cast.todo = {} /\ cast.stale = {}
  /\ h \in {Market} \cup inbox
  /\ channelSubs[h] # {}
  /\ cast' = [todo |-> channelSubs[h], stale |-> {}, channel |-> h]
  /\ inbox' = inbox \ {h}
  /\ UNCHANGED <<manager, endpoint, heartbeat, ponged, peer, owed>>

\* Sent to a connection of the snapshot, subscribed still or not.
SendOne(c) ==
  /\ c \in cast.todo
  /\ \/ /\ c \in registered
        /\ owed' = [owed EXCEPT ![c] = @ \ {cast.channel}]
        /\ cast' = [cast EXCEPT !.todo = @ \ {c}]
     \/ /\ c \notin registered \/ peer[c] = "gone"
        /\ cast' = [cast EXCEPT !.todo = @ \ {c}, !.stale = @ \cup {c}]
        /\ UNCHANGED owed
  /\ UNCHANGED <<manager, endpoint, heartbeat, ponged, peer, inbox>>

DropStale(c) ==
  /\ cast.todo = {} /\ c \in cast.stale
  /\ Disconnect(c)
  /\ cast' = [cast EXCEPT !.stale = @ \ {c}]
  /\ UNCHANGED <<endpoint, ponged, peer, inbox>>

-----------------------------------------------------------------------------
EndpointStep(c) == RefuseAuth(c) \/ StartHeartbeat(c) \/ ReceiveEnds(c)

ClosingStep(c) == Cleanup(c) \/ CleanupFails(c)

HeartbeatStep(c) == SendHeartbeat(c) \/ CheckPong(c)

CastStep == \E c \in Conns : SendOne(c) \/ DropStale(c)

Next ==
  \/ \E c \in Conns :
        \/ Connect(c) \/ AuthRaises(c) \/ Pong(c) \/ RateLimited(c) \/ LoopRaises(c)
        \/ \E u \in Users : Authenticate(c, u)
        \/ \E h \in Channels : Subscribe(c, h) \/ Unsubscribe(c, h)
        \/ EndpointStep(c) \/ ClosingStep(c) \/ HeartbeatStep(c)
        \/ Silence(c) \/ Leave(c)
  \/ \E h \in Channels : BridgePublishes(h) \/ Broadcast(h)
  \/ CastStep

Spec == Init /\ [][Next]_vars

\* Coroutines go on, timers fire, and a message that waits is broadcast.
Fairness ==
  /\ \A c \in Conns :
        WF_vars(EndpointStep(c)) /\ WF_vars(ClosingStep(c)) /\ WF_vars(HeartbeatStep(c))
  /\ WF_vars(CastStep)
  /\ \A h \in Channels : SF_vars(Broadcast(h))

FairSpec == Spec /\ Fairness
-----------------------------------------------------------------------------
(***************************************************************************)
(* Properties                                                              *)
(***************************************************************************)
\* The three registries tell the same story whatever coroutines disconnect a
\* connection and in whatever order: no channel or user set names a connection
\* that is gone, and none misses one that is there.
RegistriesAgree ==
  /\ \A h \in Channels : channelSubs[h] = {c \in registered : h \in subs[c]}
  /\ \A u \in Users : userConns[u] = {c \in registered : user[c] = u}

\* No interleaving of logins, and of subscriptions, passes the limits.
LimitsHold ==
  /\ \A u \in Users : Cardinality(userConns[u]) <= MaxConnections
  /\ \A c \in Conns : Cardinality(subs[c]) <= MaxSubscriptions

\* A connection that outlives its endpoint because Redis failed in the cleanup
\* has a heartbeat that will remove it, unless it never authenticated: what
\* can leak for good holds no user slot and no subscription.
LeaksHoldNothing ==
  \A c \in registered :
     endpoint[c] \in {"closing", "ended"} /\ heartbeat[c] \in {"none", "done"}
       => user[c] = None /\ subs[c] = {}

\* A client that stops answering, or leaves, gives its user's slot and its
\* subscriptions back, even if its endpoint never returns or Redis fails.
SilentClientsFreeTheirSlot ==
  \A c \in Conns :
     <>[](peer[c] # "answering")
       => <>[](\A u \in Users : c \notin userConns[u])

\* "Server registers subscriptions and starts forwarding messages"
\* (connection_manager.py:73): a message the bridge publishes while a connection
\* is subscribed reaches it, unless it unsubscribes or goes.
SubscribersGetUpdates ==
  \A c \in Conns, h \in Channels : h \in owed[c] ~> h \notin owed[c]
=============================================================================
