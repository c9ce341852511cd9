------------------------------- MODULE Realtime -------------------------------
(***************************************************************************)
(* The event streams of one recipient: a browser keeps a stream open at    *)
(* some pod of the notification service, each new notification is          *)
(* published through Redis to the pods, a pod tells the streams it holds,  *)
(* and a browser that is told fetches its list again.                      *)
(*                                                                         *)
(* The list is the source of truth and the streams only invalidate it: the *)
(* unread count an event carries is the subject of Inbox.                  *)
(***************************************************************************)
EXTENDS Naturals

CONSTANTS
  Streams,            \* browsers of the recipient
  StreamPods,
  Shut,               \* where a stream is that is not open
  MaxAlerts,          \* bound on the notifications
  MaxRealtimeFaults   \* bound on failing calls, broken connections and stops

ASSUME RealtimeAssumption ==
  /\ Shut \notin StreamPods
  /\ MaxAlerts \in Nat /\ MaxRealtimeFaults \in Nat

Alerts == 1 .. MaxAlerts

VARIABLES
  shared,        \* REDIS_CLIENT is configured
  tuned,         \* pods whose psubscribe at start succeeded
  online,        \* those whose subscriber is connected at present
  streams,       \* the pod of each stream, or Shut
  emission,      \* [pc, pod] of each notification, pod being the one that stores it
  inTransit,     \* to each pod: notifications Redis has delivered to its subscriber
  seen,          \* notifications in the list each browser fetched last
  told,          \* browsers with an event they have not acted on
  unheard,       \* history: notifications published while the pod was not online
  realtimeFaults

realtimeVars == <<shared, tuned, online, streams, emission, inTransit, seen,
                  told, unheard, realtimeFaults>>

StoredAlerts == {n \in Alerts : emission[n].pc # "none"}

\* Pods that hold no stream; onModuleInit subscribed, or failed to.
RealtimeInit ==
  /\ shared \in BOOLEAN
  /\ tuned \in IF shared THEN SUBSET StreamPods ELSE {{}}
  /\ online = tuned
  /\ streams = [s \in Streams |-> Shut]
  /\ emission = [n \in Alerts |-> [pc |-> "none", pod |-> Shut]]
  /\ inTransit = [p \in StreamPods |-> {}]
  /\ seen = [s \in Streams |-> {}]
  /\ told = {}
  /\ unheard = [p \in StreamPods |-> {}]
  /\ realtimeFaults = 0

RealtimeFault ==
  /\ realtimeFaults < MaxRealtimeFaults
  /\ realtimeFaults' = realtimeFaults + 1

\* emitLocal: of the streams of pod p those in `broken` fail to write and are closed.
EmitLocal(p, broken) ==
  /\ broken \subseteq {s \in Streams : streams[s] = p}
  /\ streams' = [s \in Streams |-> IF s \in broken THEN Shut ELSE streams[s]]
  /\ told' = (told \cup {s \in Streams : streams[s] = p}) \ broken
  /\ IF broken = {} THEN UNCHANGED realtimeFaults ELSE RealtimeFault

\* The handler that creates the notification, up to the emission.
StoreAlert(n, p) ==
  /\ emission[n].pc = "none"
  /\ emission' = [emission EXCEPT ![n] = [pc |-> "stored", pod |-> p]]
  /\ UNCHANGED <<shared, tuned, online, streams, inTransit, seen, told, unheard,
                 realtimeFaults>>

\* Variant with a bug: the stream is registered and the browser not told.
AddConnectionSilently(s, p) ==
  /\ streams[s] = Shut
  /\ streams' = [streams EXCEPT ![s] = p]
  /\ UNCHANGED told

\* addConnection: the stream is in its bucket before "connected" is sent.
AddConnection(s, p) ==
  /\ streams[s] = Shut
  /\ streams' = [streams EXCEPT ![s] = p]
  /\ told' = told \cup {s}

OpenStream(s, p) ==
  /\ AddConnection(s, p)
  /\ UNCHANGED <<shared, tuned, online, emission, inTransit, seen, unheard,
                 realtimeFaults>>

\* teardown: the browser, or the connection between, goes away.
CloseStream(s) ==
  /\ streams[s] # Shut
  /\ streams' = [streams EXCEPT ![s] = Shut]
  /\ told' = told \ {s}
  /\ UNCHANGED <<shared, tuned, online, emission, inTransit, seen, unheard,
                 realtimeFaults>>

\* external: the browser fetches its list (features.md, "Realtime delivery").
Reconcile(s) ==
  /\ s \in told
  /\ told' = told \ {s}
  /\ seen' = [seen EXCEPT ![s] = StoredAlerts]
  /\ UNCHANGED <<shared, tuned, online, streams, emission, inTransit, unheard,
                 realtimeFaults>>

\* emitNotificationCreated without Redis: the streams of this pod.
EmitWithoutRedis(n, broken) ==
  /\ emission[n].pc = "stored" /\ ~shared
  /\ EmitLocal(emission[n].pod, broken)
  /\ emission' = [emission EXCEPT ![n].pc = "local"]
  /\ UNCHANGED <<shared, tuned, online, inTransit, seen, unheard>>

\* Redis hands the message to the subscribers that are connected.
Deliver(n) ==
  /\ inTransit' = [p \in StreamPods |->
       IF p \in online THEN inTransit[p] \cup {n} ELSE inTransit[p]]
  /\ unheard' = [p \in StreamPods |->
       IF p \in online THEN unheard[p] ELSE unheard[p] \cup {n}]

Publish(n) ==
  /\ emission[n].pc = "stored" /\ shared
  /\ Deliver(n)
  /\ emission' = [emission EXCEPT ![n].pc = "published"]
  /\ UNCHANGED <<shared, tuned, online, streams, seen, told, realtimeFaults>>

\* publish throws, whether or not Redis has delivered the message: this pod tells its
\* own streams.
PublishFails(n, delivered) ==
  /\ emission[n].pc = "stored" /\ shared
  /\ RealtimeFault
  /\ told' = told \cup {s \in Streams : streams[s] = emission[n].pod}
  /\ IF delivered THEN Deliver(n) ELSE UNCHANGED <<inTransit, unheard>>
  /\ emission' = [emission EXCEPT ![n].pc = IF delivered THEN "published" ELSE "local"]
  /\ UNCHANGED <<shared, tuned, online, streams, seen>>

\* resolveUnreadCount throws, or the process stops before it: nothing is sent, and the
\* event, marked processed, is not handled again.
EmissionFails(n) ==
  /\ emission[n].pc = "stored"
  /\ RealtimeFault
  /\ emission' = [emission EXCEPT ![n].pc = "lost"]
  /\ UNCHANGED <<shared, tuned, online, streams, inTransit, seen, told, unheard>>

\* handlePubSubMessage
HandlePubSubMessage(p, n, broken) ==
  /\ n \in inTransit[p]
  /\ EmitLocal(p, broken)
  /\ inTransit' = [inTransit EXCEPT ![p] = @ \ {n}]
  /\ UNCHANGED <<shared, tuned, online, emission, seen, unheard>>

\* external: the subscriber's connection breaks; ioredis subscribes again by itself.
SubscriberDrops(p) ==
  /\ p \in online
  /\ RealtimeFault
  /\ online' = online \ {p}
  /\ unheard' = [unheard EXCEPT ![p] = @ \cup inTransit[p]]
  /\ inTransit' = [inTransit EXCEPT ![p] = {}]
  /\ UNCHANGED <<shared, tuned, streams, emission, seen, told>>

SubscriberReturns(p) ==
  /\ p \in tuned \ online
  /\ online' = online \cup {p}
  /\ UNCHANGED <<shared, tuned, streams, emission, inTransit, seen, told, unheard,
                 realtimeFaults>>

\* The pod stops and starts: its streams end, and onModuleInit subscribes or gives up.
PodRestarts(p, subscribed) ==
  /\ RealtimeFault
  /\ tuned' = IF subscribed /\ shared THEN tuned \cup {p} ELSE tuned \ {p}
  /\ online' = IF subscribed /\ shared THEN online \cup {p} ELSE online \ {p}
  /\ streams' = [s \in Streams |-> IF streams[s] = p THEN Shut ELSE streams[s]]
  /\ told' = {s \in told : streams[s] # p}
  /\ inTransit' = [inTransit EXCEPT ![p] = {}]
  /\ emission' = [n \in Alerts |->
       IF emission[n] = [pc |-> "stored", pod |-> p]
       THEN [emission[n] EXCEPT !.pc = "lost"] ELSE emission[n]]
  /\ UNCHANGED <<shared, seen, unheard>>

RealtimeNext ==
  \/ \E n \in Alerts, p \in StreamPods : StoreAlert(n, p)
  \/ \E s \in Streams, p \in StreamPods : OpenStream(s, p)
  \/ \E s \in Streams : CloseStream(s) \/ Reconcile(s)
  \/ \E n \in Alerts, broken \in SUBSET Streams :
       \/ EmitWithoutRedis(n, broken)
       \/ \E p \in StreamPods : HandlePubSubMessage(p, n, broken)
  \/ \E n \in Alerts :
       \/ Publish(n) \/ EmissionFails(n)
       \/ \E delivered \in BOOLEAN : PublishFails(n, delivered)
  \/ \E p \in StreamPods :
       \/ SubscriberDrops(p) \/ SubscriberReturns(p)
       \/ \E subscribed \in BOOLEAN : PodRestarts(p, subscribed)

RealtimeSpec == RealtimeInit /\ [][RealtimeNext]_realtimeVars

-----------------------------------------------------------------------------
Emission == [pc : {"none", "stored", "published", "local", "lost"},
             pod : StreamPods \cup {Shut}]

RealtimeTypeOK ==
  /\ shared \in BOOLEAN
  /\ online \subseteq tuned /\ tuned \subseteq StreamPods
  /\ streams \in [Streams -> StreamPods \cup {Shut}]
  /\ emission \in [Alerts -> Emission]
  /\ inTransit \in [StreamPods -> SUBSET StoredAlerts]
  /\ seen \in [Streams -> SUBSET StoredAlerts]
  /\ told \subseteq Streams
  /\ unheard \in [StreamPods -> SUBSET StoredAlerts]
  /\ realtimeFaults \in 0 .. MaxRealtimeFaults

\* What keeps a notification from the streams of pod p, by name: its emission failed;
\* it was told to the streams of its own pod only; the pod does not listen, or did not
\* at that moment.
KeptFrom(p, n) ==
  \/ emission[n].pc = "lost"
  \/ emission[n].pc = "local" /\ emission[n].pod # p
  \/ emission[n].pc = "published" /\ (p \notin tuned \/ n \in unheard[p])

\* A browser with an open stream has every stored notification in its list, or is about
\* to fetch it: it has been told, or the emission is on its way to its pod. Whatever
\* it may miss beyond that has one of the causes KeptFrom lists; in particular no
\* order of opening, fetching, storing and publishing loses one.
StreamsExplained ==
  \A s \in Streams, n \in StoredAlerts :
    streams[s] # Shut =>
      \/ n \in seen[s] \/ s \in told
      \/ emission[n].pc = "stored" \/ n \in inTransit[streams[s]]
      \/ KeptFrom(streams[s], n)
=============================================================================
