------------------------------ MODULE RateLimit ------------------------------
(***************************************************************************)
(* The fixed-window rate limit in front of every service: one process      *)
(* counts the requests of each client in a window that the client's first  *)
(* request opens, and refuses those above the limit.                       *)
(*                                                                         *)
(* Middleware runs to its end without giving way to another request, so a  *)
(* request is one step.  Time is in ticks; Date.now() is taken not to go   *)
(* back.                                                                   *)
(***************************************************************************)
EXTENDS Naturals, FiniteSets

CONSTANTS
  Clients,       \* keys: address and method
  Limit,         \* requests of a window that pass
  Ttl,           \* length of a window, in ticks
  PruneAbove,    \* number of buckets above which expired ones are removed: limit * 20
  MaxClock, MaxArrivals  \* bounds on the ticks and on the requests

ASSUME RateLimitAssumption ==
  /\ Limit \in Nat \ {0} /\ Ttl \in Nat \ {0} /\ PruneAbove \in Nat
  /\ MaxClock \in Nat /\ MaxArrivals \in Nat

VARIABLES
  clock,
  buckets,    \* [count, resetAt] of each client; count 0 where there is none
  windows,    \* history: how many windows the client has opened
  passed,     \* history: requests let through, as the rank-th of a window
  refused,    \* history: [client, time] of the others
  arrivals    \* requests so far

rateVars == <<clock, buckets, windows, passed, refused, arrivals>>

NoBucket == [count |-> 0, resetAt |-> 0]

RateLimitInit ==
  /\ clock = 0
  /\ buckets = [c \in Clients |-> NoBucket]
  /\ windows = [c \in Clients |-> 0]
  /\ passed = {} /\ refused = {}
  /\ arrivals = 0

Open(c) == buckets[c].count # 0 /\ buckets[c].resetAt > clock

\* The bucket that counts this request: the client's, or that of a new window.
Bucket(c) ==
  IF Open(c) THEN [count |-> buckets[c].count + 1, resetAt |-> buckets[c].resetAt]
  ELSE [count |-> 1, resetAt |-> clock + Ttl]

Window(c) == IF Open(c) THEN windows[c] ELSE windows[c] + 1

\* buckets.set
Stored(c) == [buckets EXCEPT ![c] = Bucket(c)]

\* Variant with a bug: whatever is there is removed.
PrunedAll(bs, c) == [d \in Clients |-> IF d = c THEN bs[d] ELSE NoBucket]

\* pruneExpiredBuckets
Pruned(bs, c) ==
  [d \in Clients |-> IF bs[d].resetAt <= clock THEN NoBucket ELSE bs[d]]

InUse(bs) == {d \in Clients : bs[d].count # 0}

PruneIsDue(c) ==
  /\ Bucket(c).count = 1
  /\ Cardinality(InUse(Stored(c))) > PruneAbove

Request(c) ==
  /\ arrivals < MaxArrivals
  /\ arrivals' = arrivals + 1
  /\ windows' = [windows EXCEPT ![c] = Window(c)]
  /\ IF Bucket(c).count > Limit
     THEN /\ refused' = refused \cup {[client |-> c, time |-> clock]}
          /\ buckets' = Stored(c)
          /\ UNCHANGED passed
     ELSE /\ passed' = passed \cup
               {[client |-> c, time |-> clock, window |-> Window(c),
                 opened |-> Bucket(c).resetAt - Ttl, rank |-> Bucket(c).count]}
          /\ buckets' = IF PruneIsDue(c) THEN Pruned(Stored(c), c) ELSE Stored(c)
          /\ UNCHANGED refused
  /\ UNCHANGED clock

\* external: time passes.
Tick ==
  /\ clock < MaxClock
  /\ clock' = clock + 1
  /\ UNCHANGED <<buckets, windows, passed, refused, arrivals>>

RateLimitNext == Tick \/ \E c \in Clients : Request(c)

RateLimitSpec == RateLimitInit /\ [][RateLimitNext]_rateVars

-----------------------------------------------------------------------------
RateLimitTypeOK ==
  /\ clock \in Nat /\ arrivals \in Nat
  /\ buckets \in [Clients -> [count : Nat, resetAt : Nat]]
  /\ windows \in [Clients -> Nat]
  /\ passed \in SUBSET [client : Clients, time : 0 .. clock, window : Nat,
                        opened : 0 .. clock, rank : 1 .. Limit]
  /\ refused \in SUBSET [client : Clients, time : 0 .. clock]

\* The client's requests that passed in the Ttl ticks from `from` on.
Within(c, from) ==
  {p \in passed : p.client = c /\ from <= p.time /\ p.time < from + Ttl}

\* No stretch of time as long as a window sees more than twice the limit pass, wherever
\* it begins; and nobody is refused without having had the whole limit in the
\* stretch that ends with the refusal. The removal of old buckets changes neither.
LimitHonoured ==
  /\ \A c \in Clients, from \in 0 .. clock : Cardinality(Within(c, from)) <= 2 * Limit
  /\ \A r \in refused :
       \E from \in 0 .. clock :
         /\ from <= r.time /\ r.time < from + Ttl
         /\ Cardinality(Within(r.client, from)) >= Limit
=============================================================================
