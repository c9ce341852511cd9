------------------------------ MODULE Services_proofs ------------------------------
(***************************************************************************)
(* Components of the notification, task and workspace services and of the  *)
(* shared packages, for any number of clients, handlers and keys.  Each    *)
(* has its own variables, so each section stands by itself; the last one   *)
(* says what their composition keeps.                                      *)
(***************************************************************************)
EXTENDS MCServices, EventPipeline_proofs, FiniteSetTheorems, SequenceTheorems,
        WellFoundedInduction, TLAPS

-----------------------------------------------------------------------------
(***************************************************************************)
(* RateLimit for any clients, limit and window: what passes in a stretch   *)
(* of time as long as a window, and what precedes a refusal.               *)
(*                                                                         *)
(* A passed request is known by its window and its rank in it.  Windows of *)
(* a client do not overlap, so a stretch of Ttl ticks meets at most two of *)
(* them, and its requests map one to one into 1 .. 2 * Limit.              *)
(***************************************************************************)
Counting(c) == buckets[c].count # 0

\* A request passes while its window is open.
Timely ==
  \A p \in passed :
    /\ p.opened <= p.time /\ p.time < p.opened + Ttl /\ p.time <= clock
    /\ p.window <= windows[p.client]

\* Requests of one window, and of two.
OneWindow ==
  \A p, q \in passed :
    p.client = q.client /\ p.window = q.window =>
      p.opened = q.opened /\ (p.rank = q.rank => p = q)

Apart ==
  \A p, q \in passed :
    p.client = q.client /\ p.window < q.window => p.opened + Ttl <= q.opened

\* The bucket is that of the last window, and its count is above the ranks given.
CurrentFor(c, p) ==
  /\ p.window = windows[c] =>
       p.opened = buckets[c].resetAt - Ttl /\ p.rank <= buckets[c].count
  /\ p.window # windows[c] => p.opened + Ttl <= buckets[c].resetAt - Ttl

Current ==
  \A c \in Clients : Counting(c) =>
    /\ Ttl <= buckets[c].resetAt /\ buckets[c].resetAt <= clock + Ttl
    /\ \A p \in passed : p.client = c => CurrentFor(c, p)

\* Where there is no bucket, no window is open: what was removed had expired.
Over ==
  \A p \in passed : ~Counting(p.client) => p.opened + Ttl <= clock

\* All the ranks up to the count have been given.
Ranked(c, w, k) == \E p \in passed : p.client = c /\ p.window = w /\ p.rank = k

Filled ==
  \A c \in Clients : Counting(c) =>
    \A k \in 1 .. Limit : k <= buckets[c].count => Ranked(c, windows[c], k)

\* A refusal came after a full window that was still open.
FullFrom(c, from) ==
  \A k \in 1 .. Limit :
    \E p \in passed : p.client = c /\ p.opened = from /\ p.rank = k

Justified ==
  \A r \in refused :
    \E from \in 0 .. clock :
      from <= r.time /\ r.time < from + Ttl /\ FullFrom(r.client, from)

RateInv ==
  /\ RateLimitTypeOK /\ IsFiniteSet(passed)
  /\ Timely /\ OneWindow /\ Apart /\ Current /\ Over /\ Filled /\ Justified

-----------------------------------------------------------------------------
(* What the invariant says of a stretch of time.                           *)

\* Requests of three windows do not fit into it.
LEMMA AtMostTwoWindows ==
  ASSUME RateInv, NEW c \in Clients, NEW from \in 0 .. clock,
         NEW p \in Within(c, from), NEW q \in Within(c, from), NEW r \in Within(c, from),
         p.window < q.window, q.window < r.window
  PROVE  FALSE
<1> USE RateLimitAssumption
<1>1. /\ p \in passed /\ q \in passed /\ r \in passed
      /\ p.client = c /\ q.client = c /\ r.client = c
      /\ from <= p.time /\ r.time < from + Ttl
  BY DEF Within
<1>2. /\ p.opened + Ttl <= q.opened /\ q.opened + Ttl <= r.opened
      /\ p.time < p.opened + Ttl /\ r.opened <= r.time
  BY <1>1 DEF RateInv, Apart, Timely
<1>3. /\ p.opened \in Nat /\ q.opened \in Nat /\ r.opened \in Nat
      /\ p.time \in Nat /\ r.time \in Nat
  BY <1>1 DEF RateInv, RateLimitTypeOK
<1> QED BY <1>1, <1>2, <1>3

LEMMA TwoWindows ==
  ASSUME RateInv, NEW c \in Clients, NEW from \in 0 .. clock
  PROVE  \E u, v \in Nat : \A p \in Within(c, from) : p.window \in {u, v}
<1> DEFINE In == Within(c, from)
<1>1. \A p \in In : p.window \in Nat
  BY DEF RateInv, RateLimitTypeOK, Within
<1>2. CASE In = {}
  BY <1>2
<1>3. ASSUME NEW p \in In, \A q \in In : q.window = p.window
      PROVE  \E u, v \in Nat : \A q \in In : q.window \in {u, v}
  BY <1>1, <1>3
<1>4. ASSUME NEW p \in In, NEW q \in In, q.window # p.window
      PROVE  \E u, v \in Nat : \A r \in In : r.window \in {u, v}
  <2>1. ASSUME NEW r \in In, r.window # p.window, r.window # q.window
        PROVE  FALSE
    <3> DEFINE a == p.window
               b == q.window
               d == r.window
    <3>1. a \in Nat /\ b \in Nat /\ d \in Nat /\ a # b /\ d # a /\ d # b
      BY <1>1, <1>4, <2>1
    <3>2. \A x, y, z \in In : x.window < y.window /\ y.window < z.window => FALSE
      BY AtMostTwoWindows
    <3>3. /\ ~(a < b /\ b < d) /\ ~(a < d /\ d < b) /\ ~(b < a /\ a < d)
          /\ ~(b < d /\ d < a) /\ ~(d < a /\ a < b) /\ ~(d < b /\ b < a)
      BY <3>2
    <3> HIDE DEF a, b, d
    <3> QED BY <3>1, <3>3
  <2>2. \A r \in In : r.window \in {p.window, q.window}
    BY <2>1
  <2> QED BY <1>1, <2>2
<1> QED BY <1>2, <1>3, <1>4

LEMMA TwiceTheLimit ==
  ASSUME RateInv, NEW c \in Clients, NEW from \in 0 .. clock
  PROVE  Cardinality(Within(c, from)) <= 2 * Limit
<1> USE RateLimitAssumption
<1> DEFINE In == Within(c, from)
<1>1. PICK u \in Nat, v \in Nat : \A p \in In : p.window \in {u, v}
  BY TwoWindows
<1> DEFINE place == [p \in In |-> IF p.window = u THEN p.rank ELSE Limit + p.rank]
<1>2. \A p \in In : p.rank \in 1 .. Limit /\ p \in passed /\ p.client = c
  BY DEF RateInv, RateLimitTypeOK, Within
<1>3. ASSUME NEW p \in In PROVE place[p] \in 1 .. 2 * Limit
  <2>1. p.rank \in 1 .. Limit
    BY <1>2
  <2> QED BY <2>1
<1>4. ASSUME NEW p \in In, NEW q \in In, place[p] = place[q] PROVE p = q
  <2>1. p.rank \in 1 .. Limit /\ q.rank \in 1 .. Limit
    BY <1>2
  <2>2. (IF p.window = u THEN p.rank ELSE Limit + p.rank)
          = (IF q.window = u THEN q.rank ELSE Limit + q.rank)
    BY <1>4
  <2>3. p.rank = q.rank /\ (p.window = u <=> q.window = u)
    BY <2>1, <2>2
  <2>4. p.window = q.window
    BY <1>1, <2>3
  <2> QED BY <1>2, <2>3, <2>4 DEF RateInv, OneWindow
<1>5. place \in Injection(In, 1 .. 2 * Limit)
  <2>1. place \in [In -> 1 .. 2 * Limit]
    BY <1>3
  <2>2. \A p, q \in In : place[p] = place[q] => p = q
    BY <1>4
  <2> HIDE DEF place
  <2> QED BY <2>1, <2>2 DEF Injection, IsInjective
<1>6. IsFiniteSet(1 .. 2 * Limit) /\ Cardinality(1 .. 2 * Limit) = 2 * Limit
  <2>1. 1 \in Int /\ 2 * Limit \in Int /\ ~(1 > 2 * Limit) /\ 2 * Limit - 1 + 1 = 2 * Limit
    OBVIOUS
  <2> QED BY <2>1, FS_Interval
<1> HIDE DEF place, In
<1>7. Cardinality(In) <= Cardinality(1 .. 2 * Limit)
  BY <1>5, <1>6, FS_Injection
<1>8. Cardinality(In) <= 2 * Limit
  BY <1>6, <1>7
<1> QED BY <1>8 DEF In

LEMMA FullWindow ==
  ASSUME RateInv, NEW c \in Clients, NEW from \in 0 .. clock, FullFrom(c, from)
  PROVE  Cardinality(Within(c, from)) >= Limit
<1> USE RateLimitAssumption
<1> DEFINE In == Within(c, from)
           Has(k, p) == p.client = c /\ p.opened = from /\ p.rank = k
           nth == [k \in 1 .. Limit |-> CHOOSE p \in passed : Has(k, p)]
<1>1. ASSUME NEW k \in 1 .. Limit
      PROVE  nth[k] \in passed /\ Has(k, nth[k])
  BY DEF FullFrom
<1> HIDE DEF nth
<1>2. ASSUME NEW k \in 1 .. Limit PROVE nth[k] \in In
  BY <1>1 DEF Within, RateInv, Timely
<1>3. nth \in Injection(1 .. Limit, In)
  <2>1. nth \in [1 .. Limit -> In]
    BY <1>2 DEF nth
  <2>2. \A j, k \in 1 .. Limit : nth[j] = nth[k] => j = k
    BY <1>1
  <2> QED BY <2>1, <2>2 DEF Injection, IsInjective
<1>4. IsFiniteSet(In)
  <2>1. In \in SUBSET passed /\ IsFiniteSet(passed)
    BY DEF Within, RateInv
  <2> QED BY <2>1, FS_Subset
<1>5. Cardinality(1 .. Limit) = Limit
  <2>1. 1 \in Int /\ Limit \in Int /\ ~(1 > Limit) /\ Limit - 1 + 1 = Limit
    OBVIOUS
  <2> QED BY <2>1, FS_Interval
<1> HIDE DEF In
<1>6. Cardinality(1 .. Limit) <= Cardinality(In)
  BY <1>3, <1>4, FS_Injection
<1>7. Cardinality(In) \in Nat
  BY <1>4, FS_CardinalityType
<1>8. Cardinality(In) >= Limit
  BY <1>5, <1>6, <1>7
<1> QED BY <1>8 DEF In

LEMMA Honoured == RateInv => LimitHonoured
<1> SUFFICES ASSUME RateInv PROVE LimitHonoured
  OBVIOUS
<1>1. \A c \in Clients, from \in 0 .. clock : Cardinality(Within(c, from)) <= 2 * Limit
  BY TwiceTheLimit
<1>2. ASSUME NEW r \in refused
      PROVE  \E from \in 0 .. clock :
               /\ from <= r.time /\ r.time < from + Ttl
               /\ Cardinality(Within(r.client, from)) >= Limit
  <2>1. r.client \in Clients
    BY DEF RateInv, RateLimitTypeOK
  <2> QED BY <2>1, FullWindow DEF RateInv, Justified
<1> QED BY <1>1, <1>2 DEF LimitHonoured

-----------------------------------------------------------------------------
(* The invariant holds initially and every step keeps it.                  *)

LEMMA Initially == RateLimitInit => RateInv
<1> USE RateLimitAssumption
<1> SUFFICES ASSUME RateLimitInit PROVE RateInv
  OBVIOUS
<1>1. RateLimitTypeOK
  BY DEF RateLimitInit, RateLimitTypeOK, NoBucket
<1>2. IsFiniteSet(passed)
  BY FS_EmptySet DEF RateLimitInit
<1>3. \A c \in Clients : ~Counting(c)
  BY DEF RateLimitInit, NoBucket, Counting
<1>4. passed = {} /\ refused = {}
  BY DEF RateLimitInit
<1> QED BY <1>1, <1>2, <1>3, <1>4
           DEF RateInv, Timely, OneWindow, Apart, Current, Over, Filled, Justified

LEMMA TickStep == RateInv /\ Tick => RateInv'
<1> USE RateLimitAssumption
<1> SUFFICES ASSUME RateInv, Tick PROVE RateInv'
  OBVIOUS
<1>1. /\ clock \in Nat /\ clock' = clock + 1
      /\ UNCHANGED <<buckets, windows, passed, refused, arrivals>>
  BY DEF Tick, RateInv, RateLimitTypeOK
<1>2. RateLimitTypeOK' /\ IsFiniteSet(passed)'
  <2>1. 0 .. clock \subseteq 0 .. clock'
    BY <1>1
  <2>2. passed \in SUBSET [client : Clients, time : 0 .. clock', window : Nat,
                          opened : 0 .. clock', rank : 1 .. Limit]
    BY <2>1 DEF RateInv, RateLimitTypeOK
  <2>3. refused \in SUBSET [client : Clients, time : 0 .. clock']
    BY <2>1 DEF RateInv, RateLimitTypeOK
  <2> QED BY <1>1, <2>2, <2>3 DEF RateInv, RateLimitTypeOK
<1>3. Timely' /\ Over'
  <2>1. \A p \in passed : p.time \in Nat /\ p.opened \in Nat
    BY DEF RateInv, RateLimitTypeOK
  <2> QED BY <1>1, <2>1 DEF RateInv, Timely, Over, Counting
<1>4. OneWindow' /\ Apart' /\ Filled'
  BY <1>1 DEF RateInv, OneWindow, Apart, Filled, Counting, Ranked
<1>5. Current'
  <2>1. \A c \in Clients : buckets[c].resetAt \in Nat
    BY DEF RateInv, RateLimitTypeOK
  <2> QED BY <1>1, <2>1 DEF RateInv, Current, CurrentFor, Counting
<1>6. Justified'
  BY <1>1 DEF RateInv, Justified, FullFrom
<1> QED BY <1>2, <1>3, <1>4, <1>5, <1>6 DEF RateInv

\* A client whose window is not open has only requests of windows that are over.
LEMMA AllOver ==
  ASSUME RateInv, NEW c \in Clients, ~Open(c), NEW p \in passed, p.client = c
  PROVE  p.opened + Ttl <= clock
<1> USE RateLimitAssumption
<1>1. /\ p.opened \in Nat /\ p.window \in Nat /\ clock \in Nat
      /\ buckets[c].resetAt \in Nat
  BY DEF RateInv, RateLimitTypeOK
<1>2. CASE ~Counting(c)
  BY <1>2 DEF RateInv, Over
<1>3. CASE Counting(c)
  <2>1. buckets[c].resetAt <= clock
    BY <1>1, <1>3 DEF Open, Counting
  <2>2. CurrentFor(c, p)
    BY <1>3 DEF RateInv, Current
  <2> QED BY <1>1, <2>1, <2>2 DEF CurrentFor
<1> QED BY <1>2, <1>3

\* What one request of c does to its bucket and its window.
LEMMA BucketFacts ==
  ASSUME RateInv, NEW c \in Clients
  PROVE  /\ Bucket(c) \in [count : Nat, resetAt : Nat] /\ Bucket(c).count >= 1
         /\ Window(c) \in Nat /\ Window(c) >= windows[c]
         /\ Bucket(c).resetAt > clock /\ Bucket(c).resetAt <= clock + Ttl
         /\ Bucket(c).resetAt >= Ttl
<1> USE RateLimitAssumption
<1>1. /\ clock \in Nat /\ windows[c] \in Nat
      /\ buckets[c] \in [count : Nat, resetAt : Nat]
  BY DEF RateInv, RateLimitTypeOK
<1>2. CASE Open(c)
  <2>1. /\ buckets[c].count \in Nat /\ buckets[c].resetAt \in Nat
        /\ buckets[c].resetAt > clock
    BY <1>1, <1>2 DEF Open
  <2>2. Ttl <= buckets[c].resetAt /\ buckets[c].resetAt <= clock + Ttl
    BY <1>2 DEF Open, RateInv, Current, Counting
  <2>3. /\ Bucket(c) = [count |-> buckets[c].count + 1, resetAt |-> buckets[c].resetAt]
        /\ Window(c) = windows[c]
    BY <1>2 DEF Bucket, Window
  <2> QED BY <1>1, <2>1, <2>2, <2>3
<1>3. CASE ~Open(c)
  <2>1. /\ Bucket(c) = [count |-> 1, resetAt |-> clock + Ttl]
        /\ Window(c) = windows[c] + 1
    BY <1>3 DEF Bucket, Window
  <2> QED BY <1>1, <2>1
<1> QED BY <1>2, <1>3

\* The requests of c before this one, seen from the bucket that counts it.
LEMMA EarlierOnes ==
  ASSUME RateInv, NEW c \in Clients, NEW p \in passed, p.client = c
  PROVE  /\ p.window = Window(c) =>
               p.opened = Bucket(c).resetAt - Ttl /\ p.rank < Bucket(c).count
         /\ p.window # Window(c) =>
               p.window < Window(c) /\ p.opened + Ttl <= Bucket(c).resetAt - Ttl
<1> USE RateLimitAssumption
<1>1. /\ p.opened \in Nat /\ p.window \in Nat /\ p.rank \in Nat /\ clock \in Nat
      /\ windows[c] \in Nat /\ p.window <= windows[c]
      /\ buckets[c].count \in Nat /\ buckets[c].resetAt \in Nat
  BY DEF RateInv, RateLimitTypeOK, Timely
<1>2. CASE Open(c)
  <2>1. CurrentFor(c, p)
    BY <1>2 DEF Open, RateInv, Current, Counting
  <2>2. /\ Bucket(c) = [count |-> buckets[c].count + 1, resetAt |-> buckets[c].resetAt]
        /\ Window(c) = windows[c]
    BY <1>2 DEF Bucket, Window
  <2> QED BY <1>1, <2>1, <2>2 DEF CurrentFor
<1>3. CASE ~Open(c)
  <2>1. p.opened + Ttl <= clock
    BY <1>3, AllOver
  <2>2. /\ Bucket(c) = [count |-> 1, resetAt |-> clock + Ttl]
        /\ Window(c) = windows[c] + 1
    BY <1>3 DEF Bucket, Window
  <2> QED BY <1>1, <2>1, <2>2
<1> QED BY <1>2, <1>3

\* What becomes of each bucket: stored or unchanged, unless it is removed after expiry.
LEMMA BucketsAfter ==
  ASSUME RateInv, NEW c \in Clients, Request(c), NEW d \in Clients
  PROVE  \/ buckets'[d] = IF d = c THEN Bucket(c) ELSE buckets[d]
         \/ d # c /\ buckets'[d] = NoBucket /\ buckets[d].resetAt <= clock
<1> USE RateLimitAssumption
<1>1. Stored(c)[d] = IF d = c THEN Bucket(c) ELSE buckets[d]
  BY DEF Stored, RateInv, RateLimitTypeOK
<1>2. \/ buckets' = Stored(c)
      \/ buckets' = Pruned(Stored(c), c)
  BY DEF Request
<1>3. CASE buckets' = Stored(c)
  BY <1>1, <1>3
<1>4. CASE buckets' = Pruned(Stored(c), c)
  <2>1. buckets'[d] = IF Stored(c)[d].resetAt <= clock THEN NoBucket ELSE Stored(c)[d]
    BY <1>4 DEF Pruned
  <2>2. CASE d = c
    <3>1. Bucket(c).resetAt > clock /\ Bucket(c).resetAt \in Nat /\ clock \in Nat
      BY BucketFacts DEF RateInv, RateLimitTypeOK
    <3> QED BY <1>1, <2>1, <2>2, <3>1
  <2>3. CASE d # c
    BY <1>1, <2>1, <2>3
  <2> QED BY <2>2, <2>3
<1> QED BY <1>2, <1>3, <1>4

LEMMA BucketsStayTyped ==
  ASSUME RateInv, NEW c \in Clients, Request(c)
  PROVE  /\ buckets' \in [Clients -> [count : Nat, resetAt : Nat]]
         /\ windows' \in [Clients -> Nat]
         /\ \A d \in Clients : windows'[d] = IF d = c THEN Window(c) ELSE windows[d]
<1>1. Bucket(c) \in [count : Nat, resetAt : Nat] /\ Window(c) \in Nat
  BY BucketFacts
<1>2. Stored(c) \in [Clients -> [count : Nat, resetAt : Nat]]
  BY <1>1 DEF Stored, RateInv, RateLimitTypeOK
<1>3. Pruned(Stored(c), c) \in [Clients -> [count : Nat, resetAt : Nat]]
  BY <1>2 DEF Pruned, NoBucket
<1>4. buckets' = Stored(c) \/ buckets' = Pruned(Stored(c), c)
  BY DEF Request
<1>5. windows' = [windows EXCEPT ![c] = Window(c)]
  BY DEF Request
<1> QED BY <1>1, <1>2, <1>3, <1>4, <1>5 DEF RateInv, RateLimitTypeOK

\* Current, Over and Filled for a request, whatever becomes of it, if the requests
\* that have passed afterwards are the earlier ones and this one when it passes.
LEMMA OthersKept ==
  ASSUME RateInv, NEW c \in Clients, Request(c), NEW d \in Clients, d # c,
         \A p \in passed' : p.client = d => p \in passed, passed \subseteq passed'
  PROVE  /\ Counting(d)' =>
              /\ Ttl <= buckets'[d].resetAt /\ buckets'[d].resetAt <= clock' + Ttl
              /\ \A p \in passed' : p.client = d => CurrentFor(d, p)'
              /\ \A k \in 1 .. Limit : k <= buckets'[d].count => Ranked(d, windows[d], k)'
         /\ windows'[d] = windows[d]
         /\ ~Counting(d)' => \A p \in passed' : p.client = d => p.opened + Ttl <= clock'
<1> USE RateLimitAssumption
<1>1. clock' = clock /\ windows'[d] = windows[d]
  BY BucketsStayTyped DEF Request
<1>2. CASE buckets'[d] = buckets[d]
  <2>1. Counting(d)' <=> Counting(d)
    BY <1>2 DEF Counting
  <2>2. \A p \in passed' : p.client = d => (CurrentFor(d, p) => CurrentFor(d, p)')
    BY <1>1, <1>2 DEF CurrentFor
  <2>3. \A k : Ranked(d, windows[d], k) => Ranked(d, windows[d], k)'
    BY <1>1 DEF Ranked
  <2> QED BY <1>1, <1>2, <2>1, <2>2, <2>3 DEF RateInv, Current, Over, Filled
<1>3. CASE buckets'[d] = NoBucket /\ buckets[d].resetAt <= clock
  <2>1. ~Counting(d)'
    BY <1>3 DEF Counting, NoBucket
  <2>2. clock \in Nat /\ buckets[d].resetAt \in Nat
    BY DEF RateInv, RateLimitTypeOK
  <2>3. ~Open(d)
    BY <1>3, <2>2 DEF Open
  <2>4. \A p \in passed : p.client = d => p.opened + Ttl <= clock
    BY <2>3, AllOver
  <2> QED BY <1>1, <2>1, <2>4
<1> QED BY <1>2, <1>3, BucketsAfter

LEMMA RefusedStep ==
  ASSUME RateInv, NEW c \in Clients, Request(c), Bucket(c).count > Limit
  PROVE  RateInv'
<1> USE RateLimitAssumption
<1> DEFINE r == [client |-> c, time |-> clock]
<1>1. /\ passed' = passed /\ refused' = refused \cup {r} /\ clock' = clock
      /\ arrivals' = arrivals + 1
  BY DEF Request
<1>2. clock \in Nat /\ arrivals \in Nat
  BY DEF RateInv, RateLimitTypeOK
<1>3. Open(c)
  <2>1. ~Open(c) => Bucket(c).count = 1
    BY DEF Bucket
  <2> QED BY <2>1
<1>4. /\ Window(c) = windows[c] /\ Bucket(c).count = buckets[c].count + 1
      /\ Bucket(c).resetAt = buckets[c].resetAt
  BY <1>3 DEF Window, Bucket
<1>5. buckets'[c] = Bucket(c)
  BY BucketsAfter
<1>6. buckets[c].count \in Nat /\ buckets[c].resetAt \in Nat /\ buckets[c].count >= Limit
  BY <1>4 DEF RateInv, RateLimitTypeOK
<1>7. Counting(c) /\ Counting(c)'
  BY <1>3, <1>4, <1>5, <1>6 DEF Open, Counting
<1>8. windows' = windows
  BY <1>4 DEF Request, RateInv, RateLimitTypeOK
<1>9. RateLimitTypeOK' /\ IsFiniteSet(passed)'
  <2>1. r \in [client : Clients, time : 0 .. clock]
    BY <1>2
  <2> HIDE DEF r
  <2>2. refused' \in SUBSET [client : Clients, time : 0 .. clock']
    BY <1>1, <2>1 DEF RateInv, RateLimitTypeOK
  <2> QED BY <1>1, <1>2, <2>2, BucketsStayTyped DEF RateInv, RateLimitTypeOK
<1>10. Timely' /\ OneWindow' /\ Apart'
  BY <1>1, <1>8 DEF RateInv, Timely, OneWindow, Apart
<1>11. ASSUME NEW p \in passed, p.client = c PROVE CurrentFor(c, p)'
  <2>1. CurrentFor(c, p)
    BY <1>7, <1>11 DEF RateInv, Current
  <2>2. p.rank \in Nat
    BY DEF RateInv, RateLimitTypeOK
  <2> QED BY <1>4, <1>5, <1>6, <1>8, <2>1, <2>2 DEF CurrentFor
<1>12. \A k \in 1 .. Limit : Ranked(c, windows[c], k)
  BY <1>6, <1>7 DEF RateInv, Filled
<1>13. ASSUME NEW d \in Clients, d # c
       PROVE  /\ Counting(d)' =>
                   /\ Ttl <= buckets'[d].resetAt /\ buckets'[d].resetAt <= clock' + Ttl
                   /\ \A p \in passed' : p.client = d => CurrentFor(d, p)'
                   /\ \A k \in 1 .. Limit :
                        k <= buckets'[d].count => Ranked(d, windows[d], k)'
              /\ ~Counting(d)' => \A p \in passed' : p.client = d => p.opened + Ttl <= clock'
  BY <1>1, <1>13, OthersKept
<1>14. Current'
  <2>1. Ttl <= buckets'[c].resetAt /\ buckets'[c].resetAt <= clock' + Ttl
    BY <1>1, <1>5, BucketFacts
  <2> QED BY <1>1, <1>11, <1>13, <2>1 DEF Current
<1>15. Over'
  <2>1. \A p \in passed : p.client \in Clients
    BY DEF RateInv, RateLimitTypeOK
  <2> QED BY <1>1, <1>7, <1>13, <2>1 DEF Over
<1>16. Filled'
  <2>1. \A k : Ranked(c, windows[c], k)' <=> Ranked(c, windows[c], k)
    BY <1>1, <1>8 DEF Ranked
  <2>2. ASSUME NEW d \in Clients, Counting(d)', NEW k \in 1 .. Limit, k <= buckets'[d].count
        PROVE  Ranked(d, windows[d], k)'
    BY <1>12, <1>13, <2>1, <2>2
  <2> QED BY <2>2 DEF Filled
<1>17. Justified'
  <2> DEFINE from == buckets[c].resetAt - Ttl
  <2>1. Ttl <= buckets[c].resetAt /\ buckets[c].resetAt <= clock + Ttl
    BY <1>7 DEF RateInv, Current
  <2>2. buckets[c].resetAt > clock
    BY <1>3 DEF Open
  <2>3. from \in 0 .. clock /\ from <= clock /\ clock < from + Ttl
    BY <1>2, <1>6, <2>1, <2>2
  <2>4. FullFrom(c, from)
    <3>1. \A p \in passed : p.client = c /\ p.window = windows[c] => p.opened = from
      BY <1>7 DEF RateInv, Current, CurrentFor
    <3> QED BY <1>12, <3>1 DEF FullFrom, Ranked
  <2> HIDE DEF from
  <2>5. \A d, t : FullFrom(d, t)' <=> FullFrom(d, t)
    BY <1>1 DEF FullFrom
  <2>6. \A q \in refused : \E t \in 0 .. clock :
          t <= q.time /\ q.time < t + Ttl /\ FullFrom(q.client, t)
    BY DEF RateInv, Justified
  <2>7. r.client = c /\ r.time = clock
    OBVIOUS
  <2> HIDE DEF r
  <2>8. \A q \in refused' : \E t \in 0 .. clock :
          t <= q.time /\ q.time < t + Ttl /\ FullFrom(q.client, t)
    BY <1>1, <2>3, <2>4, <2>6, <2>7
  <2> QED BY <1>1, <2>5, <2>8 DEF Justified
<1> QED BY <1>9, <1>10, <1>14, <1>15, <1>16, <1>17 DEF RateInv

LEMMA PassedStep ==
  ASSUME RateInv, NEW c \in Clients, Request(c), ~(Bucket(c).count > Limit)
  PROVE  RateInv'
<1> USE RateLimitAssumption
<1> DEFINE w == Window(c)
           n == Bucket(c).count
           o == Bucket(c).resetAt - Ttl
           new == [client |-> c, time |-> clock, window |-> w, opened |-> o, rank |-> n]
<1>1. /\ passed' = passed \cup {new} /\ refused' = refused /\ clock' = clock
      /\ arrivals' = arrivals + 1
  BY DEF Request
<1>2. /\ clock \in Nat /\ arrivals \in Nat /\ w \in Nat /\ n \in 1 .. Limit
      /\ o \in 0 .. clock /\ clock < o + Ttl /\ Bucket(c).resetAt = o + Ttl
      /\ Ttl <= Bucket(c).resetAt /\ Bucket(c).resetAt <= clock + Ttl
  <2>1. clock \in Nat /\ arrivals \in Nat
    BY DEF RateInv, RateLimitTypeOK
  <2>2. Bucket(c).count \in Nat /\ Bucket(c).resetAt \in Nat /\ Bucket(c).count >= 1
    BY BucketFacts
  <2> QED BY <2>1, <2>2, BucketFacts
<1>3. buckets'[c] = Bucket(c) /\ Counting(c)' /\ windows'[c] = w
  <2>1. buckets'[c] = Bucket(c) /\ windows'[c] = w
    BY BucketsAfter, BucketsStayTyped
  <2> QED BY <1>2, <2>1 DEF Counting
<1>4. \A p \in passed : p.client = c =>
        /\ p.window = w => p.opened = o /\ p.rank < n
        /\ p.window # w => p.window < w /\ p.opened + Ttl <= o
  BY EarlierOnes
<1>5. \A p \in passed :
        /\ p.client \in Clients /\ p.time \in Nat /\ p.window \in Nat
        /\ p.opened \in Nat /\ p.rank \in Nat
  BY DEF RateInv, RateLimitTypeOK
<1>6. /\ new.client = c /\ new.time = clock /\ new.window = w
      /\ new.opened = o /\ new.rank = n
  OBVIOUS
<1>7. new \in [client : Clients, time : 0 .. clock, window : Nat,
              opened : 0 .. clock, rank : 1 .. Limit]
  BY <1>2
<1> HIDE DEF new, w, n, o
<1>8. RateLimitTypeOK' /\ IsFiniteSet(passed)'
  <2>1. IsFiniteSet(passed \cup {new})
    BY FS_AddElement DEF RateInv
  <2>2. passed' \in SUBSET [client : Clients, time : 0 .. clock', window : Nat,
                           opened : 0 .. clock', rank : 1 .. Limit]
    BY <1>1, <1>7 DEF RateInv, RateLimitTypeOK
  <2> QED BY <1>1, <1>2, <2>1, <2>2, BucketsStayTyped DEF RateInv, RateLimitTypeOK
<1>9. Timely'
  <2>1. \A d \in Clients : windows'[d] >= windows[d]
    <3>1. \A d \in Clients : windows[d] \in Nat
      BY DEF RateInv, RateLimitTypeOK
    <3> QED BY <3>1, BucketsStayTyped, BucketFacts
  <2>2. \A d \in Clients : windows[d] \in Nat /\ windows'[d] \in Nat
    BY BucketsStayTyped DEF RateInv, RateLimitTypeOK
  <2>3. ASSUME NEW p \in passed
        PROVE  /\ p.opened <= p.time /\ p.time < p.opened + Ttl /\ p.time <= clock
               /\ p.window <= windows'[p.client]
    BY <1>5, <2>1, <2>2 DEF RateInv, Timely
  <2>4. /\ new.opened <= new.time /\ new.time < new.opened + Ttl /\ new.time <= clock
        /\ new.window <= windows'[new.client]
    BY <1>2, <1>3, <1>6
  <2> QED BY <1>1, <2>3, <2>4 DEF Timely
<1>10. OneWindow'
  <2>1. \A p \in passed : p.client = c /\ p.window = w => p.opened = o /\ p.rank # n
    BY <1>2, <1>4, <1>5
  <2> QED BY <1>1, <1>6, <2>1 DEF RateInv, OneWindow
<1>11. Apart'
  <2>1. \A p \in passed : p.client = c => ~(w < p.window)
    BY <1>2, <1>4, <1>5
  <2>2. \A p \in passed : p.client = c /\ p.window < w => p.opened + Ttl <= o
    BY <1>2, <1>4, <1>5
  <2>3. ~(w < w)
    BY <1>2
  <2> QED BY <1>1, <1>6, <2>1, <2>2, <2>3 DEF RateInv, Apart
<1>12. ASSUME NEW d \in Clients, d # c
       PROVE  /\ Counting(d)' =>
                   /\ Ttl <= buckets'[d].resetAt /\ buckets'[d].resetAt <= clock' + Ttl
                   /\ \A p \in passed' : p.client = d => CurrentFor(d, p)'
                   /\ \A k \in 1 .. Limit :
                        k <= buckets'[d].count => Ranked(d, windows[d], k)'
              /\ ~Counting(d)' => \A p \in passed' : p.client = d => p.opened + Ttl <= clock'
  <2>1. \A p \in passed' : p.client = d => p \in passed
    BY <1>1, <1>6, <1>12
  <2>2. passed \subseteq passed'
    BY <1>1
  <2> QED BY <1>12, <2>1, <2>2, OthersKept
<1>13. Current'
  <2>1. ASSUME NEW p \in passed', p.client = c PROVE CurrentFor(c, p)'
    <3>1. p \in passed \/ p = new
      BY <1>1
    <3>2. /\ p.window = w => p.opened = o /\ p.rank <= n
          /\ p.window # w => p.opened + Ttl <= o
      BY <1>2, <1>4, <1>5, <1>6, <2>1, <3>1
    <3>3. o = buckets'[c].resetAt - Ttl /\ n = buckets'[c].count
      BY <1>3 DEF o, n
    <3> QED BY <1>3, <3>2, <3>3 DEF CurrentFor
  <2> QED BY <1>1, <1>2, <1>3, <1>12, <2>1 DEF Current
<1>14. Over'
  <2>1. \A p \in passed' : p.client \in Clients
    BY <1>1, <1>5, <1>6
  <2> QED BY <1>3, <1>12, <2>1 DEF Over
<1>15. Filled'
  <2>1. ASSUME NEW k \in 1 .. Limit, k <= n PROVE Ranked(c, windows[c], k)'
    <3>1. CASE k = n
      BY <1>1, <1>3, <1>6, <3>1 DEF Ranked
    <3>2. CASE k # n
      <4>1. k <= n - 1 /\ n # 1
        BY <1>2, <2>1, <3>2
      <4>2. Open(c)
        BY <4>1 DEF n, Bucket
      <4>3. /\ w = windows[c] /\ n = buckets[c].count + 1 /\ buckets[c].count \in Nat
            /\ Counting(c)
        BY <4>2 DEF Open, Window, Bucket, Counting, w, n, RateInv, RateLimitTypeOK
      <4>4. Ranked(c, windows[c], k)
        BY <2>1, <4>1, <4>3 DEF RateInv, Filled
      <4> QED BY <1>1, <1>3, <4>3, <4>4 DEF Ranked
    <3> QED BY <3>1, <3>2
  <2>2. n = buckets'[c].count
    BY <1>3 DEF n
  <2> QED BY <1>12, <2>1, <2>2 DEF Filled
<1>16. Justified'
  <2>1. \A d, t : FullFrom(d, t) => FullFrom(d, t)'
    BY <1>1 DEF FullFrom
  <2> QED BY <1>1, <2>1 DEF RateInv, Justified
<1> QED BY <1>8, <1>9, <1>10, <1>11, <1>13, <1>14, <1>15, <1>16 DEF RateInv

LEMMA Preserved == RateInv /\ [RateLimitNext]_rateVars => RateInv'
<1> SUFFICES ASSUME RateInv, [RateLimitNext]_rateVars PROVE RateInv'
  OBVIOUS
<1>1. CASE UNCHANGED rateVars
  BY <1>1 DEF rateVars, RateInv, RateLimitTypeOK, Timely, OneWindow, Apart, Current,
              CurrentFor, Over, Filled, Ranked, Justified, FullFrom, Counting
<1>2. CASE Tick
  BY <1>2, TickStep
<1>3. ASSUME NEW c \in Clients, Request(c) PROVE RateInv'
  BY <1>3, PassedStep, RefusedStep
<1> QED BY <1>1, <1>2, <1>3 DEF RateLimitNext

-----------------------------------------------------------------------------
\* The inductive invariant, for any number of clients, limit and window.
THEOREM RateLimitInvariance == RateLimitSpec => []RateInv
BY Initially, Preserved, PTL DEF RateLimitSpec

\* Whatever the order of requests, refusals and the removal of old buckets: at most
\* twice the limit passes in a stretch as long as a window, and a refusal follows a
\* full limit in such a stretch.
THEOREM LimitIsHonoured == RateLimitSpec => []LimitHonoured
BY Honoured, RateLimitInvariance, PTL

-----------------------------------------------------------------------------
(***************************************************************************)
(* Keyed requests.  An answer that was stored is still there unless the    *)
(* record lapsed; so whoever looked after it and went on saw a lapse.      *)
(***************************************************************************)
KeptUnlessLapsed ==
  /\ record = "expired" => lapses > 0
  /\ stores > 0 => record = "valid" \/ lapses > 0

LookedPast == \A r \in KeyRequests : keyed[r].seen > 0 => keyed[r].stale

KeyInv == IdempotencyTypeOK /\ KeptUnlessLapsed /\ LookedPast /\ RepeatsExplained

\* The invariant the property rests on: look-ups, executions, stores and lapses
\* of any number of requests keep it.
THEOREM KeyInvariance == IdempotencySpec => []KeyInv
<1>1. IdempotencyInit => KeyInv
  BY DEF IdempotencyInit, KeyInv, IdempotencyTypeOK, KeptUnlessLapsed, LookedPast,
         RepeatsExplained, Unkeyed, Services
<1>2. KeyInv /\ [IdempotencyNext]_keyVars => KeyInv'
  <2> SUFFICES ASSUME KeyInv, [IdempotencyNext]_keyVars PROVE KeyInv'
    OBVIOUS
  <2> USE DEF KeyInv, IdempotencyTypeOK, KeptUnlessLapsed, LookedPast, RepeatsExplained,
              Unkeyed, Keyed, KeyedTo, Reply, Services
  <2>1. ASSUME NEW r \in KeyRequests, FindCached(r) PROVE KeyInv'
    <3>1. CASE record = "valid"
      BY <2>1, <3>1 DEF FindCached
    <3>2. CASE record # "valid"
      <4> DEFINE looked == [pc |-> IF record = "expired" /\ service = "workspace"
                                     THEN "delete" ELSE "execute",
                            seen |-> stores, stale |-> lapses > 0]
      <4>1. keyed' = [keyed EXCEPT ![r] = looked] /\ keyCalls' = keyCalls + 1
            /\ UNCHANGED <<service, record, executions, stores, lapses>>
        BY <2>1, <3>2 DEF FindCached
      <4>2. looked \in [pc : {"none", "delete", "execute", "store"}, seen : Nat, stale : BOOLEAN]
            /\ (looked.seen > 0 => looked.stale)
        <5>1. (lapses > 0) \in BOOLEAN /\ stores \in Nat
          OBVIOUS
        <5>2. (IF record = "expired" /\ service = "workspace" THEN "delete" ELSE "execute")
                \in {"none", "delete", "execute", "store"}
          OBVIOUS
        <5>3. stores > 0 => lapses > 0
          BY <3>2
        <5>. QED  BY <5>1, <5>2, <5>3, Zenon
      <4> HIDE DEF looked
      <4>. QED  BY <4>1, <4>2
    <3>. QED  BY <3>1, <3>2
  <2>2. ASSUME NEW r \in KeyRequests, Execute(r) PROVE KeyInv'
    BY <2>2 DEF Execute
  <2>3. ASSUME NEW r \in KeyRequests, StoreAnswer(r) PROVE KeyInv'
    BY <2>3 DEF StoreAnswer
  <2>4. ASSUME NEW r \in KeyRequests, KeyedRequestFails(r) PROVE KeyInv'
    BY <2>4 DEF KeyedRequestFails
  <2>5. ASSUME NEW r \in KeyRequests, NEW done \in BOOLEAN, DeleteExpired(r, done)
        PROVE  KeyInv'
    BY <2>5 DEF DeleteExpired
  <2>6. CASE RecordExpires
    BY <2>6 DEF RecordExpires
  <2>7. CASE UNCHANGED keyVars
    BY <2>7 DEF keyVars
  <2>. QED  BY <2>1, <2>2, <2>3, <2>4, <2>5, <2>6, <2>7 DEF IdempotencyNext
<1>. QED  BY <1>1, <1>2, PTL DEF IdempotencySpec

\* A request with a key runs again only after its record lapsed or when nothing
\* was stored as it looked, for any number of overlapping requests.
THEOREM RepeatsAreExplained == IdempotencySpec => []RepeatsExplained
<1>1. KeyInv => RepeatsExplained
  BY DEF KeyInv
<1>. QED  BY KeyInvariance, <1>1, PTL

-----------------------------------------------------------------------------
(***************************************************************************)
(* The unread count.  What a handler that will archive without clearing    *)
(* the count has found is read and stays so: nothing becomes unread again. *)
(***************************************************************************)
Quiet(h) == h.pc = "save_archived_read" => \A n \in h.ids : status[n] \in {"read", "archived"}
QuietlyRead == \A r \in InboxRequests : Quiet(handling[r])

Pending(h) == h.pc \in {"invalidate", "invalidate_emit"}

InboxInv == InboxTypeOK /\ QuietlyRead /\ CountExplained

LEMMA UnreadCounted == Cardinality(Unread) \in Nat
<1>1. Unread \subseteq Notifications
  BY DEF Unread
<1>. QED  BY <1>1, InboxAssumption, FS_Subset, FS_CardinalityType

\* What a handler begins with.
Begun(pc, ids) == [NoHandling EXCEPT !.pc = pc, !.ids = ids]

LEMMA BegunHandling ==
  ASSUME NEW pc \in {"save_read", "save_archived", "save_archived_read", "invalidate_emit",
                     "resolve"}, NEW ids \in SUBSET Notifications
  PROVE  Begun(pc, ids) \in Handling /\ Begun(pc, ids).pc = pc /\ Begun(pc, ids).ids = ids
BY DEF Begun, NoHandling, Handling

\* One handler goes on to h, and nothing becomes unread but what was not there.
LEMMA HandlingMoves ==
  ASSUME InboxInv, NEW r \in InboxRequests, NEW h \in Handling,
         handling' = [handling EXCEPT ![r] = h],
         status' \in [Notifications -> {"none", "unread", "read", "archived"}],
         \A n \in Notifications : status[n] \in {"read", "archived"}
                                     => status'[n] \in {"read", "archived"},
         unreadCount' \in Nat \cup {NotCached}, inboxCalls' \in Nat, overtaken' \in BOOLEAN,
         h.pc = "save_archived_read" => \A n \in h.ids : status'[n] \in {"read", "archived"}
  PROVE  /\ InboxTypeOK' /\ QuietlyRead'
         /\ handling'[r] = h
         /\ \A q \in InboxRequests \ {r} : handling'[q] = handling[q]
<1>1. handling \in [InboxRequests -> Handling]
  BY DEF InboxInv, InboxTypeOK
<1>2. handling' \in [InboxRequests -> Handling]
  BY <1>1
<1>3. \A q \in InboxRequests : handling'[q] = IF q = r THEN h ELSE handling[q]
  BY <1>1
<1>4. InboxTypeOK'
  BY <1>2 DEF InboxTypeOK
<1>5. \A q \in InboxRequests : handling[q].ids \subseteq Notifications
  BY <1>1 DEF Handling
<1>6. QuietlyRead'
  BY <1>3, <1>5 DEF QuietlyRead, Quiet, InboxInv
<1>. QED  BY <1>3, <1>4, <1>6

\* The count stays as good as it was while nothing is saved.
LEMMA CountStays ==
  ASSUME CountExplained, NEW r \in InboxRequests, ~Pending(handling[r]),
         \A q \in InboxRequests \ {r} : handling'[q] = handling[q],
         UNCHANGED unreadCount, Unread' = Unread, overtaken => overtaken'
  PROVE  CountExplained'
BY Zenon DEF CountExplained, Pending

\* The invariant the property rests on: handlers of any number of requests keep it.
THEOREM InboxInvariance == InboxSpec => []InboxInv
<1>1. InboxInit => InboxInv
  <2>1. NoHandling \in Handling /\ NoHandling.pc = "none"
    BY DEF NoHandling, Handling
  <2>2. InboxInit => InboxTypeOK
    <3> SUFFICES ASSUME InboxInit PROVE InboxTypeOK
      OBVIOUS
    <3>1. handling \in [InboxRequests -> Handling]
      BY <2>1 DEF InboxInit
    <3>2. status \in [Notifications -> {"none", "unread", "read", "archived"}]
      BY DEF InboxInit
    <3>. QED  BY <3>1, <3>2 DEF InboxInit, InboxTypeOK
  <2>. QED  BY <2>1, <2>2 DEF InboxInit, InboxInv, QuietlyRead, Quiet, CountExplained
<1>2. InboxInv /\ [InboxNext]_inboxVars => InboxInv'
  <2> SUFFICES ASSUME InboxInv, [InboxNext]_inboxVars PROVE InboxInv'
    OBVIOUS
  <2>0. /\ InboxTypeOK /\ CountExplained
        /\ handling \in [InboxRequests -> Handling]
        /\ status \in [Notifications -> {"none", "unread", "read", "archived"}]
        /\ unreadCount \in Nat \cup {NotCached} /\ inboxCalls \in Nat /\ overtaken \in BOOLEAN
    BY DEF InboxInv, InboxTypeOK
  <2>a. \A q \in InboxRequests : Quiet(handling[q])
    BY DEF InboxInv, QuietlyRead
  <2>b. status' = status => Unread' = Unread
    BY DEF Unread
  <2>1. ASSUME NEW r \in InboxRequests, NEW n \in Notifications, CreateForEvent(r, n)
        PROVE  InboxInv'
    <3>0. handling' = [handling EXCEPT ![r] = Begun("invalidate_emit", {n})]
      BY <2>1 DEF CreateForEvent, Handle, Begun
    <3>1. PICK h \in Handling : /\ h.pc = "invalidate_emit"
                              /\ handling' = [handling EXCEPT ![r] = h]
      <4>1. /\ Begun("invalidate_emit", {n}) \in Handling
            /\ Begun("invalidate_emit", {n}).pc = "invalidate_emit"
        BY BegunHandling
      <4>. QED  BY <3>0, <4>1, Zenon
    <3>2. /\ status' \in [Notifications -> {"none", "unread", "read", "archived"}]
          /\ \A m \in Notifications : status[m] \in {"read", "archived"}
                                        => status'[m] \in {"read", "archived"}
          /\ inboxCalls' \in Nat /\ UNCHANGED <<unreadCount, overtaken>>
      BY <2>1, <2>0 DEF CreateForEvent, Handle, SetStatus
    <3>3. InboxTypeOK' /\ QuietlyRead' /\ handling'[r] = h
      BY <3>1, <3>2, <2>0, HandlingMoves
    <3>. QED  BY <3>1, <3>3 DEF InboxInv, CountExplained
  <2>2. ASSUME NEW r \in InboxRequests, NEW pc \in {"save_read", "save_archived",
                 "save_archived_read", "resolve"}, NEW ids \in SUBSET Notifications,
               Handle(r, pc, ids), UNCHANGED <<status, unreadCount, overtaken>>,
               pc = "save_archived_read" => \A n \in ids : status[n] \in {"read", "archived"}
        PROVE  InboxInv'
    <3>0. handling' = [handling EXCEPT ![r] = Begun(pc, ids)]
      BY <2>2 DEF Handle, Begun
    <3>1. PICK h \in Handling : /\ h.pc = pc /\ h.ids = ids
                              /\ handling' = [handling EXCEPT ![r] = h]
      <4>1. /\ Begun(pc, ids) \in Handling
            /\ Begun(pc, ids).pc = pc /\ Begun(pc, ids).ids = ids
        BY BegunHandling
      <4>. QED  BY <3>0, <4>1, Zenon
    <3>2. /\ InboxTypeOK' /\ QuietlyRead'
          /\ \A q \in InboxRequests \ {r} : handling'[q] = handling[q]
      <4>1. inboxCalls' \in Nat /\ UNCHANGED <<status, unreadCount, overtaken>>
        BY <2>2, <2>0 DEF Handle
      <4>. QED  BY <2>2, <3>1, <4>1, <2>0, HandlingMoves
    <3>3. ~Pending(handling[r])
      BY <2>2 DEF Handle, InStep, Pending
    <3>. QED  BY <3>2, <3>3, <2>2, <2>0, <2>b, CountStays DEF InboxInv
  <2>3. ASSUME NEW r \in InboxRequests, NEW n \in Notifications, FindToMark(r, n)
        PROVE  InboxInv'
    BY <2>3, <2>2 DEF FindToMark
  <2>4. ASSUME NEW r \in InboxRequests, NEW n \in Notifications, FindToArchive(r, n)
        PROVE  InboxInv'
    BY <2>4, <2>2 DEF FindToArchive, Unread
  <2>5. ASSUME NEW r \in InboxRequests, FindUnread(r) PROVE InboxInv'
    BY <2>5, <2>2 DEF FindUnread, Unread
  <2>6. ASSUME NEW r \in InboxRequests, GetNotifications(r) PROVE InboxInv'
    BY <2>6, <2>2 DEF GetNotifications
  <2>7. ASSUME NEW r \in InboxRequests, NEW s \in {"read", "archived"},
               SetStatus(handling[r].ids, s), NextStep(r, "invalidate"),
               UNCHANGED <<unreadCount, inboxCalls, overtaken>>
        PROVE  InboxInv'
    <3> DEFINE h == [handling[r] EXCEPT !.pc = "invalidate"]
    <3>1. h \in Handling /\ handling' = [handling EXCEPT ![r] = h] /\ h.pc = "invalidate"
      BY <2>7, <2>0 DEF NextStep, Handling
    <3> HIDE DEF h
    <3>2. InboxTypeOK' /\ QuietlyRead' /\ handling'[r] = h
      BY <2>7, <3>1, <2>0, HandlingMoves DEF SetStatus
    <3>. QED  BY <3>1, <3>2 DEF InboxInv, CountExplained
  <2>8. ASSUME NEW r \in InboxRequests, SaveRead(r) PROVE InboxInv'
    BY <2>8, <2>7 DEF SaveRead
  <2>9. ASSUME NEW r \in InboxRequests, NEW h \in Handling, h.pc \in {"none", "resolve", "store"},
               handling' = [handling EXCEPT ![r] = h], UNCHANGED <<status, inboxCalls>>,
               unreadCount' \in Nat \cup {NotCached}, overtaken' \in BOOLEAN,
               \/ unreadCount' = NotCached \/ unreadCount' = Cardinality(Unread) \/ overtaken'
               \/ ~Pending(handling[r]) /\ UNCHANGED unreadCount /\ (overtaken => overtaken')
        PROVE  InboxInv'
    <3>2. /\ InboxTypeOK' /\ QuietlyRead'
          /\ \A q \in InboxRequests \ {r} : handling'[q] = handling[q]
      BY <2>9, <2>0, HandlingMoves
    <3>3. CASE \/ unreadCount' = NotCached \/ unreadCount' = Cardinality(Unread) \/ overtaken'
      BY <3>2, <3>3, <2>9, <2>b DEF InboxInv, CountExplained
    <3>4. CASE ~Pending(handling[r]) /\ UNCHANGED unreadCount /\ (overtaken => overtaken')
      BY <3>2, <3>4, <2>9, <2>0, <2>b, CountStays DEF InboxInv
    <3>. QED  BY <2>9, <3>3, <3>4
  <2>10. NoHandling \in Handling /\ NoHandling.pc = "none"
    BY DEF NoHandling, Handling
  <2>11. ASSUME NEW r \in InboxRequests, SaveArchived(r) PROVE InboxInv'
    <3>1. CASE InStep(r, "save_archived")
      BY <2>11, <3>1, <2>7 DEF SaveArchived
    <3>2. CASE InStep(r, "save_archived_read")
      <4>1. /\ SetStatus(handling[r].ids, "archived") /\ Answer(r)
            /\ UNCHANGED <<unreadCount, inboxCalls, overtaken>>
        BY <2>11, <3>2 DEF SaveArchived, InStep
      <4>2. /\ InboxTypeOK' /\ QuietlyRead'
            /\ \A q \in InboxRequests \ {r} : handling'[q] = handling[q]
        BY <4>1, <2>0, <2>10, HandlingMoves DEF SetStatus, Answer, Quiet, NoHandling
      <4>3. Unread' = Unread
        BY <4>1, <3>2, <2>a, <2>0 DEF SetStatus, Unread, InStep, Quiet
      <4>4. ~Pending(handling[r])
        BY <3>2 DEF InStep, Pending
      <4>. QED  BY <4>1, <4>2, <4>3, <4>4, <2>0, CountStays DEF InboxInv
    <3>. QED  BY <2>11, <3>1, <3>2 DEF SaveArchived, InStep
  <2>12. ASSUME NEW r \in InboxRequests, NEW pc \in {"resolve", "store"}, NEW k \in Nat
         PROVE  LET h == [handling[r] EXCEPT !.pc = pc, !.count = k]
                    g == [handling[r] EXCEPT !.pc = pc] IN
                h \in Handling /\ h.pc = pc /\ g \in Handling /\ g.pc = pc
    BY <2>0 DEF Handling
  <2>13. ASSUME NEW r \in InboxRequests, NEW done \in BOOLEAN, InvalidateUnreadCount(r, done)
        PROVE  InboxInv'
    <3>1. \/ unreadCount' = NotCached \/ overtaken'
      BY <2>13 DEF InvalidateUnreadCount
    <3>2. unreadCount' \in Nat \cup {NotCached} /\ overtaken' \in BOOLEAN
          /\ UNCHANGED <<status, inboxCalls>>
      BY <2>13, <2>0 DEF InvalidateUnreadCount
    <3>3. CASE InStep(r, "invalidate")
      BY <2>13, <3>1, <3>2, <3>3, <2>9, <2>10 DEF InvalidateUnreadCount, Answer
    <3>4. CASE ~InStep(r, "invalidate")
      <4>1. handling' = [handling EXCEPT ![r] = [handling[r] EXCEPT !.pc = "resolve"]]
        BY <2>13, <3>4, <2>0 DEF InvalidateUnreadCount, NextStep
      <4>. QED  BY <4>1, <3>1, <3>2, <2>9, <2>12
    <3>. QED  BY <3>3, <3>4
  <2>14. ASSUME NEW r \in InboxRequests, ResolveUnreadCount(r) PROVE InboxInv'
    <3>1. UNCHANGED <<status, unreadCount, inboxCalls, overtaken>> /\ ~Pending(handling[r])
      BY <2>14 DEF ResolveUnreadCount, InStep, Pending
    <3>2. CASE unreadCount # NotCached
      BY <2>14, <3>1, <3>2, <2>0, <2>9, <2>10 DEF ResolveUnreadCount, Answer
    <3>3. CASE unreadCount = NotCached
      <4>1. handling' = [handling EXCEPT ![r] =
                          [handling[r] EXCEPT !.pc = "store", !.count = Cardinality(Unread)]]
        BY <2>14, <3>3, <2>0 DEF ResolveUnreadCount
      <4>. QED  BY <4>1, <3>1, <2>0, <2>9, <2>12, UnreadCounted
    <3>. QED  BY <3>2, <3>3
  <2>15. ASSUME NEW r \in InboxRequests, SetUnreadCount(r) PROVE InboxInv'
    <3>1. unreadCount' \in Nat /\ (unreadCount' = Cardinality(Unread) \/ overtaken')
          /\ overtaken' \in BOOLEAN
      BY <2>15, <2>0 DEF SetUnreadCount, Handling
    <3>. QED  BY <2>15, <3>1, <2>9, <2>10 DEF SetUnreadCount, Answer
  <2>16. ASSUME NEW r \in InboxRequests, HandlingStops(r) PROVE InboxInv'
    <3> DEFINE missed == Pending(handling[r]) /\ unreadCount # NotCached
    <3>1. overtaken' = (overtaken \/ missed)
      BY <2>16 DEF HandlingStops, Pending
    <3>2. /\ overtaken' \in BOOLEAN /\ (overtaken => overtaken')
          /\ Pending(handling[r]) => unreadCount = NotCached \/ overtaken'
      <4>1. missed \in BOOLEAN
        BY DEF Pending
      <4>. QED  BY <3>1, <4>1, <2>0, Zenon
    <3>. QED  BY <2>16, <3>2, <2>0, <2>9, <2>10 DEF HandlingStops, Answer
  <2>17. ASSUME NEW n \in Notifications, CreateBroadcast(n) PROVE InboxInv'
    BY <2>17, <2>0, <2>a DEF CreateBroadcast, SetStatus, InboxInv, InboxTypeOK, QuietlyRead,
       Quiet, CountExplained, Handling
  <2>18. CASE UnreadCountExpires
    BY <2>18 DEF UnreadCountExpires, InboxInv, InboxTypeOK, QuietlyRead, Quiet, CountExplained
  <2>19. CASE UNCHANGED inboxVars
    BY <2>19, <2>b DEF inboxVars, InboxInv, InboxTypeOK, QuietlyRead, Quiet, CountExplained
  <2>. QED
    BY <2>1, <2>3, <2>4, <2>5, <2>6, <2>8, <2>11, <2>13, <2>14, <2>15, <2>16, <2>17, <2>18,
       <2>19 DEF InboxNext
<1>. QED  BY <1>1, <1>2, PTL DEF InboxSpec

\* The unread count that is cached is the number of unread notifications, or a
\* handler that changes them has still to clear it, or one was overtaken.
THEOREM CountIsExplained == InboxSpec => []CountExplained
<1>1. InboxInv => CountExplained
  BY DEF InboxInv
<1>. QED  BY <1>1, InboxInvariance, PTL

-----------------------------------------------------------------------------
(***************************************************************************)
(* The streams of a recipient.  What is in transit to a pod was published, *)
(* and a notification that was published is in transit to a pod, was told  *)
(* to its streams, or came while the pod did not listen.                   *)
(***************************************************************************)
TransitPublished ==
  \A p \in StreamPods : \A n \in inTransit[p] : emission[n].pc = "published"

RealtimeInv == RealtimeTypeOK /\ TransitPublished /\ StreamsExplained

\* What stream s, open at pod p, may still lack of notification n.
Explained(s, n) ==
  \/ n \in seen[s] \/ s \in told
  \/ emission[n].pc = "stored" \/ n \in inTransit[streams[s]]
  \/ KeptFrom(streams[s], n)

LEMMA AlertTypes ==
  ASSUME RealtimeInv
  PROVE  /\ StoredAlerts \subseteq Alerts
         /\ \A p \in StreamPods : inTransit[p] \subseteq StoredAlerts
                                  /\ unheard[p] \subseteq StoredAlerts
         /\ \A s \in Streams : seen[s] \subseteq StoredAlerts
         /\ \A s \in Streams, n \in StoredAlerts : streams[s] # Shut => Explained(s, n)
BY DEF RealtimeInv, RealtimeTypeOK, StreamsExplained, Explained, StoredAlerts

\* A step that neither opens a stream nor lets a browser forget what it was told, and
\* under which each notification stays explained.
LEMMA StreamsStay ==
  ASSUME RealtimeInv, RealtimeTypeOK', TransitPublished',
         \A s \in Streams, n \in StoredAlerts' :
           streams'[s] # Shut => Explained(s, n)'
  PROVE  RealtimeInv'
BY DEF RealtimeInv, StreamsExplained, Explained

\* The invariant the property rests on.
THEOREM RealtimeInvariance == RealtimeSpec => []RealtimeInv
<1>1. RealtimeInit => RealtimeInv
  BY RealtimeAssumption DEF RealtimeInit, RealtimeInv, RealtimeTypeOK, TransitPublished,
     StreamsExplained, StoredAlerts, Alerts, Emission
<1>2. RealtimeInv /\ [RealtimeNext]_realtimeVars => RealtimeInv'
  <2> SUFFICES ASSUME RealtimeInv, [RealtimeNext]_realtimeVars PROVE RealtimeInv'
    OBVIOUS
  <2>0. /\ shared \in BOOLEAN
        /\ online \subseteq tuned /\ tuned \subseteq StreamPods
        /\ streams \in [Streams -> StreamPods \cup {Shut}]
        /\ emission \in [Alerts -> Emission]
        /\ inTransit \in [StreamPods -> SUBSET StoredAlerts]
        /\ seen \in [Streams -> SUBSET StoredAlerts]
        /\ told \subseteq Streams
        /\ unheard \in [StreamPods -> SUBSET StoredAlerts]
        /\ realtimeFaults \in 0 .. MaxRealtimeFaults
        /\ TransitPublished /\ Shut \notin StreamPods /\ MaxRealtimeFaults \in Nat
    BY RealtimeAssumption DEF RealtimeInv, RealtimeTypeOK
  <2>e. \A s \in Streams, n \in StoredAlerts : streams[s] # Shut => Explained(s, n)
    BY AlertTypes
  <2>f. RealtimeFault => realtimeFaults' \in 0 .. MaxRealtimeFaults
    BY <2>0 DEF RealtimeFault
  <2>1. ASSUME NEW n \in Alerts, NEW p \in StreamPods, StoreAlert(n, p) PROVE RealtimeInv'
    <3>1. /\ emission' \in [Alerts -> Emission]
          /\ \A m \in Alerts : m # n => emission'[m] = emission[m]
          /\ emission'[n].pc = "stored" /\ emission[n].pc = "none"
      BY <2>1, <2>0 DEF StoreAlert, Emission
    <3>2. StoredAlerts' = StoredAlerts \cup {n} /\ n \notin StoredAlerts
      BY <3>1 DEF StoredAlerts, Alerts
    <3>3. RealtimeTypeOK'
      BY <2>1, <2>0, <3>1, <3>2 DEF StoreAlert, RealtimeTypeOK
    <3>4. TransitPublished'
      BY <2>1, <2>0, <3>1, <3>2, AlertTypes DEF StoreAlert, TransitPublished
    <3>5. ASSUME NEW s \in Streams, NEW m \in StoredAlerts', streams'[s] # Shut
          PROVE  Explained(s, m)'
      BY <2>1, <2>e, <3>1, <3>2, <3>5 DEF StoreAlert, Explained, KeptFrom, StoredAlerts
    <3>. QED  BY <3>3, <3>4, <3>5, StreamsStay
  <2>2. ASSUME UNCHANGED emission PROVE StoredAlerts' = StoredAlerts
    BY <2>2 DEF StoredAlerts, Alerts
  <2>3. ASSUME NEW s \in Streams, NEW p \in StreamPods, OpenStream(s, p) PROVE RealtimeInv'
    <3>1. RealtimeTypeOK' /\ TransitPublished' /\ StoredAlerts' = StoredAlerts
      BY <2>3, <2>2, <2>0 DEF OpenStream, AddConnection, RealtimeTypeOK, TransitPublished
    <3>2. ASSUME NEW t \in Streams, NEW m \in StoredAlerts', streams'[t] # Shut
          PROVE  Explained(t, m)'
      BY <2>3, <2>0, <2>e, <3>1, <3>2 DEF OpenStream, AddConnection, Explained, KeptFrom
    <3>. QED  BY <3>1, <3>2, StreamsStay
  <2>4. ASSUME NEW s \in Streams, CloseStream(s) PROVE RealtimeInv'
    <3>1. RealtimeTypeOK' /\ TransitPublished' /\ StoredAlerts' = StoredAlerts
      BY <2>4, <2>2, <2>0 DEF CloseStream, RealtimeTypeOK, TransitPublished
    <3>2. ASSUME NEW t \in Streams, NEW m \in StoredAlerts', streams'[t] # Shut
          PROVE  Explained(t, m)'
      BY <2>4, <2>0, <2>e, <3>1, <3>2 DEF CloseStream, Explained, KeptFrom
    <3>. QED  BY <3>1, <3>2, StreamsStay
  <2>5. ASSUME NEW s \in Streams, Reconcile(s) PROVE RealtimeInv'
    <3>1. RealtimeTypeOK' /\ TransitPublished' /\ StoredAlerts' = StoredAlerts
      BY <2>5, <2>2, <2>0 DEF Reconcile, RealtimeTypeOK, TransitPublished
    <3>2. ASSUME NEW t \in Streams, NEW m \in StoredAlerts', streams'[t] # Shut
          PROVE  Explained(t, m)'
      BY <2>5, <2>0, <2>e, <3>1, <3>2 DEF Reconcile, Explained, KeptFrom
    <3>. QED  BY <3>1, <3>2, StreamsStay
  <2>6. ASSUME NEW p \in StreamPods \cup {Shut}, NEW torn \in SUBSET Streams,
               EmitLocal(p, torn)
        PROVE  /\ streams' \in [Streams -> StreamPods \cup {Shut}] /\ told' \subseteq Streams
               /\ realtimeFaults' \in 0 .. MaxRealtimeFaults
               /\ \A s \in Streams : streams'[s] # Shut =>
                    /\ streams'[s] = streams[s]
                    /\ s \in told \/ streams[s] = p => s \in told'
    BY <2>6, <2>0, <2>f DEF EmitLocal
  <2>7. ASSUME NEW n \in Alerts, emission[n].pc = "stored",
               NEW pc \in {"published", "local", "lost"},
               emission' = [emission EXCEPT ![n].pc = pc]
        PROVE  /\ emission' \in [Alerts -> Emission]
               /\ \A m \in Alerts : m # n => emission'[m] = emission[m]
               /\ emission'[n].pc = pc /\ emission'[n].pod = emission[n].pod
               /\ StoredAlerts' = StoredAlerts /\ n \in StoredAlerts
               /\ emission[n].pod \in StreamPods \cup {Shut}
    <3> DEFINE x == [emission[n] EXCEPT !.pc = pc]
    <3>1. /\ x \in Emission
          /\ x.pc = pc /\ x.pod = emission[n].pod
          /\ emission[n].pod \in StreamPods \cup {Shut}
      BY <2>0 DEF Emission
    <3>2. emission' = [emission EXCEPT ![n] = x]
      BY <2>7
    <3> HIDE DEF x
    <3>3. /\ emission' \in [Alerts -> Emission]
          /\ \A m \in Alerts : emission'[m] = IF m = n THEN x ELSE emission[m]
      BY <3>1, <3>2, <2>0
    <3>4. StoredAlerts' = StoredAlerts /\ n \in StoredAlerts
      BY <2>7, <3>1, <3>3 DEF StoredAlerts, Alerts
    <3>. QED  BY <3>1, <3>3, <3>4
  <2>8. ASSUME NEW n \in Alerts, NEW torn \in SUBSET Streams, EmitWithoutRedis(n, torn)
        PROVE  RealtimeInv'
    <3>1. emission[n].pc = "stored" /\ emission' = [emission EXCEPT ![n].pc = "local"]
          /\ EmitLocal(emission[n].pod, torn)
          /\ UNCHANGED <<shared, tuned, online, inTransit, seen, unheard>>
      BY <2>8 DEF EmitWithoutRedis
    <3>a. /\ emission' \in [Alerts -> Emission]
          /\ \A m \in Alerts : m # n => emission'[m] = emission[m]
          /\ emission'[n].pc = "local" /\ emission'[n].pod = emission[n].pod
          /\ StoredAlerts' = StoredAlerts /\ n \in StoredAlerts
          /\ emission[n].pod \in StreamPods \cup {Shut}
      BY <2>7, <3>1
    <3>2. RealtimeTypeOK'
      BY <2>0, <2>6, <3>a, <3>1 DEF RealtimeTypeOK
    <3>3. TransitPublished'
      BY <2>0, <3>a, <3>1, AlertTypes DEF TransitPublished
    <3>4. ASSUME NEW t \in Streams, NEW m \in StoredAlerts', streams'[t] # Shut
          PROVE  Explained(t, m)'
      BY <2>0, <2>e, <2>6, <3>a, <3>1, <3>4, AlertTypes DEF Explained, KeptFrom
    <3>. QED  BY <3>2, <3>3, <3>4, StreamsStay
  <2>9. ASSUME NEW n \in StoredAlerts, Deliver(n)
        PROVE  /\ inTransit' \in [StreamPods -> SUBSET StoredAlerts]
               /\ unheard' \in [StreamPods -> SUBSET StoredAlerts]
               /\ \A p \in StreamPods :
                    /\ inTransit[p] \subseteq inTransit'[p]
                    /\ inTransit'[p] \subseteq inTransit[p] \cup {n}
                    /\ unheard[p] \subseteq unheard'[p]
                    /\ n \in inTransit'[p] \/ n \in unheard'[p]
    BY <2>9, <2>0 DEF Deliver
  <2>10. ASSUME NEW n \in Alerts, Publish(n) PROVE RealtimeInv'
    <3>1. emission[n].pc = "stored" /\ emission' = [emission EXCEPT ![n].pc = "published"]
          /\ Deliver(n) /\ UNCHANGED <<shared, tuned, online, streams, seen, told, realtimeFaults>>
      BY <2>10 DEF Publish
    <3>a. /\ emission' \in [Alerts -> Emission]
          /\ \A m \in Alerts : m # n => emission'[m] = emission[m]
          /\ emission'[n].pc = "published" /\ emission'[n].pod = emission[n].pod
          /\ StoredAlerts' = StoredAlerts /\ n \in StoredAlerts
          /\ emission[n].pod \in StreamPods \cup {Shut}
      BY <2>7, <3>1
    <3>2. RealtimeTypeOK'
      BY <2>0, <3>a, <2>9, <3>1 DEF RealtimeTypeOK
    <3>3. TransitPublished'
      BY <2>0, <3>a, <2>9, <3>1, AlertTypes DEF TransitPublished
    <3>4. ASSUME NEW t \in Streams, NEW m \in StoredAlerts', streams'[t] # Shut
          PROVE  Explained(t, m)'
      <4>1. streams[t] \in StreamPods /\ streams'[t] = streams[t] /\ m \in StoredAlerts
        BY <2>0, <3>a, <3>1, <3>4
      <4>. QED  BY <2>0, <2>e, <3>a, <2>9, <3>1, <3>4, <4>1, AlertTypes DEF Explained, KeptFrom
    <3>. QED  BY <3>2, <3>3, <3>4, StreamsStay
  <2>11. ASSUME NEW n \in Alerts, NEW delivered \in BOOLEAN, PublishFails(n, delivered)
         PROVE  RealtimeInv'
    <3>1. /\ emission[n].pc = "stored"
          /\ emission' = [emission EXCEPT ![n].pc = IF delivered THEN "published" ELSE "local"]
          /\ told' = told \cup {s \in Streams : streams[s] = emission[n].pod}
          /\ IF delivered THEN Deliver(n) ELSE UNCHANGED <<inTransit, unheard>>
          /\ realtimeFaults' \in 0 .. MaxRealtimeFaults
          /\ UNCHANGED <<shared, tuned, online, streams, seen>>
      BY <2>11, <2>f DEF PublishFails
    <3>2. CASE delivered
      <4>1. emission' = [emission EXCEPT ![n].pc = "published"] /\ Deliver(n)
        BY <3>1, <3>2
      <4>a. /\ emission' \in [Alerts -> Emission]
            /\ \A m \in Alerts : m # n => emission'[m] = emission[m]
            /\ emission'[n].pc = "published" /\ emission'[n].pod = emission[n].pod
            /\ StoredAlerts' = StoredAlerts /\ n \in StoredAlerts
            /\ emission[n].pod \in StreamPods \cup {Shut}
        BY <2>7, <3>1, <4>1
      <4>2. RealtimeTypeOK'
        BY <2>0, <4>a, <2>9, <3>1, <4>1 DEF RealtimeTypeOK
      <4>3. TransitPublished'
        BY <2>0, <4>a, <2>9, <3>1, <4>1, AlertTypes DEF TransitPublished
      <4>4. ASSUME NEW t \in Streams, NEW m \in StoredAlerts', streams'[t] # Shut
            PROVE  Explained(t, m)'
        <5>1. streams[t] \in StreamPods /\ streams'[t] = streams[t] /\ m \in StoredAlerts
          BY <2>0, <4>a, <3>1, <4>1, <4>4
        <5>. QED  BY <2>0, <2>e, <4>a, <2>9, <3>1, <4>1, <4>4, <5>1, AlertTypes
                  DEF Explained, KeptFrom
      <4>. QED  BY <4>2, <4>3, <4>4, StreamsStay
    <3>3. CASE ~delivered
      <4>1. emission' = [emission EXCEPT ![n].pc = "local"] /\ UNCHANGED <<inTransit, unheard>>
        BY <3>1, <3>3
      <4>a. /\ emission' \in [Alerts -> Emission]
            /\ \A m \in Alerts : m # n => emission'[m] = emission[m]
            /\ emission'[n].pc = "local" /\ emission'[n].pod = emission[n].pod
            /\ StoredAlerts' = StoredAlerts /\ n \in StoredAlerts
            /\ emission[n].pod \in StreamPods \cup {Shut}
        BY <2>7, <3>1, <4>1
      <4>2. RealtimeTypeOK'
        BY <2>0, <4>a, <3>1, <4>1 DEF RealtimeTypeOK
      <4>3. TransitPublished'
        BY <2>0, <4>a, <3>1, <4>1, AlertTypes DEF TransitPublished
      <4>4. ASSUME NEW t \in Streams, NEW m \in StoredAlerts', streams'[t] # Shut
            PROVE  Explained(t, m)'
        BY <2>0, <2>e, <4>a, <3>1, <4>1, <4>4, AlertTypes DEF Explained, KeptFrom
      <4>. QED  BY <4>2, <4>3, <4>4, StreamsStay
    <3>. QED  BY <3>2, <3>3
  <2>12. ASSUME NEW n \in Alerts, EmissionFails(n) PROVE RealtimeInv'
    <3>1. /\ emission[n].pc = "stored" /\ emission' = [emission EXCEPT ![n].pc = "lost"]
          /\ realtimeFaults' \in 0 .. MaxRealtimeFaults
          /\ UNCHANGED <<shared, tuned, online, streams, inTransit, seen, told, unheard>>
      BY <2>12, <2>f DEF EmissionFails
    <3>a. /\ emission' \in [Alerts -> Emission]
          /\ \A m \in Alerts : m # n => emission'[m] = emission[m]
          /\ emission'[n].pc = "lost" /\ emission'[n].pod = emission[n].pod
          /\ StoredAlerts' = StoredAlerts /\ n \in StoredAlerts
          /\ emission[n].pod \in StreamPods \cup {Shut}
      BY <2>7, <3>1
    <3>2. RealtimeTypeOK'
      BY <2>0, <3>a, <3>1 DEF RealtimeTypeOK
    <3>3. TransitPublished'
      BY <2>0, <3>a, <3>1, AlertTypes DEF TransitPublished
    <3>4. ASSUME NEW t \in Streams, NEW m \in StoredAlerts', streams'[t] # Shut
          PROVE  Explained(t, m)'
      BY <2>0, <2>e, <3>a, <3>1, <3>4, AlertTypes DEF Explained, KeptFrom
    <3>. QED  BY <3>2, <3>3, <3>4, StreamsStay
  <2>13. ASSUME NEW p \in StreamPods, NEW n \in Alerts, NEW torn \in SUBSET Streams,
                HandlePubSubMessage(p, n, torn)
         PROVE  RealtimeInv'
    <3>1. /\ EmitLocal(p, torn) /\ inTransit' = [inTransit EXCEPT ![p] = @ \ {n}]
          /\ UNCHANGED <<shared, tuned, online, emission, seen, unheard>>
          /\ StoredAlerts' = StoredAlerts
      BY <2>13, <2>2 DEF HandlePubSubMessage
    <3>2. /\ inTransit' \in [StreamPods -> SUBSET StoredAlerts]
          /\ \A q \in StreamPods : /\ inTransit'[q] \subseteq inTransit[q]
                                   /\ q # p => inTransit'[q] = inTransit[q]
                                   /\ inTransit[q] \subseteq inTransit'[q] \cup {n}
      BY <2>0, <3>1
    <3>3. RealtimeTypeOK'
      BY <2>0, <2>6, <3>1, <3>2 DEF RealtimeTypeOK
    <3>4. TransitPublished'
      BY <2>0, <3>1, <3>2 DEF TransitPublished
    <3>5. ASSUME NEW t \in Streams, NEW m \in StoredAlerts', streams'[t] # Shut
          PROVE  Explained(t, m)'
      <4>1. streams[t] \in StreamPods /\ streams'[t] = streams[t] /\ m \in StoredAlerts
        BY <2>0, <2>6, <3>1, <3>5
      <4>. QED  BY <2>0, <2>e, <2>6, <3>1, <3>2, <3>5, <4>1 DEF Explained, KeptFrom
    <3>. QED  BY <3>3, <3>4, <3>5, StreamsStay
  <2>14. ASSUME NEW p \in StreamPods, SubscriberDrops(p) PROVE RealtimeInv'
    <3>1. /\ online' = online \ {p} /\ realtimeFaults' \in 0 .. MaxRealtimeFaults
          /\ unheard' = [unheard EXCEPT ![p] = @ \cup inTransit[p]]
          /\ inTransit' = [inTransit EXCEPT ![p] = {}]
          /\ UNCHANGED <<shared, tuned, streams, emission, seen, told>>
          /\ StoredAlerts' = StoredAlerts
      BY <2>14, <2>2, <2>f DEF SubscriberDrops
    <3>2. /\ inTransit' \in [StreamPods -> SUBSET StoredAlerts]
          /\ unheard' \in [StreamPods -> SUBSET StoredAlerts]
          /\ \A q \in StreamPods : /\ inTransit'[q] \subseteq inTransit[q]
                                   /\ inTransit[q] \subseteq inTransit'[q] \cup unheard'[q]
                                   /\ unheard[q] \subseteq unheard'[q]
      BY <2>0, <3>1
    <3>3. RealtimeTypeOK'
      BY <2>0, <3>1, <3>2 DEF RealtimeTypeOK
    <3>4. TransitPublished'
      BY <2>0, <3>1, <3>2 DEF TransitPublished
    <3>5. ASSUME NEW t \in Streams, NEW m \in StoredAlerts', streams'[t] # Shut
          PROVE  Explained(t, m)'
      <4>1. streams[t] \in StreamPods /\ streams'[t] = streams[t] /\ m \in StoredAlerts
        BY <2>0, <3>1, <3>5
      <4>. QED  BY <2>0, <2>e, <3>1, <3>2, <3>5, <4>1 DEF Explained, KeptFrom, TransitPublished
    <3>. QED  BY <3>3, <3>4, <3>5, StreamsStay
  <2>15. ASSUME NEW p \in StreamPods, SubscriberReturns(p) PROVE RealtimeInv'
    <3>1. RealtimeTypeOK' /\ TransitPublished' /\ StoredAlerts' = StoredAlerts
      BY <2>15, <2>2, <2>0 DEF SubscriberReturns, RealtimeTypeOK, TransitPublished
    <3>2. ASSUME NEW t \in Streams, NEW m \in StoredAlerts', streams'[t] # Shut
          PROVE  Explained(t, m)'
      BY <2>15, <2>0, <2>e, <3>1, <3>2 DEF SubscriberReturns, Explained, KeptFrom
    <3>. QED  BY <3>1, <3>2, StreamsStay
  <2>16. ASSUME NEW p \in StreamPods, NEW listens \in BOOLEAN, PodRestarts(p, listens)
         PROVE  RealtimeInv'
    <3>1. /\ realtimeFaults' \in 0 .. MaxRealtimeFaults
          /\ shared' = shared /\ seen' = seen /\ unheard' = unheard
          /\ \A q \in StreamPods : q # p => (q \in tuned' <=> q \in tuned)
          /\ online' \subseteq tuned' /\ tuned' \subseteq StreamPods
          /\ streams' \in [Streams -> StreamPods \cup {Shut}]
          /\ \A s \in Streams : streams'[s] = IF streams[s] = p THEN Shut ELSE streams[s]
          /\ told' \subseteq told
          /\ \A s \in told : streams[s] # p => s \in told'
      BY <2>16, <2>0, <2>f DEF PodRestarts
    <3>2. /\ inTransit' = [inTransit EXCEPT ![p] = {}]
          /\ emission' = [n \in Alerts |->
                IF emission[n] = [pc |-> "stored", pod |-> p]
                THEN [emission[n] EXCEPT !.pc = "lost"] ELSE emission[n]]
      BY <2>16 DEF PodRestarts
    <3>3. /\ emission' \in [Alerts -> Emission]
          /\ \A n \in Alerts : \/ emission'[n] = emission[n]
                               \/ emission[n].pc = "stored" /\ emission'[n].pc = "lost"
      BY <2>0, <3>2 DEF Emission
    <3>4. StoredAlerts' = StoredAlerts
      BY <3>3 DEF StoredAlerts, Alerts
    <3>5. inTransit' \in [StreamPods -> SUBSET StoredAlerts]
          /\ \A q \in StreamPods : /\ inTransit'[q] \subseteq inTransit[q]
                                   /\ q # p => inTransit'[q] = inTransit[q]
      BY <2>0, <3>2
    <3>6. RealtimeTypeOK'
      BY <2>0, <3>1, <3>3, <3>4, <3>5 DEF RealtimeTypeOK
    <3>7. TransitPublished'
      BY <2>0, <3>3, <3>5, AlertTypes DEF TransitPublished
    <3>8. ASSUME NEW t \in Streams, NEW m \in StoredAlerts', streams'[t] # Shut
          PROVE  Explained(t, m)'
      <4>1. streams[t] \in StreamPods /\ streams'[t] = streams[t] /\ m \in StoredAlerts
            /\ streams[t] # p
        BY <2>0, <3>1, <3>4, <3>8
      <4>2. m \in Alerts
        BY <4>1 DEF StoredAlerts
      <4>. QED  BY <2>0, <2>e, <3>1, <3>3, <3>5, <3>8, <4>1, <4>2 DEF Explained, KeptFrom
    <3>. QED  BY <3>6, <3>7, <3>8, StreamsStay
  <2>17. CASE UNCHANGED realtimeVars
    BY <2>17 DEF realtimeVars, RealtimeInv, RealtimeTypeOK, TransitPublished, StreamsExplained,
       StoredAlerts, KeptFrom
  <2>. QED
    BY <2>1, <2>3, <2>4, <2>5, <2>8, <2>10, <2>11, <2>12, <2>13, <2>14, <2>15, <2>16, <2>17
       DEF RealtimeNext
<1>. QED  BY <1>1, <1>2, PTL DEF RealtimeSpec

\* A browser with an open stream has every stored notification, is about to fetch it,
\* or misses it for one of the causes KeptFrom lists, for any number of browsers, pods
\* and notifications.
THEOREM StreamsAreExplained == RealtimeSpec => []StreamsExplained
<1>1. RealtimeInv => StreamsExplained
  BY DEF RealtimeInv
<1>. QED  BY <1>1, RealtimeInvariance, PTL

-----------------------------------------------------------------------------
(***************************************************************************)
(* Comments.  A handler that loaded a document knows of every save made    *)
(* until then; a save made after that is written over by the handler's     *)
(* own.                                                                    *)
(***************************************************************************)

\* What document d shows of save i.
Shows(d, i) ==
  /\ saves[i].kind = "delete" => d.deleted \/ WrittenOver(i)
  /\ saves[i].kind = "edit" => d.text >= i \/ WrittenOver(i)

SavesShown ==
  \A i \in DOMAIN saves :
    /\ saves[i].comment \in DOMAIN comments
    /\ Shows(comments[saves[i].comment], i)

\* A handler knows whose comment it changes, and all that was saved before it looked.
Knows(q) ==
  /\ q.read <= Len(saves)
  /\ q.pc = "create" => q.doc.author \notin q.doc.mentions
  /\ q.pc \in {"edit", "delete"} =>
       /\ q.at \in DOMAIN comments
       /\ q.doc.author = comments[q.at].author
       /\ \A i \in DOMAIN saves : saves[i].comment = q.at /\ i <= q.read => Shows(q.doc, i)

HandlersKnow == \A r \in CommentRequests : Knows(comment[r])

NoticesOnce ==
  /\ \A n \in notices : n.comment \in DOMAIN comments
  /\ \A n, m \in notices : n.comment = m.comment /\ n.to = m.to => n = m
  /\ \A n \in notices : n.to # comments[n.comment].author

CommentsInv == CommentsTypeOK /\ SavesShown /\ HandlersKnow /\ NoticesOnce

\* The two of the next state, for a document and a handler as they are.
ShowsNext(d, i) ==
  /\ saves'[i].kind = "delete" => d.deleted \/ WrittenOver(i)'
  /\ saves'[i].kind = "edit" => d.text >= i \/ WrittenOver(i)'

KnowsNext(q) ==
  /\ q.read <= Len(saves')
  /\ q.pc = "create" => q.doc.author \notin q.doc.mentions
  /\ q.pc \in {"edit", "delete"} =>
       /\ q.at \in DOMAIN comments'
       /\ q.doc.author = comments'[q.at].author
       /\ \A i \in DOMAIN saves' : saves'[i].comment = q.at /\ i <= q.read => ShowsNext(q.doc, i)

LEMMA NextStated ==
  /\ (\A i \in DOMAIN saves' : /\ saves'[i].comment \in DOMAIN comments'
                              /\ ShowsNext(comments'[saves'[i].comment], i)) => SavesShown'
  /\ (\A r \in CommentRequests : KnowsNext(comment'[r])) => HandlersKnow'
BY DEF SavesShown, HandlersKnow, Shows, ShowsNext, Knows, KnowsNext

LEMMA CommentsInvImplies == CommentsInv => CommentsExplained
BY DEF CommentsInv, CommentsTypeOK, SavesShown, Shows, NoticesOnce, CommentsExplained

LEMMA NoRequestKnown ==
  ASSUME CommentsTypeOK
  PROVE  NoRequest \in Commentary /\ Knows(NoRequest)
BY DEF CommentsTypeOK, NoRequest, NoText, Commentary, CommentDocument, Knows

\* A step of one handler, after which it knows what q says.
LEMMA CommentMoves ==
  ASSUME CommentsTypeOK, NEW r \in CommentRequests, NEW q \in Commentary,
         comment' = [comment EXCEPT ![r] = q]
  PROVE  /\ comment' \in [CommentRequests -> Commentary]
         /\ \A s \in CommentRequests : comment'[s] = IF s = r THEN q ELSE comment[s]
BY DEF CommentsTypeOK

\* A step that stores nothing.
LEMMA CommentsStay ==
  ASSUME CommentsInv, UNCHANGED <<comments, feed, notices, saves>>,
         NEW r \in CommentRequests, NEW q \in Commentary, Knows(q),
         comment' = [comment EXCEPT ![r] = q]
  PROVE  CommentsInv'
<1>1. /\ comment' \in [CommentRequests -> Commentary]
      /\ \A s \in CommentRequests : comment'[s] = IF s = r THEN q ELSE comment[s]
  BY CommentMoves DEF CommentsInv
<1>2. CommentsTypeOK'
  BY <1>1 DEF CommentsInv, CommentsTypeOK
<1>3. SavesShown' /\ NoticesOnce'
  BY DEF CommentsInv, SavesShown, Shows, WrittenOver, NoticesOnce
<1>4. HandlersKnow'
  BY <1>1 DEF CommentsInv, HandlersKnow, Knows, Shows, WrittenOver
<1>. QED  BY <1>2, <1>3, <1>4 DEF CommentsInv

\* What was written over stays so.
LEMMA WrittenOverStays ==
  ASSUME CommentsTypeOK, NEW x \in CommentSave, saves' = Append(saves, x),
         NEW i \in DOMAIN saves
  PROVE  /\ WrittenOver(i) => WrittenOver(i)'
         /\ saves'[i] = saves[i] /\ i \in DOMAIN saves'
         /\ x.comment = saves[i].comment /\ x.read < i => WrittenOver(i)'
<1>1. /\ saves \in Seq(CommentSave) /\ DOMAIN saves = 1 .. Len(saves) /\ Len(saves) \in Nat
      /\ DOMAIN saves' = 1 .. Len(saves) + 1
      /\ saves'[Len(saves) + 1] = x /\ \A j \in DOMAIN saves : saves'[j] = saves[j]
  BY DEF CommentsTypeOK
<1>2. /\ i \in DOMAIN saves' /\ Len(saves) + 1 \in DOMAIN saves' /\ i < Len(saves) + 1
      /\ \A j \in DOMAIN saves : j \in DOMAIN saves'
  BY <1>1
<1>. QED  BY <1>1, <1>2 DEF WrittenOver

\* An edit, or a deletion, that stores document d over comment c.
LEMMA OverwriteKeeps ==
  ASSUME CommentsInv, NEW r \in CommentRequests, NEW kind \in {"edit", "delete"},
         comment[r].pc = kind,
         NEW c, c = comment[r].at,
         NEW d \in CommentDocument,
         d.author = comment[r].doc.author, d.mentions = comment[r].doc.mentions,
         kind = "edit" => d.text = Len(saves) + 1 /\ d.deleted = comment[r].doc.deleted,
         kind = "delete" => d.text = comment[r].doc.text /\ d.deleted = TRUE,
         saves' = Append(saves, [comment |-> c, kind |-> kind, read |-> comment[r].read]),
         comments' = [comments EXCEPT ![c] = d],
         comment' = [comment EXCEPT ![r] = NoRequest],
         UNCHANGED <<feed, notices>>
  PROVE  CommentsInv'
<1> DEFINE x == [comment |-> c, kind |-> kind, read |-> comment[r].read]
           L == Len(saves)
<1>1. /\ comment[r] \in Commentary /\ Knows(comment[r])
      /\ comments \in Seq(CommentDocument) /\ saves \in Seq(CommentSave)
  BY DEF CommentsInv, CommentsTypeOK, HandlersKnow
<1>2. /\ c \in DOMAIN comments /\ comment[r].read \in Nat /\ comment[r].read <= L
      /\ comment[r].doc.author = comments[c].author
      /\ \A i \in DOMAIN saves : saves[i].comment = c /\ i <= comment[r].read
                                   => Shows(comment[r].doc, i)
  BY <1>1 DEF Knows, Commentary
<1>3. c \in Nat /\ x \in CommentSave /\ x.comment = c /\ x.kind = kind
      /\ x.read = comment[r].read
  BY <1>1, <1>2 DEF CommentSave, Commentary
<1>4. saves' = Append(saves, x)
  OBVIOUS
<1> HIDE DEF x
<1>5. /\ saves' \in Seq(CommentSave) /\ L \in Nat /\ DOMAIN saves = 1 .. L
      /\ DOMAIN saves' = 1 .. L + 1 /\ saves'[L + 1] = x
      /\ \A i \in DOMAIN saves : saves'[i] = saves[i] /\ i \in DOMAIN saves'
      /\ Len(saves') = L + 1
  BY <1>1, <1>3, <1>4
<1>6. /\ comments' \in Seq(CommentDocument) /\ DOMAIN comments' = DOMAIN comments
      /\ \A e \in DOMAIN comments : comments'[e] = IF e = c THEN d ELSE comments[e]
  BY <1>1, <1>2
<1>7. NoRequest \in Commentary
  BY NoRequestKnown DEF CommentsInv
<1>8. /\ comment' \in [CommentRequests -> Commentary]
      /\ \A s \in CommentRequests : comment'[s] = IF s = r THEN NoRequest ELSE comment[s]
  BY <1>7, CommentMoves DEF CommentsInv
<1>9. CommentsTypeOK'
  BY <1>5, <1>6, <1>8 DEF CommentsInv, CommentsTypeOK
<1>10. ASSUME NEW i \in DOMAIN saves, NEW e \in CommentDocument, Shows(e, i)
       PROVE  ShowsNext(e, i)
  BY <1>10, <1>3, <1>4, WrittenOverStays DEF CommentsInv, Shows, ShowsNext
<1>11. ASSUME NEW i \in DOMAIN saves, saves[i].comment = c PROVE ShowsNext(d, i)
  <2>1. saves'[i] = saves[i] /\ i \in Nat /\ i <= L
    BY <1>5
  <2>2. CASE comment[r].read < i
    BY <2>1, <2>2, <1>3, <1>4, <1>11, WrittenOverStays DEF CommentsInv, Shows, ShowsNext
  <2>3. CASE i <= comment[r].read
    <3>1. ShowsNext(comment[r].doc, i)
      BY <2>3, <1>2, <1>10, <1>11, <1>1 DEF Commentary
    <3>2. kind = "edit" => d.text >= i
      BY <2>1
    <3>. QED  BY <3>1, <3>2, <2>1 DEF ShowsNext
  <2>. QED  BY <2>1, <2>2, <2>3, <1>2
<1>12. ShowsNext(d, L + 1)
  BY <1>3, <1>5 DEF ShowsNext
<1>13. SavesShown'
  <2> SUFFICES ASSUME NEW i \in DOMAIN saves'
               PROVE  /\ saves'[i].comment \in DOMAIN comments'
                      /\ ShowsNext(comments'[saves'[i].comment], i)
    BY NextStated
  <2>1. CASE i = L + 1
    BY <2>1, <1>2, <1>3, <1>5, <1>6, <1>12
  <2>2. CASE i \in DOMAIN saves
    <3>1. /\ saves[i].comment \in DOMAIN comments /\ Shows(comments[saves[i].comment], i)
          /\ saves'[i] = saves[i] /\ comments[saves[i].comment] \in CommentDocument
      BY <2>2, <1>1, <1>5 DEF CommentsInv, SavesShown
    <3>2. CASE saves[i].comment = c
      BY <2>2, <3>1, <3>2, <1>6, <1>11
    <3>3. CASE saves[i].comment # c
      BY <2>2, <3>1, <3>3, <1>6, <1>10
    <3>. QED  BY <3>2, <3>3
  <2>. QED  BY <2>1, <2>2, <1>5
<1>14. HandlersKnow'
  <2> SUFFICES ASSUME NEW s \in CommentRequests PROVE KnowsNext(comment'[s])
    BY NextStated
  <2>1. CASE s = r
    <3>1. comment'[s] = NoRequest /\ Len(saves') \in Nat
      BY <2>1, <1>8, <1>5
    <3>. QED  BY <3>1 DEF KnowsNext, NoRequest
  <2>2. CASE s # r
    <3>1. comment'[s] = comment[s] /\ Knows(comment[s]) /\ comment[s] \in Commentary
      BY <2>2, <1>8 DEF CommentsInv, CommentsTypeOK, HandlersKnow
    <3> DEFINE q == comment[s]
    <3>2. /\ q.read \in Nat /\ q.read <= L /\ q.doc \in CommentDocument /\ q.at \in Nat
          /\ q.pc = "create" => q.doc.author \notin q.doc.mentions
          /\ q.pc \in {"edit", "delete"} =>
               /\ q.at \in DOMAIN comments
               /\ q.doc.author = comments[q.at].author
               /\ \A i \in DOMAIN saves :
                    saves[i].comment = q.at /\ i <= q.read => Shows(q.doc, i)
      BY <3>1 DEF Knows, Commentary
    <3> HIDE DEF q
    <3>3. q.read <= Len(saves')
      BY <3>2, <1>5
    <3>4. ASSUME q.pc \in {"edit", "delete"}
          PROVE  /\ q.at \in DOMAIN comments' /\ q.doc.author = comments'[q.at].author
                 /\ \A i \in DOMAIN saves' :
                      saves'[i].comment = q.at /\ i <= q.read => ShowsNext(q.doc, i)
      <4>1. q.at \in DOMAIN comments' /\ q.doc.author = comments'[q.at].author
        BY <3>2, <3>4, <1>2, <1>6
      <4>2. ASSUME NEW i \in DOMAIN saves', saves'[i].comment = q.at, i <= q.read
            PROVE  ShowsNext(q.doc, i)
        <5>1. i \in DOMAIN saves /\ saves[i].comment = q.at
          BY <4>2, <3>2, <1>5
        <5>. QED  BY <5>1, <4>2, <3>2, <3>4, <1>10
      <4>. QED  BY <4>1, <4>2
    <3>5. comment'[s] = q
      BY <3>1 DEF q
    <3>. QED  BY <3>2, <3>3, <3>4, <3>5 DEF KnowsNext
  <2>. QED  BY <2>1, <2>2
<1>15. NoticesOnce'
  BY <1>2, <1>6 DEF CommentsInv, NoticesOnce
<1>. QED  BY <1>9, <1>13, <1>14, <1>15 DEF CommentsInv

LEMMA CreateKeeps ==
  ASSUME CommentsInv, NEW r \in CommentRequests, CreateComment(r)
  PROVE  CommentsInv'
<1> DEFINE c == Len(comments) + 1
           L == Len(saves)
           x == [comment |-> c, kind |-> "create", read |-> comment[r].read]
           d == [comment[r].doc EXCEPT !.text = L + 1]
<1>1. /\ comment[r] \in Commentary /\ Knows(comment[r]) /\ comment[r].pc = "create"
      /\ comments \in Seq(CommentDocument) /\ saves \in Seq(CommentSave)
      /\ notices \subseteq CommentNotice /\ feed \subseteq Nat
  BY DEF CommentsInv, CommentsTypeOK, HandlersKnow, CreateComment, Commenting
<1>2. /\ L \in Nat /\ DOMAIN saves = 1 .. L /\ c \in Nat /\ DOMAIN comments = 1 .. c - 1
      /\ c \notin DOMAIN comments
  BY <1>1
<1>3. /\ comment[r].doc \in CommentDocument /\ comment[r].read \in Nat
      /\ comment[r].assignee \in Commenters \cup {Nobody}
      /\ comment[r].doc.author \notin comment[r].doc.mentions
  BY <1>1 DEF Commentary, Knows
<1>4. x \in CommentSave /\ x.comment = c /\ x.kind = "create"
  BY <1>2, <1>3 DEF CommentSave
<1>5. d \in CommentDocument /\ d.author = comment[r].doc.author
  BY <1>2, <1>3 DEF CommentDocument
<1>6. saves' = Append(saves, x)
  BY DEF CreateComment, Saved
<1>7. Len(saves') = L + 1
  BY <1>1, <1>6
<1>8. comments' = Append(comments, d)
  BY <1>7 DEF CreateComment
<1>9. /\ feed' = feed \cup {c} /\ comment' = [comment EXCEPT ![r] = NoRequest]
      /\ notices' = notices \cup
           Notices(c, comment[r].doc.author, comment[r].assignee, comment[r].doc.mentions)
  BY DEF CreateComment, EndComment
<1>t. /\ comment[r].doc.mentions \subseteq Commenters /\ c \in Nat
  BY <1>2, <1>3 DEF CommentDocument
<1>10. \A n \in Notices(c, comment[r].doc.author, comment[r].assignee, comment[r].doc.mentions) :
         /\ n \in CommentNotice /\ n.comment = c /\ n.to # comment[r].doc.author
         /\ n.type = IF n.to = comment[r].assignee THEN "task_commented"
                     ELSE "comment_mentioned"
         /\ n = [comment |-> n.comment, type |-> n.type, to |-> n.to]
  BY <1>t, <1>3 DEF Notices, CommentNotice
<1> HIDE DEF c, L, x, d
<1>11. /\ saves' \in Seq(CommentSave)
       /\ DOMAIN saves' = 1 .. L + 1 /\ saves'[L + 1] = x
       /\ \A i \in DOMAIN saves : saves'[i] = saves[i] /\ i \in DOMAIN saves'
  BY <1>1, <1>2, <1>4, <1>6 DEF L
<1>12. /\ comments' \in Seq(CommentDocument)
       /\ DOMAIN comments' = DOMAIN comments \cup {c} /\ comments'[c] = d
       /\ \A e \in DOMAIN comments : comments'[e] = comments[e]
  BY <1>1, <1>2, <1>5, <1>8 DEF c
<1>13. /\ comment' \in [CommentRequests -> Commentary]
       /\ \A s \in CommentRequests : comment'[s] = IF s = r THEN NoRequest ELSE comment[s]
  BY <1>9, NoRequestKnown, CommentMoves DEF CommentsInv
<1>14. CommentsTypeOK'
  BY <1>1, <1>2, <1>9, <1>10, <1>11, <1>12, <1>13 DEF CommentsTypeOK
<1>15. ASSUME NEW i \in DOMAIN saves, NEW e \in CommentDocument, Shows(e, i)
       PROVE  ShowsNext(e, i)
  BY <1>15, <1>4, <1>6, WrittenOverStays DEF CommentsInv, Shows, ShowsNext
<1>16. SavesShown'
  <2> SUFFICES ASSUME NEW i \in DOMAIN saves'
               PROVE  /\ saves'[i].comment \in DOMAIN comments'
                      /\ ShowsNext(comments'[saves'[i].comment], i)
    BY NextStated
  <2>1. CASE i = L + 1
    BY <2>1, <1>4, <1>11, <1>12 DEF ShowsNext
  <2>2. CASE i \in DOMAIN saves
    <3>1. /\ saves[i].comment \in DOMAIN comments /\ Shows(comments[saves[i].comment], i)
          /\ saves'[i] = saves[i] /\ comments[saves[i].comment] \in CommentDocument
      BY <2>2, <1>1, <1>11 DEF CommentsInv, SavesShown
    <3>. QED  BY <2>2, <3>1, <1>12, <1>15
  <2>. QED  BY <2>1, <2>2, <1>2, <1>11
<1>17. HandlersKnow'
  <2> SUFFICES ASSUME NEW s \in CommentRequests PROVE KnowsNext(comment'[s])
    BY NextStated
  <2>1. CASE s = r
    BY <2>1, <1>13, <1>7, <1>2 DEF KnowsNext, NoRequest
  <2>2. CASE s # r
    <3> DEFINE q == comment[s]
    <3>1. comment'[s] = q /\ Knows(q) /\ q \in Commentary
      BY <2>2, <1>13 DEF CommentsInv, CommentsTypeOK, HandlersKnow
    <3> HIDE DEF q
    <3>2. /\ q.read \in Nat /\ q.read <= L /\ q.doc \in CommentDocument
          /\ q.pc = "create" => q.doc.author \notin q.doc.mentions
          /\ q.pc \in {"edit", "delete"} =>
               /\ q.at \in DOMAIN comments
               /\ q.doc.author = comments[q.at].author
               /\ \A i \in DOMAIN saves :
                    saves[i].comment = q.at /\ i <= q.read => Shows(q.doc, i)
      BY <3>1 DEF Knows, Commentary, L
    <3>3. q.read <= Len(saves')
      BY <3>2, <1>7, <1>2
    <3>4. ASSUME q.pc \in {"edit", "delete"}
          PROVE  /\ q.at \in DOMAIN comments' /\ q.doc.author = comments'[q.at].author
                 /\ \A i \in DOMAIN saves' :
                      saves'[i].comment = q.at /\ i <= q.read => ShowsNext(q.doc, i)
      <4>1. q.at \in DOMAIN comments' /\ q.doc.author = comments'[q.at].author
        BY <3>2, <3>4, <1>12
      <4>2. ASSUME NEW i \in DOMAIN saves', saves'[i].comment = q.at, i <= q.read
            PROVE  ShowsNext(q.doc, i)
        <5>1. i \in DOMAIN saves /\ saves[i].comment = q.at
          BY <4>2, <3>2, <1>2, <1>11
        <5>. QED  BY <5>1, <4>2, <3>2, <3>4, <1>15
      <4>. QED  BY <4>1, <4>2
    <3>. QED  BY <3>1, <3>2, <3>3, <3>4 DEF KnowsNext
  <2>. QED  BY <2>1, <2>2
<1>18. NoticesOnce'
  <2>1. \A n \in notices : n.comment \in DOMAIN comments /\ n.comment # c
    BY <1>2 DEF CommentsInv, NoticesOnce, c
  <2>2. \A n \in notices' : n.comment \in DOMAIN comments'
    BY <2>1, <1>9, <1>10, <1>12
  <2>3. \A n, m \in notices' : n.comment = m.comment /\ n.to = m.to => n = m
    BY <2>1, <1>9, <1>10 DEF CommentsInv, NoticesOnce
  <2>4. \A n \in notices' : n.to # comments'[n.comment].author
    BY <2>1, <1>5, <1>9, <1>10, <1>12 DEF CommentsInv, NoticesOnce
  <2>. QED  BY <2>2, <2>3, <2>4 DEF NoticesOnce
<1>. QED  BY <1>14, <1>16, <1>17, <1>18 DEF CommentsInv

\* A document with another text, or marked deleted.
LEMMA DocumentChanged ==
  ASSUME NEW doc \in CommentDocument, NEW n \in Nat
  PROVE  /\ [doc EXCEPT !.text = n] \in CommentDocument
         /\ [doc EXCEPT !.text = n].author = doc.author
         /\ [doc EXCEPT !.text = n].mentions = doc.mentions
         /\ [doc EXCEPT !.text = n].text = n
         /\ [doc EXCEPT !.text = n].deleted = doc.deleted
         /\ [doc EXCEPT !.deleted = TRUE] \in CommentDocument
         /\ [doc EXCEPT !.deleted = TRUE].author = doc.author
         /\ [doc EXCEPT !.deleted = TRUE].mentions = doc.mentions
         /\ [doc EXCEPT !.deleted = TRUE].text = doc.text
         /\ [doc EXCEPT !.deleted = TRUE].deleted = TRUE
BY DEF CommentDocument

\* The invariant the property rests on.
THEOREM CommentsInvariance == CommentsSpec => []CommentsInv
<1>1. CommentsInit => CommentsInv
  <2> SUFFICES ASSUME CommentsInit PROVE CommentsInv
    OBVIOUS
  <2>1. /\ comments = <<>> /\ feed = {} /\ notices = {} /\ saves = <<>>
        /\ comment = [r \in CommentRequests |-> NoRequest]
    BY DEF CommentsInit
  <2>2. NoRequest \in Commentary
    BY DEF NoRequest, NoText, Commentary, CommentDocument
  <2>3. CommentsTypeOK
    BY <2>1, <2>2 DEF CommentsTypeOK
  <2>4. HandlersKnow
    BY <2>1, <2>3, NoRequestKnown DEF HandlersKnow
  <2>. QED  BY <2>1, <2>3, <2>4 DEF CommentsInv, SavesShown, NoticesOnce
<1>2. CommentsInv /\ [CommentsNext]_commentVars => CommentsInv'
  <2> SUFFICES ASSUME CommentsInv, [CommentsNext]_commentVars PROVE CommentsInv'
    OBVIOUS
  <2>t. /\ comments \in Seq(CommentDocument) /\ saves \in Seq(CommentSave)
        /\ \A r \in CommentRequests : comment[r] \in Commentary
        /\ Len(saves) \in Nat /\ Nobody \notin Commenters
    BY CommentsAssumption DEF CommentsInv, CommentsTypeOK
  <2>1. ASSUME NEW r \in CommentRequests, NEW assignee \in Commenters \cup {Nobody},
               NEW author \in Commenters, NEW mentions \in SUBSET Commenters,
               ReadForComment(r, assignee, author, mentions)
        PROVE  CommentsInv'
    <3> DEFINE doc == [NoText EXCEPT !.author = author, !.mentions = mentions]
               q == [pc |-> "create", at |-> 0, doc |-> doc, assignee |-> assignee,
                     read |-> Len(saves)]
    <3>1. doc \in CommentDocument /\ doc.author = author /\ doc.mentions = mentions
      BY DEF NoText, CommentDocument
    <3>3. /\ comment' = [comment EXCEPT ![r] = q] /\ author \notin mentions
          /\ UNCHANGED <<comments, feed, notices, saves>>
      BY <2>1 DEF ReadForComment, StartComment
    <3> HIDE DEF doc
    <3>4. q \in Commentary /\ Knows(q)
      BY <2>t, <3>1, <3>3 DEF Commentary, Knows
    <3> HIDE DEF q
    <3>. QED  BY <3>3, <3>4, CommentsStay
  <2>2. ASSUME NEW r \in CommentRequests, NEW kind \in {"edit", "delete"},
               NEW c \in DOMAIN comments, FindComment(r, kind, c)
        PROVE  CommentsInv'
    <3> DEFINE q == [pc |-> kind, at |-> c, doc |-> comments[c], assignee |-> Nobody,
                     read |-> Len(saves)]
    <3>2. /\ comment' = [comment EXCEPT ![r] = q]
          /\ UNCHANGED <<comments, feed, notices, saves>>
      BY <2>2 DEF FindComment, StartComment
    <3>3. comments[c] \in CommentDocument /\ c \in Nat
      BY <2>t
    <3>4. q \in Commentary
      BY <2>t, <3>3 DEF Commentary
    <3>5. /\ q.read = Len(saves) /\ q.pc = kind /\ q.at = c /\ q.doc = comments[c]
      OBVIOUS
    <3> HIDE DEF q
    <3>6. Knows(q)
      BY <2>t, <3>5 DEF CommentsInv, SavesShown, Knows
    <3>. QED  BY <3>2, <3>4, <3>6, CommentsStay
  <2>3. ASSUME NEW r \in CommentRequests, CreateComment(r) PROVE CommentsInv'
    BY <2>3, CreateKeeps
  <2>4. ASSUME NEW r \in CommentRequests, EditComment(r) PROVE CommentsInv'
    <3> DEFINE c == comment[r].at
               d == [comment[r].doc EXCEPT !.text = Len(saves) + 1]
    <3>1. /\ comment[r].pc = "edit"
          /\ saves' = Append(saves, [comment |-> c, kind |-> "edit", read |-> comment[r].read])
          /\ comments' = [comments EXCEPT ![c] = [comment[r].doc EXCEPT !.text = Len(saves')]]
          /\ comment' = [comment EXCEPT ![r] = NoRequest]
          /\ UNCHANGED <<feed, notices>>
      BY <2>4 DEF EditComment, Commenting, Saved, EndComment
    <3>2. Len(saves') = Len(saves) + 1
      BY <2>t, <3>1
    <3>3. comments' = [comments EXCEPT ![c] = d]
      BY <3>1, <3>2
    <3>4. comment[r].doc \in CommentDocument
      BY <2>t DEF Commentary
    <3>5. /\ d \in CommentDocument
          /\ d.author = comment[r].doc.author /\ d.mentions = comment[r].doc.mentions
          /\ d.text = Len(saves) + 1 /\ d.deleted = comment[r].doc.deleted
      <4>1. Len(saves) + 1 \in Nat
        BY <2>t
      <4>. QED  BY <4>1, <3>4, DocumentChanged
    <3> HIDE DEF d
    <3>. QED  BY <3>1, <3>3, <3>5, OverwriteKeeps
  <2>5. ASSUME NEW r \in CommentRequests, DeleteComment(r) PROVE CommentsInv'
    <3> DEFINE c == comment[r].at
               d == [comment[r].doc EXCEPT !.deleted = TRUE]
    <3>1. /\ comment[r].pc = "delete"
          /\ saves' = Append(saves, [comment |-> c, kind |-> "delete",
                                     read |-> comment[r].read])
          /\ comments' = [comments EXCEPT ![c] = d]
          /\ comment' = [comment EXCEPT ![r] = NoRequest]
          /\ UNCHANGED <<feed, notices>>
      BY <2>5 DEF DeleteComment, Commenting, Saved, EndComment
    <3>2. comment[r].doc \in CommentDocument
      BY <2>t DEF Commentary
    <3>3. /\ d \in CommentDocument
          /\ d.author = comment[r].doc.author /\ d.mentions = comment[r].doc.mentions
          /\ d.text = comment[r].doc.text /\ d.deleted = TRUE
      <4>1. 0 \in Nat
        OBVIOUS
      <4>. QED  BY <4>1, <3>2, DocumentChanged
    <3> HIDE DEF d
    <3>. QED  BY <3>1, <3>3, OverwriteKeeps
  <2>6. ASSUME NEW r \in CommentRequests, CommentStops(r) PROVE CommentsInv'
    BY <2>6, NoRequestKnown, CommentsStay DEF CommentStops, EndComment, CommentsInv
  <2>7. CASE UNCHANGED commentVars
    BY <2>7 DEF commentVars, CommentsInv, CommentsTypeOK, SavesShown, Shows, WrittenOver,
       HandlersKnow, Knows, NoticesOnce
  <2>. QED  BY <2>1, <2>2, <2>3, <2>4, <2>5, <2>6, <2>7 DEF CommentsNext
<1>. QED  BY <1>1, <1>2, PTL DEF CommentsSpec

\* Edits and deletions hold unless a save that overlapped them wrote over them, and
\* nobody is told twice of a comment or of their own, for any number of handlers,
\* users and comments.
THEOREM CommentsAreExplained == CommentsSpec => []CommentsExplained
BY CommentsInvariance, CommentsInvImplies, PTL

-----------------------------------------------------------------------------
(***************************************************************************)
(* Broadcasts.  The position of a user in the list of the active users is  *)
(* its rank.  Ranks only grow while users arrive, so whoever a job had     *)
(* passed at a cursor it has passed for good; and a batch that is not full *)
(* ends at the last active user.                                           *)
(***************************************************************************)
Before(A, n) == {v \in A : v <= n}
Rank(A, n) == Cardinality(Before(A, n))

LEMMA BeforeIs ==
  ASSUME NEW A, NEW n
  PROVE  \A v : v \in Before(A, n) <=> v \in A /\ v <= n
BY Zenon DEF Before

LEMMA BeforeGrows ==
  ASSUME NEW A \in SUBSET Nat, NEW m \in Nat, NEW n \in Nat, m <= n
  PROVE  Before(A, m) \in SUBSET Before(A, n)
<1>0. \A v \in A : v \in Nat
  OBVIOUS
<1> SUFFICES ASSUME NEW v \in Before(A, m) PROVE v \in Before(A, n)
  OBVIOUS
<1>1. v \in A /\ v <= m
  BY BeforeIs
<1>2. v <= n
  BY <1>0, <1>1
<1>. QED  BY <1>1, <1>2, BeforeIs

LEMMA RankFacts ==
  ASSUME NEW A \in SUBSET Nat, IsFiniteSet(A)
  PROVE  /\ \A n \in Nat : IsFiniteSet(Before(A, n)) /\ Rank(A, n) \in Nat
         /\ \A m, n \in Nat : m <= n => Rank(A, m) <= Rank(A, n)
         /\ \A n \in Nat : Rank(A, n + 1) <= Rank(A, n) + 1
         /\ \A m \in Nat, n \in A : m < n => Rank(A, m) < Rank(A, n)
         /\ 0 \notin A => Rank(A, 0) = 0
<1>0. \A v \in A : v \in Nat
  OBVIOUS
<1>1. ASSUME NEW n \in Nat PROVE IsFiniteSet(Before(A, n)) /\ Rank(A, n) \in Nat
  <2>1. Before(A, n) \in SUBSET A
    BY DEF Before
  <2>2. IsFiniteSet(Before(A, n))
    BY <2>1, FS_Subset
  <2>. QED  BY <2>2, FS_CardinalityType DEF Rank
<1>2. ASSUME NEW m \in Nat, NEW n \in Nat, m <= n PROVE Rank(A, m) <= Rank(A, n)
  <2>2. Before(A, m) \in SUBSET Before(A, n)
    BY <1>2, BeforeGrows
  <2>. QED  BY <2>2, <1>1, FS_Subset DEF Rank
<1>3. ASSUME NEW n \in Nat PROVE Rank(A, n + 1) <= Rank(A, n) + 1
  <2>a. ASSUME NEW v \in Before(A, n + 1) PROVE v \in Before(A, n) \cup {n + 1}
    <3>1. v \in A /\ v <= n + 1
      BY BeforeIs
    <3>2. v <= n \/ v = n + 1
      BY <3>1, <1>0
    <3>. QED  BY <3>1, <3>2, BeforeIs
  <2>1. Before(A, n + 1) \in SUBSET (Before(A, n) \cup {n + 1})
    BY <2>a
  <2>b. /\ IsFiniteSet(Before(A, n) \cup {n + 1})
        /\ Cardinality(Before(A, n) \cup {n + 1}) =
             IF n + 1 \in Before(A, n) THEN Cardinality(Before(A, n))
             ELSE Cardinality(Before(A, n)) + 1
    BY <1>1, FS_AddElement
  <2>2. /\ IsFiniteSet(Before(A, n) \cup {n + 1})
        /\ Cardinality(Before(A, n) \cup {n + 1}) <= Cardinality(Before(A, n)) + 1
    BY <2>b, <1>1 DEF Rank
  <2>3. Cardinality(Before(A, n + 1)) <= Cardinality(Before(A, n) \cup {n + 1})
    BY <2>1, <2>2, FS_Subset
  <2>c. n + 1 \in Nat
    OBVIOUS
  <2>4. /\ n + 1 \in Nat /\ Rank(A, n) \in Nat /\ Rank(A, n + 1) \in Nat
        /\ Cardinality(Before(A, n) \cup {n + 1}) \in Nat
    BY <2>c, <1>1, <2>2, FS_CardinalityType
  <2>. QED  BY <2>2, <2>3, <2>4 DEF Rank
<1>4. ASSUME NEW m \in Nat, NEW n \in A, m < n PROVE Rank(A, m) < Rank(A, n)
  <2>1. n \in Nat /\ n \notin Before(A, m)
    BY <1>4, BeforeIs
  <2>a. m <= n /\ n <= n
    BY <1>4, <2>1
  <2>b. n \in Before(A, n)
    BY <2>a, BeforeIs
  <2>c. Before(A, m) \in SUBSET Before(A, n)
    BY <2>1, <2>a, BeforeGrows
  <2>2. Before(A, m) \cup {n} \in SUBSET Before(A, n)
    BY <2>b, <2>c
  <2>3. /\ IsFiniteSet(Before(A, m) \cup {n})
        /\ Cardinality(Before(A, m) \cup {n}) = Cardinality(Before(A, m)) + 1
    BY <1>1, <2>1, FS_AddElement
  <2>4. Cardinality(Before(A, m) \cup {n}) <= Cardinality(Before(A, n))
    BY <1>1, <2>1, <2>2, FS_Subset
  <2>5. Rank(A, m) \in Nat /\ Rank(A, n) \in Nat
    BY <1>1, <2>1
  <2>. QED  BY <2>3, <2>4, <2>5 DEF Rank
<1>5. 0 \notin A => Rank(A, 0) = 0
  <2>a. ASSUME 0 \notin A, NEW v \in Before(A, 0) PROVE FALSE
    <3>1. v \in A /\ v <= 0
      BY BeforeIs
    <3>. QED  BY <3>1, <2>a, <1>0
  <2>1. 0 \notin A => Before(A, 0) = {}
    BY <2>a
  <2>. QED  BY <2>1, FS_EmptySet DEF Rank
<1>. QED  BY <1>1, <1>2, <1>3, <1>4, <1>5

LEMMA RankGrows ==
  ASSUME NEW B \in SUBSET Nat, IsFiniteSet(B), NEW A \in SUBSET B, NEW n \in Nat
  PROVE  Rank(A, n) <= Rank(B, n) /\ Rank(A, n) \in Nat /\ Rank(B, n) \in Nat
<1>1. IsFiniteSet(A) /\ A \in SUBSET Nat
  BY FS_Subset
<1>2. Before(A, n) \in SUBSET Before(B, n)
  BY DEF Before
<1>3. IsFiniteSet(Before(B, n)) /\ Rank(A, n) \in Nat /\ Rank(B, n) \in Nat
  BY <1>1, RankFacts
<1>. QED  BY <1>2, <1>3, FS_Subset DEF Rank

\* A non-empty set of naturals has a least element.
LEMMA LeastOf ==
  ASSUME NEW T \in SUBSET Nat, T # {}
  PROVE  \E m \in T : \A k \in T : m <= k
<1>1. \A x, y \in Nat : x < y => <<x, y>> \in OpToRel(<, Nat)
  BY SMT DEF OpToRel
<1>2. PICK m \in T : \A k \in T : ~ (<<k, m>> \in OpToRel(<, Nat))
  BY NatLessThanWellFounded, WFMin, T \subseteq Nat, Zenon
<1>3. \A k \in T : ~ (k < m)
  BY <1>1, <1>2, Zenon
<1>4. \A k \in T : m <= k
  BY <1>3, SMT
<1>. QED  BY <1>4, Zenon

\* Ranks skip no number: one that is exceeded somewhere is reached before.
LEMMA RankReached ==
  ASSUME NEW A \in SUBSET Nat, IsFiniteSet(A), 0 \notin A,
         NEW k \in Nat, NEW u \in Nat, k < Rank(A, u)
  PROVE  \E m \in Nat : Rank(A, m) = k /\ k < Rank(A, m + 1)
<1> DEFINE T == {n \in Nat : k < Rank(A, n)}
<1>1. PICK n \in T : \A i \in T : n <= i
  BY LeastOf
<1>2. n \in Nat /\ k < Rank(A, n) /\ n # 0
  BY <1>1, RankFacts
<1>3. n - 1 \in Nat /\ (n - 1) + 1 = n
  BY <1>2
<1>4. n - 1 \notin T
  BY <1>1, <1>2, <1>3
<1>5. /\ Rank(A, n - 1) \in Nat /\ ~(k < Rank(A, n - 1))
      /\ Rank(A, (n - 1) + 1) <= Rank(A, n - 1) + 1 /\ Rank(A, n) \in Nat
  BY <1>2, <1>3, <1>4, RankFacts
<1>6. Rank(A, n - 1) = k
  BY <1>2, <1>3, <1>5
<1>. QED  BY <1>2, <1>3, <1>6

LEMMA UsersRanked ==
  ASSUME NEW A \in SUBSET Users
  PROVE  A \in SUBSET Nat /\ IsFiniteSet(A) /\ 0 \notin A
<1>0. 1 \in Int /\ MaxUsers \in Int
  BY BroadcastAssumption
<1>1. IsFiniteSet(Users)
  BY <1>0, FS_Interval DEF Users
<1>2. \A u \in Users : u \in Nat /\ u # 0
  BY BroadcastAssumption DEF Users
<1>. QED  BY <1>1, <1>2, FS_Subset

LEMMA BatchRanks ==
  ASSUME NEW c \in Nat
  PROVE  Batch(c) = {u \in active : c < Rank(active, u) /\ Rank(active, u) <= c + BatchSize}
BY DEF Batch, Rank, Before

\* A batch has at most BatchSize users, since no two have the same rank.
LEMMA BatchBounded ==
  ASSUME active \in SUBSET Users, NEW c \in Nat
  PROVE  /\ Batch(c) \in SUBSET active /\ IsFiniteSet(Batch(c))
         /\ Cardinality(Batch(c)) \in Nat /\ Cardinality(Batch(c)) <= BatchSize
<1> DEFINE S == Batch(c)
           T == c + 1 .. c + BatchSize
           f == [u \in S |-> Rank(active, u)]
<1>0. BatchSize \in Nat /\ BatchSize > 0
  BY BroadcastAssumption
<1>1. S = {u \in active : c < Rank(active, u) /\ Rank(active, u) <= c + BatchSize}
  BY BatchRanks
<1>2. active \in SUBSET Nat /\ IsFiniteSet(active)
  BY UsersRanked
<1>3. S \in SUBSET active /\ IsFiniteSet(S)
  BY <1>1, <1>2, FS_Subset
<1>4. IsFiniteSet(T) /\ Cardinality(T) = BatchSize
  BY <1>0, FS_Interval
<1> HIDE DEF S
<1>5. \A u \in S : u \in Nat /\ Rank(active, u) \in T
  BY <1>0, <1>1, <1>2, RankFacts
<1>6. \A u, v \in S : Rank(active, u) = Rank(active, v) => u = v
  <2> SUFFICES ASSUME NEW u \in S, NEW v \in S, u # v
               PROVE  Rank(active, u) # Rank(active, v)
    OBVIOUS
  <2>1. /\ u \in Nat /\ v \in Nat /\ u \in active /\ v \in active
        /\ Rank(active, u) \in Nat /\ Rank(active, v) \in Nat
    BY <1>2, <1>3, <1>5, RankFacts
  <2>2. CASE u < v
    BY <2>1, <2>2, <1>2, RankFacts
  <2>3. CASE v < u
    BY <2>1, <2>3, <1>2, RankFacts
  <2>. QED  BY <2>1, <2>2, <2>3
<1>7. f \in Injection(S, T)
  BY <1>5, <1>6 DEF Injection, IsInjective
<1>8. Cardinality(S) <= Cardinality(T)
  BY <1>4, <1>7, FS_Injection
<1>9. Cardinality(S) \in Nat
  BY <1>3, FS_CardinalityType
<1>. QED  BY <1>3, <1>4, <1>8, <1>9 DEF S

\* A batch that is not full ends at the last active user.
LEMMA ShortBatch ==
  ASSUME active \in SUBSET Users, NEW c \in Nat, Cardinality(Batch(c)) < BatchSize,
         NEW u \in active
  PROVE  Rank(active, u) <= c + BatchSize
<1>0. BatchSize \in Nat /\ BatchSize > 0 /\ c + BatchSize \in Nat
  BY BroadcastAssumption
<1>1. active \in SUBSET Nat /\ IsFiniteSet(active) /\ 0 \notin active /\ u \in Nat
  BY UsersRanked
<1>2. Rank(active, u) \in Nat
  BY <1>1, RankFacts
<1> SUFFICES ASSUME c + BatchSize < Rank(active, u) PROVE FALSE
  BY <1>0, <1>2
<1>3. c < Rank(active, u)
  BY <1>0, <1>2
<1>4. PICK m \in Nat : Rank(active, m) = c /\ c < Rank(active, m + 1)
  BY <1>1, <1>3, RankReached
<1>5. PICK n \in Nat : Rank(active, n) = c + BatchSize
  BY <1>0, <1>1, RankReached
<1>6. m <= n
  <2>1. n <= m => Rank(active, n) <= Rank(active, m)
    BY <1>1, RankFacts
  <2>. QED  BY <2>1, <1>0, <1>4, <1>5
<1> DEFINE D == Before(active, n) \ Before(active, m)
<1>7. Before(active, n) \cap Before(active, m) = Before(active, m)
  <2>1. Before(active, m) \in SUBSET Before(active, n)
    BY <1>6, <1>1, BeforeGrows
  <2>. QED  BY <2>1
<1>8. IsFiniteSet(Before(active, n))
  BY <1>1, RankFacts
<1>9. IsFiniteSet(D) /\ Cardinality(D) = BatchSize
  <2>1. IsFiniteSet(D) /\ Cardinality(D) = Cardinality(Before(active, n))
                            - Cardinality(Before(active, n) \cap Before(active, m))
    BY <1>8, FS_Difference
  <2>. QED  BY <2>1, <1>7, <1>4, <1>5, <1>0 DEF Rank
<1>10. D \in SUBSET Batch(c)
  <2> SUFFICES ASSUME NEW v \in D PROVE v \in Batch(c)
    OBVIOUS
  <2>1. v \in active /\ v \in Nat /\ v <= n /\ m + 1 <= v
    BY <1>1 DEF Before
  <2>2. /\ Rank(active, m + 1) <= Rank(active, v) /\ Rank(active, v) <= Rank(active, n)
        /\ Rank(active, m + 1) \in Nat /\ Rank(active, v) \in Nat
    BY <2>1, <1>1, RankFacts
  <2>3. c < Rank(active, v) /\ Rank(active, v) <= c + BatchSize
    BY <2>2, <1>0, <1>4, <1>5
  <2>. QED  BY <2>1, <2>3, BatchRanks
<1>11. Cardinality(D) <= Cardinality(Batch(c)) /\ Cardinality(Batch(c)) \in Nat
  BY <1>10, BatchBounded, FS_Subset
<1>. QED  BY <1>0, <1>9, <1>11

-----------------------------------------------------------------------------
\* Whom a job is for and had passed when it came to position n has been addressed.
Reached(j, n) == \A u \in audience[j] : Rank(active, u) <= n => u \in addressed[j]

\* What a pod at work has done of its job, and has left of its batch.
Working(q) ==
  q.pc # "waiting" =>
    /\ q.job \in DOMAIN jobs /\ Reached(q.job, q.cursor)
    /\ q.pc = "address" =>
         /\ q.size <= BatchSize
         /\ \A u \in audience[q.job] :
              Rank(active, u) <= q.cursor + q.size \/ q.size < BatchSize
                => u \in addressed[q.job] \cup q.left

JobsReached ==
  \A j \in DOMAIN jobs :
    /\ audience[j] \subseteq active
    /\ Reached(j, jobs[j].cursor)
    /\ jobs[j].status = "completed" => audience[j] \subseteq addressed[j]

BroadcastInv ==
  /\ BroadcastTypeOK
  /\ Len(addressed) = Len(jobs) /\ Len(audience) = Len(jobs)
  /\ JobsReached
  /\ \A p \in Pods : Working(pod[p])

\* The same of the next state, for a position and a pod as they are.
ReachedNext(j, n) == \A u \in audience'[j] : Rank(active', u) <= n => u \in addressed'[j]

WorkingNext(q) ==
  q.pc # "waiting" =>
    /\ q.job \in DOMAIN jobs' /\ ReachedNext(q.job, q.cursor)
    /\ q.pc = "address" =>
         /\ q.size <= BatchSize
         /\ \A u \in audience'[q.job] :
              Rank(active', u) <= q.cursor + q.size \/ q.size < BatchSize
                => u \in addressed'[q.job] \cup q.left

LEMMA BroadcastNextStated ==
  ASSUME BroadcastTypeOK', Len(addressed') = Len(jobs'), Len(audience') = Len(jobs'),
         \A j \in DOMAIN jobs' :
           /\ audience'[j] \subseteq active'
           /\ ReachedNext(j, jobs'[j].cursor)
           /\ jobs'[j].status = "completed" => audience'[j] \subseteq addressed'[j],
         \A p \in Pods : WorkingNext(pod'[p])
  PROVE  BroadcastInv'
BY DEF BroadcastInv, JobsReached, Reached, ReachedNext, Working, WorkingNext

LEMMA BroadcastTypes ==
  ASSUME BroadcastInv
  PROVE  /\ BroadcastTypeOK /\ jobs \in Seq(BroadcastJob) /\ active \in SUBSET Users
         /\ \A p \in Pods : pod[p] \in BroadcastWork
         /\ Len(jobs) \in Nat /\ DOMAIN jobs = 1 .. Len(jobs)
         /\ DOMAIN addressed = DOMAIN jobs /\ DOMAIN audience = DOMAIN jobs
         /\ \A j \in DOMAIN jobs : /\ jobs[j] \in BroadcastJob
                                   /\ addressed[j] \in SUBSET Users
                                   /\ audience[j] \in SUBSET Users
BY DEF BroadcastInv, BroadcastTypeOK

\* Whoever was passed stays passed while users arrive and are addressed.
LEMMA ReachedStays ==
  ASSUME BroadcastInv, active' \in SUBSET Users, active \subseteq active',
         DOMAIN jobs \subseteq DOMAIN jobs',
         \A j \in DOMAIN jobs : audience'[j] = audience[j] /\ addressed[j] \subseteq addressed'[j]
  PROVE  /\ \A j \in DOMAIN jobs, n \in Nat : Reached(j, n) => ReachedNext(j, n)
         /\ \A q \in BroadcastWork : Working(q) => WorkingNext(q)
<1>1. active' \in SUBSET Nat /\ IsFiniteSet(active')
  BY UsersRanked
<1>2. \A u \in Users : /\ u \in Nat /\ Rank(active, u) \in Nat /\ Rank(active', u) \in Nat
                       /\ Rank(active, u) <= Rank(active', u)
  BY <1>1, RankGrows, UsersRanked
<1>3. \A j \in DOMAIN jobs : audience[j] \subseteq Users
  BY BroadcastTypes
<1>4. \A j \in DOMAIN jobs, n \in Nat : Reached(j, n) => ReachedNext(j, n)
  BY <1>2, <1>3 DEF Reached, ReachedNext
<1>5. ASSUME NEW q \in BroadcastWork, Working(q) PROVE WorkingNext(q)
  <2>1. q.cursor \in Nat /\ q.size \in Nat /\ q.cursor + q.size \in Nat
    BY DEF BroadcastWork
  <2>2. q.pc # "waiting" => /\ q.job \in DOMAIN jobs /\ q.job \in DOMAIN jobs'
                            /\ ReachedNext(q.job, q.cursor)
    BY <1>4, <1>5, <2>1 DEF Working
  <2>3. ASSUME q.pc = "address", NEW u \in audience'[q.job],
               Rank(active', u) <= q.cursor + q.size \/ q.size < BatchSize
        PROVE  u \in addressed'[q.job] \cup q.left
    <3>1. q.job \in DOMAIN jobs /\ u \in audience[q.job]
      BY <2>2, <2>3
    <3>2. Rank(active, u) <= q.cursor + q.size \/ q.size < BatchSize
      BY <2>1, <2>3, <3>1, <1>2, <1>3
    <3>3. u \in addressed[q.job] \cup q.left
      BY <1>5, <2>3, <3>1, <3>2 DEF Working
    <3>. QED  BY <3>1, <3>3
  <2>4. q.pc = "address" => q.size <= BatchSize
    BY <1>5 DEF Working
  <2>. QED  BY <2>2, <2>3, <2>4 DEF WorkingNext
<1>. QED  BY <1>4, <1>5

\* A step of one pod, after which it does what q says.
LEMMA PodMoves ==
  ASSUME BroadcastInv, NEW p \in Pods, NEW q \in BroadcastWork,
         pod' = [pod EXCEPT ![p] = q]
  PROVE  /\ pod' \in [Pods -> BroadcastWork]
         /\ \A r \in Pods : pod'[r] = IF r = p THEN q ELSE pod[r]
BY DEF BroadcastInv, BroadcastTypeOK

\* The invariant the property rests on.
THEOREM BroadcastInvariance ==
  BroadcastInit /\ [][BroadcastNext]_broadcastVars => []BroadcastInv
<1>0. NoJob \in BroadcastWork /\ NoJob.pc = "waiting" /\ BatchSize \in Nat
  BY BroadcastAssumption DEF NoJob, BroadcastWork
<1>1. BroadcastInit => BroadcastInv
  <2> SUFFICES ASSUME BroadcastInit PROVE BroadcastInv
    OBVIOUS
  <2>1. /\ jobs = <<>> /\ active \in SUBSET Users /\ addressed = <<>> /\ audience = <<>>
        /\ pod = [p \in Pods |-> NoJob] /\ broadcastFaults = 0
    BY DEF BroadcastInit
  <2>2. BroadcastTypeOK
    BY <2>1, <1>0 DEF BroadcastTypeOK
  <2>3. \A p \in Pods : Working(pod[p])
    BY <2>1, <1>0 DEF Working
  <2>. QED  BY <2>1, <2>2, <2>3 DEF BroadcastInv, JobsReached
<1>2. BroadcastInv /\ [BroadcastNext]_broadcastVars => BroadcastInv'
  <2> SUFFICES ASSUME BroadcastInv, [BroadcastNext]_broadcastVars PROVE BroadcastInv'
    OBVIOUS
  <2>t. /\ BroadcastTypeOK /\ jobs \in Seq(BroadcastJob) /\ active \in SUBSET Users
        /\ \A p \in Pods : pod[p] \in BroadcastWork
        /\ Len(jobs) \in Nat /\ DOMAIN jobs = 1 .. Len(jobs)
        /\ DOMAIN addressed = DOMAIN jobs /\ DOMAIN audience = DOMAIN jobs
        /\ \A j \in DOMAIN jobs : /\ jobs[j] \in BroadcastJob
                                  /\ addressed[j] \in SUBSET Users
                                  /\ audience[j] \in SUBSET Users
    BY BroadcastTypes
  <2>s. /\ addressed \in Seq(SUBSET Users) /\ audience \in Seq(SUBSET Users)
        /\ pod \in [Pods -> BroadcastWork] /\ broadcastFaults \in Nat
        /\ Len(addressed) = Len(jobs) /\ Len(audience) = Len(jobs)
    BY DEF BroadcastInv, BroadcastTypeOK
  <2>w. \A p \in Pods : Working(pod[p])
    BY DEF BroadcastInv
  <2>j. \A j \in DOMAIN jobs : /\ audience[j] \subseteq active /\ Reached(j, jobs[j].cursor)
                               /\ jobs[j].cursor \in Nat
                               /\ jobs[j].status = "completed" => audience[j] \subseteq addressed[j]
    BY <2>t DEF BroadcastInv, JobsReached, BroadcastJob
  <2>1. ASSUME NEW k \in JobKeys, Enqueue(k) PROVE BroadcastInv'
    <3> DEFINE job == [key |-> k, status |-> "pending", cursor |-> 0, claim |-> "none"]
               L == Len(jobs) + 1
    <3>1. /\ jobs' = Append(jobs, job) /\ addressed' = Append(addressed, {})
          /\ audience' = Append(audience, active)
          /\ UNCHANGED <<active, pod, broadcastFaults>>
      BY <2>1 DEF Enqueue
    <3>2. job \in BroadcastJob /\ job.cursor = 0 /\ job.status = "pending"
      BY DEF BroadcastJob
    <3> HIDE DEF job
    <3>3. /\ jobs' \in Seq(BroadcastJob) /\ Len(jobs') = L /\ DOMAIN jobs' = 1 .. L
          /\ jobs'[L] = job /\ \A j \in DOMAIN jobs : jobs'[j] = jobs[j]
      BY <3>1, <3>2, <2>t
    <3>4. /\ addressed' \in Seq(SUBSET Users) /\ Len(addressed') = L
          /\ audience' \in Seq(SUBSET Users) /\ Len(audience') = L /\ audience'[L] = active
          /\ \A j \in DOMAIN jobs : audience'[j] = audience[j] /\ addressed'[j] = addressed[j]
      BY <3>1, <2>t, <2>s
    <3>5. BroadcastTypeOK'
      BY <3>1, <3>3, <3>4, <2>t, <2>s DEF BroadcastTypeOK
    <3>6. DOMAIN jobs' = DOMAIN jobs \cup {L}
      BY <3>3, <2>t
    <3>7. /\ \A j \in DOMAIN jobs, n \in Nat : Reached(j, n) => ReachedNext(j, n)
          /\ \A q \in BroadcastWork : Working(q) => WorkingNext(q)
      BY <3>1, <3>4, <3>6, <2>t, ReachedStays
    <3>8. ReachedNext(L, 0)
      <4>1. active \in SUBSET Nat /\ IsFiniteSet(active) /\ 0 \notin active
        BY <2>t, UsersRanked
      <4>2. Rank(active, 0) = 0 /\ \A u \in active : u \in Nat /\ 0 < u /\ Rank(active, u) \in Nat
        BY <4>1, RankFacts
      <4>3. \A u \in active : 0 < Rank(active, u)
        BY <4>1, <4>2, RankFacts
      <4>. QED  BY <3>1, <3>4, <4>2, <4>3 DEF ReachedNext
    <3>9. \A j \in DOMAIN jobs' :
            /\ audience'[j] \subseteq active'
            /\ ReachedNext(j, jobs'[j].cursor)
            /\ jobs'[j].status = "completed" => audience'[j] \subseteq addressed'[j]
      BY <3>1, <3>2, <3>3, <3>4, <3>6, <3>7, <3>8, <2>j
    <3>10. \A p \in Pods : WorkingNext(pod'[p])
      BY <3>1, <3>7, <2>t, <2>w
    <3>. QED  BY <3>3, <3>4, <3>5, <3>9, <3>10, BroadcastNextStated
  <2>2. ASSUME NEW u \in Users, UserArrives(u) PROVE BroadcastInv'
    <3>1. active' = active \cup {u} /\ UNCHANGED <<jobs, addressed, pod, broadcastFaults, audience>>
      BY <2>2 DEF UserArrives
    <3>2. active' \in SUBSET Users
      BY <3>1, <2>t
    <3>3. /\ \A j \in DOMAIN jobs, n \in Nat : Reached(j, n) => ReachedNext(j, n)
          /\ \A q \in BroadcastWork : Working(q) => WorkingNext(q)
      BY <3>1, <3>2, ReachedStays
    <3>4. BroadcastTypeOK'
      BY <3>1, <3>2, <2>t, <2>s DEF BroadcastTypeOK
    <3>5. \A j \in DOMAIN jobs' :
            /\ audience'[j] \subseteq active'
            /\ ReachedNext(j, jobs'[j].cursor)
            /\ jobs'[j].status = "completed" => audience'[j] \subseteq addressed'[j]
      BY <3>1, <3>3, <2>j
    <3>6. \A p \in Pods : WorkingNext(pod'[p])
      BY <3>1, <3>3, <2>t, <2>w
    <3>. QED  BY <3>1, <3>4, <3>5, <3>6, <2>s, BroadcastNextStated
  <2>3. ASSUME UNCHANGED <<active, addressed, audience>>, DOMAIN jobs' = DOMAIN jobs
        PROVE  /\ \A j \in DOMAIN jobs, n \in Nat : Reached(j, n) => ReachedNext(j, n)
               /\ \A q \in BroadcastWork : Working(q) => WorkingNext(q)
    BY <2>3, <2>t, ReachedStays
  <2>4. ASSUME NEW p \in Pods, ClaimJob(p) PROVE BroadcastInv'
    <3>1. PICK j \in DOMAIN jobs :
            /\ Claimable(j)
            /\ jobs' = [jobs EXCEPT ![j] = [@ EXCEPT !.status = "processing", !.claim = "held"]]
            /\ pod' = [pod EXCEPT ![p] = [pc |-> "list", job |-> j, cursor |-> jobs[j].cursor,
                                          left |-> {}, size |-> 0]]
      BY <2>4 DEF ClaimJob
    <3>2. UNCHANGED <<active, addressed, broadcastFaults, audience>>
      BY <2>4 DEF ClaimJob
    <3> DEFINE x == [jobs[j] EXCEPT !.status = "processing", !.claim = "held"]
               q == [pc |-> "list", job |-> j, cursor |-> jobs[j].cursor,
                     left |-> {}, size |-> 0]
    <3>3. x \in BroadcastJob /\ x.status = "processing" /\ x.cursor = jobs[j].cursor
      BY <2>t DEF BroadcastJob
    <3>4. /\ q \in BroadcastWork /\ q.pc = "list" /\ q.job = j /\ q.cursor = jobs[j].cursor
      BY <2>t, <2>j DEF BroadcastWork
    <3>5. jobs' = [jobs EXCEPT ![j] = x] /\ pod' = [pod EXCEPT ![p] = q]
      BY <3>1
    <3> HIDE DEF x, q
    <3>6. /\ jobs' \in Seq(BroadcastJob) /\ DOMAIN jobs' = DOMAIN jobs /\ Len(jobs') = Len(jobs)
          /\ \A i \in DOMAIN jobs : jobs'[i] = IF i = j THEN x ELSE jobs[i]
      BY <3>3, <3>5, <2>t
    <3>7. /\ pod' \in [Pods -> BroadcastWork]
          /\ \A r \in Pods : pod'[r] = IF r = p THEN q ELSE pod[r]
      BY <3>4, <3>5, PodMoves
    <3>8. BroadcastTypeOK'
      BY <3>2, <3>6, <3>7, <2>t, <2>s DEF BroadcastTypeOK
    <3>9. \A i \in DOMAIN jobs' :
            /\ audience'[i] \subseteq active'
            /\ ReachedNext(i, jobs'[i].cursor)
            /\ jobs'[i].status = "completed" => audience'[i] \subseteq addressed'[i]
      BY <3>2, <3>3, <3>6, <2>3, <2>j
    <3>10. \A r \in Pods : WorkingNext(pod'[r])
      BY <3>2, <3>4, <3>6, <3>7, <2>3, <2>j, <2>t, <2>w DEF WorkingNext
    <3>. QED  BY <3>2, <3>6, <3>8, <3>9, <3>10, <2>s, BroadcastNextStated
  \* A step of one pod that stores nothing.
  <2>5. ASSUME NEW p \in Pods, NEW q \in BroadcastWork, Working(q),
               pod' = [pod EXCEPT ![p] = q], broadcastFaults' \in Nat,
               UNCHANGED <<jobs, active, addressed, audience>>
        PROVE  BroadcastInv'
    <3>1. /\ pod' \in [Pods -> BroadcastWork]
          /\ \A r \in Pods : pod'[r] = IF r = p THEN q ELSE pod[r]
      BY <2>5, PodMoves
    <3>2. BroadcastTypeOK'
      BY <2>5, <3>1, <2>t, <2>s DEF BroadcastTypeOK
    <3>3. \A j \in DOMAIN jobs' :
            /\ audience'[j] \subseteq active'
            /\ ReachedNext(j, jobs'[j].cursor)
            /\ jobs'[j].status = "completed" => audience'[j] \subseteq addressed'[j]
      BY <2>3, <2>5, <2>j
    <3>4. \A r \in Pods : WorkingNext(pod'[r])
      BY <2>3, <2>5, <3>1, <2>t, <2>w
    <3>. QED  BY <2>5, <3>2, <3>3, <3>4, <2>s, BroadcastNextStated
  <2>6. ASSUME NEW p \in Pods, ListActiveUsers(p) PROVE BroadcastInv'
    <3> DEFINE c == pod[p].cursor
               q == [pod[p] EXCEPT !.pc = "address", !.left = Batch(c),
                                   !.size = Cardinality(Batch(c))]
    <3>1. /\ pod[p].pc = "list" /\ pod' = [pod EXCEPT ![p] = q]
          /\ UNCHANGED <<jobs, active, addressed, broadcastFaults, audience>>
      BY <2>6 DEF ListActiveUsers
    <3>2. c \in Nat
      BY <2>t DEF BroadcastWork
    <3>3. /\ Batch(c) \in SUBSET active /\ Cardinality(Batch(c)) \in Nat
          /\ Cardinality(Batch(c)) <= BatchSize
      BY <3>2, <2>t, BatchBounded
    <3>4. /\ q \in BroadcastWork /\ q.pc = "address" /\ q.job = pod[p].job /\ q.cursor = c
          /\ q.left = Batch(c) /\ q.size = Cardinality(Batch(c))
      BY <3>3, <2>t DEF BroadcastWork
    <3>5. pod[p].job \in DOMAIN jobs /\ Reached(pod[p].job, c)
      BY <3>1, <2>w DEF Working
    <3> HIDE DEF q, c
    <3>6. ASSUME NEW u \in audience[pod[p].job],
                 Rank(active, u) <= c + Cardinality(Batch(c))
                   \/ Cardinality(Batch(c)) < BatchSize
          PROVE  u \in addressed[pod[p].job] \cup Batch(c)
      <4>1. u \in active /\ u \in Nat
        BY <3>5, <2>j, <2>t, UsersRanked
      <4>2. Rank(active, u) \in Nat
        BY <4>1, <2>t, UsersRanked, RankFacts
      <4>3. Rank(active, u) <= c + BatchSize
        BY <4>1, <4>2, <3>2, <3>3, <3>6, <2>t, <1>0, ShortBatch
      <4>4. CASE Rank(active, u) <= c
        BY <4>4, <3>5 DEF Reached
      <4>5. CASE c < Rank(active, u)
        BY <4>1, <4>3, <4>5, <3>2, BatchRanks
      <4>. QED  BY <4>2, <4>4, <4>5, <3>2
    <3>7. Working(q)
      BY <3>3, <3>4, <3>5, <3>6 DEF Working
    <3>. QED  BY <3>1, <3>4, <3>7, <2>5, <2>s
  <2>7. ASSUME NEW p \in Pods, AddressNext(p) PROVE BroadcastInv'
    <3> DEFINE j == pod[p].job
               u == Min(pod[p].left)
               q == [pod[p] EXCEPT !.left = pod[p].left \ {u}]
    <3>1. /\ pod[p].pc = "address" /\ pod[p].left # {} /\ pod[p] \in BroadcastWork
          /\ addressed' = [addressed EXCEPT ![j] = addressed[j] \cup {u}]
          /\ pod' = [pod EXCEPT ![p].left = pod[p].left \ {u}]
          /\ UNCHANGED <<jobs, active, broadcastFaults, audience>>
      BY <2>7, <2>t DEF AddressNext
    <3>2. /\ j \in DOMAIN jobs /\ Working(pod[p]) /\ pod[p].left \in SUBSET Users
      BY <3>1, <2>w DEF Working, BroadcastWork
    <3>3. u \in pod[p].left
      <4>1. pod[p].left \in SUBSET Nat
        BY <3>2, UsersRanked
      <4>2. PICK m \in pod[p].left : \A k \in pod[p].left : m <= k
        BY <4>1, <3>1, LeastOf
      <4>. QED  BY <4>1, <4>2 DEF Min
    <3>4. /\ q \in BroadcastWork /\ q.pc = "address" /\ q.job = j /\ q.cursor = pod[p].cursor
          /\ q.size = pod[p].size /\ q.left = pod[p].left \ {u}
      BY <3>1, <3>2 DEF BroadcastWork
    <3>5. pod' = [pod EXCEPT ![p] = q]
      BY <3>1
    <3> HIDE DEF u, q, j
    <3>6. /\ pod' \in [Pods -> BroadcastWork]
          /\ \A r \in Pods : pod'[r] = IF r = p THEN q ELSE pod[r]
      BY <3>4, <3>5, PodMoves
    <3>7. /\ addressed' \in Seq(SUBSET Users) /\ Len(addressed') = Len(addressed)
          /\ \A i \in DOMAIN jobs : addressed'[i] = IF i = j THEN addressed[j] \cup {u}
                                                    ELSE addressed[i]
      BY <3>1, <3>2, <3>3, <2>t, <2>s
    <3>8. BroadcastTypeOK'
      BY <3>1, <3>6, <3>7, <2>t, <2>s DEF BroadcastTypeOK
    <3>9. /\ \A i \in DOMAIN jobs, n \in Nat : Reached(i, n) => ReachedNext(i, n)
          /\ \A x \in BroadcastWork : Working(x) => WorkingNext(x)
      BY <3>1, <3>7, <2>t, ReachedStays
    <3>10. \A i \in DOMAIN jobs' :
             /\ audience'[i] \subseteq active'
             /\ ReachedNext(i, jobs'[i].cursor)
             /\ jobs'[i].status = "completed" => audience'[i] \subseteq addressed'[i]
      BY <3>1, <3>7, <3>9, <2>j
    <3>11. WorkingNext(q)
      <4>1. WorkingNext(pod[p])
        BY <3>1, <3>2, <3>9
      <4>2. u \in addressed'[j]
        BY <3>2, <3>7
      <4>. QED  BY <4>1, <4>2, <3>1, <3>4 DEF WorkingNext, j
    <3>12. \A r \in Pods : WorkingNext(pod'[r])
      BY <3>6, <3>9, <3>11, <2>t, <2>w
    <3>. QED  BY <3>1, <3>7, <3>8, <3>10, <3>12, <2>s, BroadcastNextStated
  <2>8. ASSUME NEW p \in Pods, SaveProgress(p) PROVE BroadcastInv'
    <3> DEFINE j == pod[p].job
               s == IF pod[p].size < BatchSize THEN "completed" ELSE jobs[j].status
               c == IF pod[p].size = 0 THEN jobs[j].cursor ELSE pod[p].cursor + pod[p].size
               x == [jobs[j] EXCEPT !.claim = "none", !.status = s, !.cursor = c]
    <3>a. jobs' = [jobs EXCEPT ![j] = x]
      BY <2>8 DEF SaveProgress
    <3>1. /\ pod[p].pc = "address" /\ pod[p].left = {} /\ pod[p] \in BroadcastWork
          /\ jobs' = [jobs EXCEPT ![j] = x] /\ pod' = [pod EXCEPT ![p] = NoJob]
          /\ UNCHANGED <<active, addressed, broadcastFaults, audience>>
      BY <2>8, <2>t, <3>a DEF SaveProgress
    <3>2. /\ j \in DOMAIN jobs /\ Reached(j, pod[p].cursor)
          /\ pod[p].size \in Nat /\ pod[p].cursor \in Nat
          /\ \A u \in audience[j] :
               Rank(active, u) <= pod[p].cursor + pod[p].size \/ pod[p].size < BatchSize
                 => u \in addressed[j]
      BY <3>1, <2>w DEF Working, BroadcastWork
    <3>b. s \in {"pending", "processing", "completed"} /\ c \in Nat /\ jobs[j] \in BroadcastJob
      <4>1. jobs[j] \in BroadcastJob
        BY <3>2, <2>t
      <4>2. jobs[j].status \in {"pending", "processing", "completed"} /\ jobs[j].cursor \in Nat
        BY <4>1 DEF BroadcastJob
      <4>. QED  BY <3>2, <4>1, <4>2
    <3> HIDE DEF s, c
    <3>c. x \in BroadcastJob /\ x.status = s /\ x.cursor = c
      BY <3>b DEF BroadcastJob
    <3> HIDE DEF x
    <3>3. /\ x \in BroadcastJob
          /\ x.status = IF pod[p].size < BatchSize THEN "completed" ELSE jobs[j].status
          /\ x.cursor = IF pod[p].size = 0 THEN jobs[j].cursor
                        ELSE pod[p].cursor + pod[p].size
      BY <3>c DEF s, c
    <3> HIDE DEF j
    <3>4. /\ jobs' \in Seq(BroadcastJob) /\ DOMAIN jobs' = DOMAIN jobs /\ Len(jobs') = Len(jobs)
          /\ \A i \in DOMAIN jobs : jobs'[i] = IF i = j THEN x ELSE jobs[i]
      BY <3>1, <3>2, <3>3, <2>t
    <3>5. /\ pod' \in [Pods -> BroadcastWork]
          /\ \A r \in Pods : pod'[r] = IF r = p THEN NoJob ELSE pod[r]
      BY <3>1, <1>0, PodMoves
    <3>6. BroadcastTypeOK'
      BY <3>1, <3>4, <3>5, <2>t, <2>s DEF BroadcastTypeOK
    <3>7. Reached(j, x.cursor) /\ x.cursor \in Nat
      BY <3>2, <3>3, <2>j DEF Reached
    <3>8. x.status = "completed" => audience[j] \subseteq addressed[j]
      BY <3>2, <3>3, <2>j
    <3>9. \A i \in DOMAIN jobs' :
            /\ audience'[i] \subseteq active'
            /\ ReachedNext(i, jobs'[i].cursor)
            /\ jobs'[i].status = "completed" => audience'[i] \subseteq addressed'[i]
      BY <3>1, <3>4, <3>7, <3>8, <2>3, <2>j
    <3>10. \A r \in Pods : WorkingNext(pod'[r])
      BY <3>1, <3>4, <3>5, <2>3, <2>t, <2>w, <1>0 DEF WorkingNext
    <3>. QED  BY <3>1, <3>4, <3>6, <3>9, <3>10, <2>s, BroadcastNextStated
  <2>9. ASSUME NEW p \in Pods, ProcessingStops(p) PROVE BroadcastInv'
    <3>1. /\ broadcastFaults' \in Nat /\ pod' = [pod EXCEPT ![p] = NoJob]
          /\ UNCHANGED <<jobs, active, addressed, audience>>
      BY <2>9, <2>s DEF ProcessingStops
    <3>2. Working(NoJob)
      BY <1>0 DEF Working
    <3>. QED  BY <3>1, <3>2, <2>5, <1>0
  <2>10. ASSUME NEW j \in DOMAIN jobs, ClaimRunsOut(j) PROVE BroadcastInv'
    <3> DEFINE x == [jobs[j] EXCEPT !.claim = "over"]
    <3>1. /\ jobs' = [jobs EXCEPT ![j].claim = "over"]
          /\ UNCHANGED <<active, addressed, pod, broadcastFaults, audience>>
      BY <2>10 DEF ClaimRunsOut
    <3>2. x \in BroadcastJob /\ x.status = jobs[j].status /\ x.cursor = jobs[j].cursor
      BY <2>t DEF BroadcastJob
    <3>3. jobs' = [jobs EXCEPT ![j] = x]
      BY <3>1
    <3> HIDE DEF x
    <3>4. /\ jobs' \in Seq(BroadcastJob) /\ DOMAIN jobs' = DOMAIN jobs /\ Len(jobs') = Len(jobs)
          /\ \A i \in DOMAIN jobs : jobs'[i] = IF i = j THEN x ELSE jobs[i]
      BY <3>2, <3>3, <2>t
    <3>5. BroadcastTypeOK'
      BY <3>1, <3>4, <2>t, <2>s DEF BroadcastTypeOK
    <3>6. \A i \in DOMAIN jobs' :
            /\ audience'[i] \subseteq active'
            /\ ReachedNext(i, jobs'[i].cursor)
            /\ jobs'[i].status = "completed" => audience'[i] \subseteq addressed'[i]
      BY <3>1, <3>2, <3>4, <2>3, <2>j
    <3>7. \A r \in Pods : WorkingNext(pod'[r])
      BY <3>1, <3>4, <2>3, <2>t, <2>w
    <3>. QED  BY <3>1, <3>4, <3>5, <3>6, <3>7, <2>s, BroadcastNextStated
  <2>11. CASE UNCHANGED broadcastVars
    BY <2>11 DEF broadcastVars, BroadcastInv, BroadcastTypeOK, JobsReached, Reached, Working
  <2>. QED  BY <2>1, <2>2, <2>4, <2>6, <2>7, <2>8, <2>9, <2>10, <2>11 DEF BroadcastNext
<1>. QED  BY <1>1, <1>2, PTL

\* A completed broadcast has reached every user who was active when it was asked for,
\* for any number of pods, users and jobs and any size of a batch.
THEOREM CompletedReaches == BroadcastSpec => []CompletedReachedEveryone
<1>1. BroadcastInv => CompletedReachedEveryone
  BY DEF BroadcastInv, JobsReached, CompletedReachedEveryone
<1>. QED  BY <1>1, BroadcastInvariance, PTL DEF BroadcastSpec

-----------------------------------------------------------------------------
(***************************************************************************)
(* Workspace directory.  Once the workspace was deleted its owner is no    *)
(* member, so who writes its row then had passed the check before; so had  *)
(* who writes a project, unless somebody was made a manager by then, which *)
(* was again the work of such an execution.  A change that a cache does    *)
(* not show yet has an invalidation under way, or a cause on record.       *)
(***************************************************************************)
VisitRecord == [
  pc : {"none", "set_workspace", "set_list", "commit", "save_workspace",
        "soft_delete", "delete_workspace", "create_project", "update_project",
        "delete_project", "delete_list", "set_role"},
  user : People, name : Nat, has : BOOLEAN, early : BOOLEAN]
SpaceRow == [state : {"none", "live", "deleted"}, name : Nat]
CachedList == [kept : BOOLEAN, has : BOOLEAN]
Tale == [over : BOOLEAN, space : BOOLEAN, project : BOOLEAN, raised : BOOLEAN,
         byId : BOOLEAN, listed : SUBSET People]

DirectoryTyped ==
  /\ space \in SpaceRow /\ members \in SUBSET People
  /\ managers \in SUBSET (members \ {"owner"})
  /\ project \in {"none", "live", "deleted"} /\ byId \in Nat \cup {NotKept}
  /\ listed \in [People -> CachedList] /\ visit \in [Visits -> VisitRecord]
  /\ visits \in Nat /\ tale \in Tale

\* What only the owner starts, and what a manager may start too.
OwnersWork == {"save_workspace", "set_role"}
ProjectWork == {"create_project", "update_project", "delete_project"}

DeletionOK ==
  /\ space.state = "none" => members = {} /\ ~ tale.over
  /\ tale.over =>
       /\ "owner" \notin members
       /\ space.state = "live" => tale.space
       /\ project = "live" => tale.project \/ tale.raised
       /\ managers # {} => tale.raised
  /\ \A v \in Visits : visit[v].pc \in OwnersWork => visit[v].early
  /\ \A v \in Visits : visit[v].pc \in ProjectWork => visit[v].early \/ tale.raised

ByIdOK ==
  \/ byId = NotKept \/ tale.byId
  \/ space.state = "live" /\ space.name = byId
  \/ \E v \in Visits : visit[v].pc = "delete_workspace"

ListOK ==
  /\ listed["member"].has => listed["member"].kept
  /\ \/ ~ listed["member"].has \/ "member" \in members \/ "member" \in tale.listed
     \/ \E v \in Visits : visit[v].pc = "delete_list"

DirectoryInv == DirectoryTyped /\ DeletionOK /\ ByIdOK /\ ListOK

LEMMA DirectoryTypes == DirectoryTyped => WorkspaceDirectoryTypeOK
BY Zenon DEF DirectoryTyped, WorkspaceDirectoryTypeOK, SpaceRow, CachedList, VisitRecord, Tale

LEMMA DirectoryImplied == DirectoryInv => DirectoryKept
<1> SUFFICES ASSUME DirectoryInv PROVE DirectoryKept
  OBVIOUS
<1>1. DeletionIsFinal
  BY DEF DirectoryInv, DeletionOK, DeletionIsFinal
<1>2. space.state = "live" /\ space.name = byId => space = [state |-> "live", name |-> byId]
  BY DEF DirectoryInv, DirectoryTyped, SpaceRow
<1>3. CachesExplained
  BY <1>2 DEF DirectoryInv, ByIdOK, ListOK, CachesExplained, Visiting
<1>. QED  BY <1>1, <1>3 DEF DirectoryKept

-----------------------------------------------------------------------------
\* One execution moves and the others stay where they are.
Steps(v, pc) ==
  /\ visit' \in [Visits -> VisitRecord]
  /\ visit'[v].pc = pc
  /\ \A u \in Visits \ {v} : visit'[u] = visit[u]

LEMMA StepsTo ==
  ASSUME DirectoryTyped, NEW v \in Visits,
         NEW pc \in OwnersWork \cup ProjectWork \cup {"delete_workspace"}, VisitTo(v, pc)
  PROVE  Steps(v, pc) /\ visit'[v].early = visit[v].early
<1>1. visit \in [Visits -> VisitRecord]
  BY DEF DirectoryTyped
<1>2. visit' = [visit EXCEPT ![v] = [visit[v] EXCEPT !.pc = pc]]
  BY Zenon DEF VisitTo
<1>3. [visit[v] EXCEPT !.pc = pc] \in VisitRecord /\ [visit[v] EXCEPT !.pc = pc].pc = pc
      /\ [visit[v] EXCEPT !.pc = pc].early = visit[v].early
  BY <1>1 DEF VisitRecord, OwnersWork, ProjectWork
<1>. QED  BY <1>1, <1>2, <1>3 DEF Steps

LEMMA StepsToEnd ==
  ASSUME DirectoryTyped, NEW v \in Visits, VisitEnds(v)
  PROVE  Steps(v, "none")
<1>1. NoVisit \in VisitRecord /\ NoVisit.pc = "none"
  BY DEF NoVisit, VisitRecord, People
<1>. QED  BY <1>1 DEF DirectoryTyped, VisitEnds, Steps

LEMMA StepsOnArrival ==
  ASSUME DirectoryTyped, NEW v \in Visits, NEW q \in VisitRecord, Visit(v, q)
  PROVE  /\ Steps(v, q.pc) /\ visit'[v].early = ~ tale.over /\ visits' \in Nat
         /\ visit[v].pc = "none"
<1>1. tale.over \in BOOLEAN /\ visit \in [Visits -> VisitRecord] /\ visits \in Nat
  BY DEF DirectoryTyped, Tale
<1>2. visit' = [visit EXCEPT ![v] = [q EXCEPT !.early = ~ tale.over]] /\ visits' = visits + 1
      /\ visit[v].pc = "none"
  BY DEF Visit, Visiting
<1>3. [q EXCEPT !.early = ~ tale.over] \in VisitRecord
      /\ [q EXCEPT !.early = ~ tale.over].pc = q.pc
      /\ [q EXCEPT !.early = ~ tale.over].early = ~ tale.over
  BY <1>1 DEF VisitRecord
<1>. QED  BY <1>1, <1>2, <1>3 DEF Steps

\* An execution moves on, and what it changes keeps the stores as they are.
LEMMA QuietVisit ==
  ASSUME DirectoryInv, NEW v \in Visits, NEW pc, Steps(v, pc), visits' \in Nat,
         visit[v].pc \notin {"delete_workspace", "delete_list"},
         pc \in OwnersWork => visit'[v].early,
         pc \in ProjectWork => visit'[v].early \/ tale.raised,
         UNCHANGED <<space, members, managers, project, byId, listed, tale>>
  PROVE  DirectoryInv'
<1>1. DirectoryTyped'
  BY DEF DirectoryInv, DirectoryTyped, Steps
<1>2. DeletionOK'
  BY DEF DirectoryInv, DeletionOK, Steps
<1>3. ByIdOK' /\ ListOK'
  BY DEF DirectoryInv, ByIdOK, ListOK, Steps
<1>. QED  BY <1>1, <1>2, <1>3 DEF DirectoryInv

LEMMA DirectoryInitOK == WorkspaceDirectoryInit => DirectoryInv
<1> SUFFICES ASSUME WorkspaceDirectoryInit PROVE DirectoryInv
  OBVIOUS
<1>1. NoVisit \in VisitRecord /\ NoVisit.pc = "none"
  BY DEF NoVisit, VisitRecord, People
<1>2. DirectoryTyped
  BY <1>1 DEF WorkspaceDirectoryInit, DirectoryTyped, SpaceRow, CachedList, NoList, Tale
<1>3. DeletionOK /\ ByIdOK
  BY <1>1 DEF WorkspaceDirectoryInit, DeletionOK, ByIdOK, OwnersWork, ProjectWork
<1>4. ListOK
  BY DEF WorkspaceDirectoryInit, ListOK, NoList, People
<1>. QED  BY <1>2, <1>3, <1>4 DEF DirectoryInv

LEMMA DirectoryNextOK ==
  DirectoryInv /\ [WorkspaceDirectoryNext]_directoryVars => DirectoryInv'
<1> SUFFICES ASSUME DirectoryInv, [WorkspaceDirectoryNext]_directoryVars PROVE DirectoryInv'
  OBVIOUS
<1>1. /\ space \in SpaceRow /\ members \in SUBSET People
      /\ managers \in SUBSET (members \ {"owner"})
      /\ project \in {"none", "live", "deleted"} /\ byId \in Nat \cup {NotKept}
      /\ listed \in [People -> CachedList] /\ visit \in [Visits -> VisitRecord]
      /\ visits \in Nat /\ tale \in Tale /\ DirectoryTyped
  BY DEF DirectoryInv, DirectoryTyped
<1>2. /\ space.state \in {"none", "live", "deleted"} /\ space.name \in Nat
      /\ tale.over \in BOOLEAN /\ tale.listed \in SUBSET People
  BY <1>1 DEF SpaceRow, Tale
<1>3. \A v \in Visits : /\ visit[v].user \in People /\ visit[v].name \in Nat
                        /\ visit[v].has \in BOOLEAN /\ visit[v].early \in BOOLEAN
  BY <1>1 DEF VisitRecord
\* Executions that start.
<1>4. ASSUME NEW v \in Visits, NEW q \in VisitRecord, Visit(v, q),
             q.pc \in OwnersWork => "owner" \in members,
             q.pc \in ProjectWork => SomebodyManages,
             UNCHANGED <<space, members, managers, project, byId, listed, tale>>
      PROVE  DirectoryInv'
  <2>1. "owner" \in members => ~ tale.over
    BY DEF DirectoryInv, DeletionOK
  <2>2. SomebodyManages => ~ tale.over \/ tale.raised
    BY <2>1 DEF DirectoryInv, DeletionOK, SomebodyManages
  <2>3. Steps(v, q.pc) /\ visit'[v].early = ~ tale.over /\ visits' \in Nat /\ visit[v].pc = "none"
    BY <1>1, <1>4, StepsOnArrival
  <2>. QED  BY <1>1, <1>4, <2>1, <2>2, <2>3, QuietVisit
<1>5. NoVisit \in VisitRecord
  BY DEF NoVisit, VisitRecord, People
<1>6. \A pc \in {"commit", "soft_delete", "delete_list"} \cup OwnersWork \cup ProjectWork :
        [NoVisit EXCEPT !.pc = pc] \in VisitRecord /\ [NoVisit EXCEPT !.pc = pc].pc = pc
  BY <1>5 DEF VisitRecord, OwnersWork, ProjectWork
<1>7. ASSUME NEW v \in Visits, FindById(v) PROVE DirectoryInv'
  <2> DEFINE q == [NoVisit EXCEPT !.pc = "set_workspace", !.name = space.name]
  <2>1. q \in VisitRecord /\ q.pc = "set_workspace"
    BY <1>2 DEF NoVisit, VisitRecord, People
  <2>. QED  BY <1>4, <1>7, <2>1 DEF FindById, OwnersWork, ProjectWork
<1>8. ASSUME NEW v \in Visits, NEW u \in People, FindByMember(v, u) PROVE DirectoryInv'
  <2> DEFINE q == [NoVisit EXCEPT !.pc = "set_list", !.user = u,
                                  !.has = u \in members /\ space.state = "live"]
  <2>1. q \in VisitRecord /\ q.pc = "set_list"
    BY <1>2 DEF NoVisit, VisitRecord
  <2>. QED  BY <1>4, <1>8, <2>1 DEF FindByMember, OwnersWork, ProjectWork
<1>9. ASSUME NEW v \in Visits, LoadToUpdate(v) \/ CheckToDelete(v) \/ CheckToCreateProject(v)
      PROVE  DirectoryInv'
  BY <1>4, <1>6, <1>9 DEF LoadToUpdate, CheckToDelete, CheckToCreateProject, OwnersWork, ProjectWork
<1>10. ASSUME NEW v \in Visits, NEW pc \in {"update_project", "delete_project"}, LoadProjectTo(v, pc)
       PROVE  DirectoryInv'
  BY <1>4, <1>6, <1>10 DEF LoadProjectTo, OwnersWork, ProjectWork
\* The two caches are filled.
<1>11. ASSUME NEW v \in Visits, SetWorkspace(v) PROVE DirectoryInv'
  <2>1. /\ Steps(v, "none") /\ visit[v].pc = "set_workspace"
        /\ UNCHANGED <<space, members, managers, project, listed, visits>> /\ byId' = visit[v].name
    BY <1>1, <1>11, StepsToEnd DEF SetWorkspace, Visiting
  <2>2. /\ tale' \in Tale /\ tale'.over = tale.over
        /\ tale'.raised = tale.raised /\ tale'.space = tale.space
        /\ tale'.project = tale.project /\ tale'.listed = tale.listed
        /\ tale'.byId <=> space # [state |-> "live", name |-> visit[v].name]
    BY <1>1, <1>11 DEF SetWorkspace, Tale
  <2>3. tale'.byId \/ (space.state = "live" /\ space.name = visit[v].name)
    <3>1. space = [state |-> "live", name |-> visit[v].name] =>
            space.state = "live" /\ space.name = visit[v].name
      OBVIOUS
    <3>. QED  BY <2>2, <3>1
  <2>4. DirectoryTyped'
    BY <1>1, <1>3, <2>1, <2>2 DEF DirectoryTyped, Steps
  <2>5. DeletionOK'
    BY <2>1, <2>2 DEF DirectoryInv, DeletionOK, Steps, OwnersWork, ProjectWork
  <2>6. ByIdOK'
    BY <2>1, <2>3 DEF ByIdOK
  <2>7. ListOK'
    BY <2>1, <2>2 DEF DirectoryInv, ListOK, Steps
  <2>. QED  BY <2>4, <2>5, <2>6, <2>7 DEF DirectoryInv
<1>12. ASSUME NEW v \in Visits, SetList(v) PROVE DirectoryInv'
  <2> DEFINE u == visit[v].user
             now == u \in members /\ space.state = "live"
  <2>1. /\ Steps(v, "none") /\ visit[v].pc = "set_list"
        /\ UNCHANGED <<space, members, managers, project, byId, visits>>
        /\ listed' = [listed EXCEPT ![u] = [kept |-> TRUE, has |-> visit[v].has]]
    BY <1>1, <1>12, StepsToEnd DEF SetList, Visiting
  <2>2. /\ tale' \in Tale /\ tale'.over = tale.over
        /\ tale'.raised = tale.raised /\ tale'.space = tale.space
        /\ tale'.project = tale.project /\ tale'.byId = tale.byId
        /\ tale'.listed = IF visit[v].has = now THEN tale.listed \ {u} ELSE tale.listed \cup {u}
    BY <1>1, <1>2, <1>3, <1>12 DEF SetList, Tale
  <2>3. listed' \in [People -> CachedList]
    BY <1>1, <1>3, <2>1 DEF CachedList
  <2>4. DirectoryTyped'
    BY <1>1, <2>1, <2>2, <2>3 DEF DirectoryTyped, Steps
  <2>5. DeletionOK' /\ ByIdOK'
    BY <2>1, <2>2 DEF DirectoryInv, DeletionOK, ByIdOK, Steps, OwnersWork, ProjectWork
  <2>6. ListOK'
    <3>1. CASE u = "member"
      <4>1. listed'["member"].kept /\ (listed'["member"].has <=> visit[v].has)
        BY <1>1, <2>1, <3>1 DEF People
      <4>. QED  BY <1>3, <2>1, <2>2, <3>1, <4>1 DEF ListOK
    <3>2. CASE u # "member"
      <4>1. listed'["member"] = listed["member"]
        BY <1>1, <2>1, <3>2 DEF People
      <4>. QED  BY <2>1, <2>2, <3>2, <4>1 DEF DirectoryInv, ListOK, Steps
    <3>. QED  BY <3>1, <3>2
  <2>. QED  BY <2>4, <2>5, <2>6 DEF DirectoryInv
\* The workspace.
<1>13. ASSUME NEW v \in Visits, CreateWithOwner(v) PROVE DirectoryInv'
  <2>1. /\ Steps(v, "commit") /\ visit[v].pc = "none" /\ visits' \in Nat
        /\ UNCHANGED <<space, members, managers, project, byId, tale>>
    <3> DEFINE q == [NoVisit EXCEPT !.pc = "commit"]
    <3>1. q \in VisitRecord /\ q.pc = "commit"
      BY <1>6
    <3>2. Visit(v, q)
      BY <1>13 DEF CreateWithOwner
    <3> HIDE DEF q
    <3>3. Steps(v, "commit") /\ visit[v].pc = "none" /\ visits' \in Nat
      BY <1>1, <3>1, <3>2, StepsOnArrival
    <3>. QED  BY <1>13, <3>3 DEF CreateWithOwner
  <2>2. listed' \in [People -> CachedList] /\ listed'["member"] = listed["member"]
    BY <1>1, <1>13 DEF CreateWithOwner, NoList, CachedList, People
  <2>3. DirectoryTyped'
    BY <1>1, <2>1, <2>2 DEF DirectoryTyped, Steps
  <2>4. DeletionOK' /\ ByIdOK'
    BY <2>1 DEF DirectoryInv, DeletionOK, ByIdOK, Steps, OwnersWork, ProjectWork
  <2>5. ListOK'
    BY <2>1, <2>2 DEF DirectoryInv, ListOK, Steps
  <2>. QED  BY <2>3, <2>4, <2>5 DEF DirectoryInv
<1>14. ASSUME NEW v \in Visits, CommitCreation(v) PROVE DirectoryInv'
  <2>1. CASE space.state # "none"
    BY <1>1, <1>14, <2>1, StepsToEnd, QuietVisit DEF CommitCreation, Visiting, OwnersWork, ProjectWork
  <2>2. CASE space.state = "none"
    <3>1. /\ Steps(v, "none") /\ visit[v].pc = "commit" /\ members' = {"owner"}
          /\ managers' = {} /\ UNCHANGED <<project, byId, listed, visits>>
      BY <1>1, <1>14, <2>2, StepsToEnd DEF CommitCreation, Visiting
    <3>2. space' \in SpaceRow /\ space'.state = "live"
      BY <1>1, <1>14, <2>2 DEF CommitCreation, SpaceRow
    <3>3. /\ tale' \in Tale /\ tale'.over = tale.over
          /\ tale'.raised = tale.raised /\ tale'.space = tale.space
          /\ tale'.project = tale.project /\ tale'.byId = tale.byId
          /\ tale.listed \subseteq tale'.listed
      BY <1>1, <1>2, <1>14, <2>2 DEF CommitCreation, Tale, People
    <3>4. members = {} /\ ~ tale.over
      BY <2>2 DEF DirectoryInv, DeletionOK
    <3>5. DirectoryTyped'
      BY <1>1, <3>1, <3>2, <3>3 DEF DirectoryTyped, Steps, People
    <3>6. DeletionOK'
      BY <3>1, <3>2, <3>3, <3>4 DEF DirectoryInv, DeletionOK, Steps, OwnersWork, ProjectWork
    <3>7. ByIdOK'
      BY <2>2, <3>1, <3>3 DEF DirectoryInv, ByIdOK, Steps
    <3>8. ListOK'
      BY <3>1, <3>3, <3>4 DEF DirectoryInv, ListOK, Steps
    <3>. QED  BY <3>5, <3>6, <3>7, <3>8 DEF DirectoryInv
  <2>. QED  BY <2>1, <2>2
<1>15. ASSUME NEW v \in Visits, SaveWorkspace(v) PROVE DirectoryInv'
  <2>1. /\ Steps(v, "delete_workspace") /\ visit[v].pc = "save_workspace"
        /\ UNCHANGED <<members, managers, project, byId, listed, visits>>
    BY <1>1, <1>15, StepsTo DEF SaveWorkspace, Visiting
  <2>2. space' \in SpaceRow /\ space'.state = "live"
    BY <1>2, <1>15 DEF SaveWorkspace, SpaceRow
  <2>3. /\ tale' \in Tale /\ tale'.over = tale.over
        /\ tale'.raised = tale.raised /\ tale'.listed = tale.listed
        /\ tale'.project = tale.project
        /\ tale.space \/ (space.state = "deleted" /\ visit[v].early) => tale'.space
    BY <1>1, <1>15 DEF SaveWorkspace, Tale
  <2>4. visit[v].early
    BY <2>1 DEF DirectoryInv, DeletionOK, OwnersWork, ProjectWork
  <2>5. DirectoryTyped'
    BY <1>1, <2>1, <2>2, <2>3 DEF DirectoryTyped, Steps
  <2>6. DeletionOK'
    BY <1>2, <2>1, <2>2, <2>3, <2>4 DEF DirectoryInv, DeletionOK, Steps, OwnersWork, ProjectWork
  <2>7. ByIdOK'
    BY <2>1 DEF ByIdOK, Steps
  <2>8. ListOK'
    BY <2>1, <2>3 DEF DirectoryInv, ListOK, Steps
  <2>. QED  BY <2>5, <2>6, <2>7, <2>8 DEF DirectoryInv
<1>16. ASSUME NEW v \in Visits, SoftDeleteWorkspace(v) PROVE DirectoryInv'
  <2>1. /\ Steps(v, "delete_workspace") /\ visit[v].pc = "soft_delete"
        /\ UNCHANGED <<byId, listed, visits>> /\ members' = {} /\ managers' = {}
        /\ project' \in {"none", "deleted"}
    BY <1>1, <1>16, StepsTo DEF SoftDeleteWorkspace, Visiting
  <2>2. space' \in SpaceRow /\ space'.state = "deleted"
    BY <1>1, <1>16 DEF SoftDeleteWorkspace, SpaceRow
  <2>3. tale' \in Tale /\ tale'.over /\ tale'.listed = People /\ tale'.raised = tale.raised
    BY <1>1, <1>16 DEF SoftDeleteWorkspace, Tale
  <2>4. DirectoryTyped'
    BY <1>1, <2>1, <2>2, <2>3 DEF DirectoryTyped, Steps
  <2>5. DeletionOK'
    BY <2>1, <2>2, <2>3 DEF DirectoryInv, DeletionOK, Steps, OwnersWork, ProjectWork
  <2>6. ByIdOK' /\ ListOK'
    BY <2>1, <2>3 DEF DirectoryInv, ByIdOK, ListOK, Steps, People
  <2>. QED  BY <2>4, <2>5, <2>6 DEF DirectoryInv
<1>17. ASSUME NEW v \in Visits, NEW done \in BOOLEAN, DeleteFromCache(v, done) PROVE DirectoryInv'
  <2>1. /\ Steps(v, "none") /\ visit[v].pc = "delete_workspace"
        /\ UNCHANGED <<space, members, managers, project, listed, visits>>
        /\ byId' = IF done THEN NotKept ELSE byId
    BY <1>1, <1>17, StepsToEnd DEF DeleteFromCache, Visiting
  <2>2. /\ tale' \in Tale /\ tale'.over = tale.over
        /\ tale'.raised = tale.raised /\ tale'.space = tale.space
        /\ tale'.project = tale.project /\ tale'.listed = tale.listed
        /\ tale'.byId <=> ~ done /\ byId # NotKept
    BY <1>1, <1>17 DEF DeleteFromCache, Tale
  <2>3. DirectoryTyped'
    BY <1>1, <2>1, <2>2 DEF DirectoryTyped, Steps
  <2>4. DeletionOK' /\ ListOK'
    BY <2>1, <2>2 DEF DirectoryInv, DeletionOK, ListOK, Steps, OwnersWork, ProjectWork
  <2>5. ByIdOK'
    BY <2>1, <2>2 DEF ByIdOK
  <2>. QED  BY <2>3, <2>4, <2>5 DEF DirectoryInv
\* Projects.
<1>18. ASSUME NEW v \in Visits, visit[v].pc \in ProjectWork, Steps(v, "none"),
              UNCHANGED <<space, members, managers, byId, listed, visits>>,
              project' \in {"none", "live", "deleted"},
              tale' \in Tale, tale'.over = tale.over, tale'.raised = tale.raised,
              tale'.space = tale.space,
              tale'.byId = tale.byId, tale'.listed = tale.listed, tale.project => tale'.project,
              project' = "live" => project = "live" \/ tale'.project \/ ~ (tale.over /\ visit[v].early)
       PROVE  DirectoryInv'
  <2>1. visit[v].early \/ tale.raised
    BY <1>18 DEF DirectoryInv, DeletionOK
  <2>2. DirectoryTyped'
    BY <1>1, <1>18 DEF DirectoryTyped, Steps
  <2>3. DeletionOK'
    BY <1>18, <2>1 DEF DirectoryInv, DeletionOK, Steps, OwnersWork, ProjectWork
  <2>4. ByIdOK' /\ ListOK'
    BY <1>18 DEF DirectoryInv, ByIdOK, ListOK, Steps, OwnersWork, ProjectWork
  <2>. QED  BY <2>2, <2>3, <2>4 DEF DirectoryInv
<1>20. ASSUME NEW v \in Visits, CreateProject(v) PROVE DirectoryInv'
  <2>1. /\ Steps(v, "none") /\ visit[v].pc \in ProjectWork
        /\ UNCHANGED <<space, members, managers, byId, listed, visits>>
    BY <1>1, <1>20, StepsToEnd DEF CreateProject, Visiting, OwnersWork, ProjectWork
  <2>2. CASE project = "none"
    <3>1. /\ project' = "live" /\ tale' \in Tale /\ tale'.over = tale.over /\ tale'.raised = tale.raised
          /\ tale'.space = tale.space /\ tale'.byId = tale.byId /\ tale'.listed = tale.listed
          /\ tale.project \/ (tale.over /\ visit[v].early) => tale'.project
      BY <1>1, <1>20, <2>2 DEF CreateProject, Tale
    <3>. QED  BY <1>18, <2>1, <3>1
  <2>3. CASE project # "none"
    BY <1>1, <1>18, <1>20, <2>1, <2>3 DEF CreateProject
  <2>. QED  BY <2>2, <2>3
<1>21. ASSUME NEW v \in Visits, SaveProject(v) PROVE DirectoryInv'
  <2>1. /\ Steps(v, "none") /\ visit[v].pc \in ProjectWork /\ project' = "live"
        /\ UNCHANGED <<space, members, managers, byId, listed, visits>>
    BY <1>1, <1>21, StepsToEnd DEF SaveProject, Visiting, OwnersWork, ProjectWork
  <2>2. /\ tale' \in Tale /\ tale'.over = tale.over
        /\ tale'.raised = tale.raised /\ tale'.space = tale.space
        /\ tale'.byId = tale.byId /\ tale'.listed = tale.listed
        /\ tale.project \/ (tale.over /\ visit[v].early) => tale'.project
    BY <1>1, <1>21 DEF SaveProject, Tale
  <2>. QED  BY <1>18, <2>1, <2>2
<1>22. ASSUME NEW v \in Visits, SaveDeletedProject(v) PROVE DirectoryInv'
  BY <1>1, <1>18, <1>22, StepsToEnd DEF SaveDeletedProject, Visiting, OwnersWork, ProjectWork
\* The member.
<1>23. CASE AcceptAndJoin
  <2>1. /\ UNCHANGED <<space, project, byId, listed, visit, visits>>
        /\ members' = members \cup {"member"} /\ UNCHANGED managers /\ space.state # "none"
    BY <1>23 DEF AcceptAndJoin
  <2>2. /\ tale' \in Tale /\ tale'.over = tale.over
        /\ tale'.raised = tale.raised /\ tale'.space = tale.space
        /\ tale'.project = tale.project /\ tale'.byId = tale.byId
    BY <1>1, <1>2, <1>23 DEF AcceptAndJoin, Tale, People
  <2>3. DirectoryTyped'
    BY <1>1, <2>1, <2>2 DEF DirectoryTyped, People
  <2>4. DeletionOK'
    BY <2>1, <2>2 DEF DirectoryInv, DeletionOK
  <2>5. ByIdOK' /\ ListOK'
    BY <2>1, <2>2 DEF DirectoryInv, ByIdOK, ListOK
  <2>. QED  BY <2>3, <2>4, <2>5 DEF DirectoryInv
<1>24. ASSUME NEW v \in Visits, RemoveByWorkspaceAndUser(v) PROVE DirectoryInv'
  <2>1. /\ Steps(v, "delete_list") /\ visit[v].pc = "none" /\ visits' \in Nat
        /\ UNCHANGED <<space, project, byId, listed, tale>> /\ members' = members \ {"member"}
        /\ managers' = managers \ {"member"}
    <3> DEFINE q == [NoVisit EXCEPT !.pc = "delete_list"]
    <3>1. q \in VisitRecord /\ q.pc = "delete_list"
      BY <1>6
    <3>2. Visit(v, q)
      BY <1>24 DEF RemoveByWorkspaceAndUser
    <3> HIDE DEF q
    <3>3. Steps(v, "delete_list") /\ visit[v].pc = "none" /\ visits' \in Nat
      BY <1>1, <3>1, <3>2, StepsOnArrival
    <3>. QED  BY <1>24, <3>3 DEF RemoveByWorkspaceAndUser
  <2>2. DirectoryTyped'
    BY <1>1, <2>1 DEF DirectoryTyped, Steps
  <2>3. DeletionOK'
    BY <2>1 DEF DirectoryInv, DeletionOK, Steps, OwnersWork, ProjectWork
  <2>4. ByIdOK' /\ ListOK'
    BY <2>1 DEF DirectoryInv, ByIdOK, ListOK, Steps
  <2>. QED  BY <2>2, <2>3, <2>4 DEF DirectoryInv
\* A role is given: whoever gives it started before a deletion.
<1>30. ASSUME NEW v \in Visits, NEW manager \in BOOLEAN, CheckToSetRole(v, manager)
       PROVE  DirectoryInv'
  <2> DEFINE q == [NoVisit EXCEPT !.pc = "set_role", !.has = manager]
  <2>1. q \in VisitRecord /\ q.pc = "set_role"
    BY DEF NoVisit, VisitRecord, People
  <2>. QED  BY <1>4, <1>30, <2>1 DEF CheckToSetRole, OwnersWork, ProjectWork, People
<1>31. ASSUME NEW v \in Visits, SetRole(v) PROVE DirectoryInv'
  <2>1. /\ Steps(v, "none") /\ visit[v].pc = "set_role" /\ "member" \in members
        /\ UNCHANGED <<space, members, project, byId, listed, visits>>
    BY <1>1, <1>31, StepsToEnd DEF SetRole, Visiting
  <2>2. visit[v].early
    BY <2>1 DEF DirectoryInv, DeletionOK, OwnersWork
  <2>3. /\ tale' \in Tale /\ tale'.over = tale.over /\ tale'.space = tale.space
        /\ tale'.project = tale.project /\ tale'.byId = tale.byId /\ tale'.listed = tale.listed
        /\ tale'.raised <=> tale.raised \/ (tale.over /\ visit[v].has)
    BY <1>1, <1>2, <1>3, <1>31, <2>2 DEF SetRole, Tale
  <2>4. /\ managers' \in SUBSET (members \ {"owner"})
        /\ managers' # {} => managers # {} \/ visit[v].has
    BY <1>1, <1>31, <2>1 DEF SetRole
  <2>5. DirectoryTyped'
    BY <1>1, <2>1, <2>3, <2>4 DEF DirectoryTyped, Steps
  <2>6. DeletionOK'
    BY <2>1, <2>3, <2>4 DEF DirectoryInv, DeletionOK, Steps, OwnersWork, ProjectWork
  <2>7. ByIdOK' /\ ListOK'
    BY <2>1, <2>3 DEF DirectoryInv, ByIdOK, ListOK, Steps
  <2>. QED  BY <2>5, <2>6, <2>7 DEF DirectoryInv
<1>25. ASSUME NEW v \in Visits, NEW done \in BOOLEAN, DeleteList(v, done) PROVE DirectoryInv'
  <2>1. /\ Steps(v, "none") /\ visit[v].pc = "delete_list"
        /\ UNCHANGED <<space, members, managers, project, byId, visits>>
    BY <1>1, <1>25, StepsToEnd DEF DeleteList, Visiting
  <2>2. /\ tale' \in Tale /\ tale'.over = tale.over
        /\ tale'.raised = tale.raised /\ tale'.space = tale.space
        /\ tale'.project = tale.project /\ tale'.byId = tale.byId
        /\ ~ done /\ listed["member"].kept => "member" \in tale'.listed
    BY <1>1, <1>2, <1>25 DEF DeleteList, Tale, People
  <2>3. listed' \in [People -> CachedList]
        /\ IF done THEN listed'["member"] = NoList ELSE listed' = listed
    BY <1>1, <1>25 DEF DeleteList, NoList, CachedList, People
  <2>4. DirectoryTyped'
    BY <1>1, <2>1, <2>2, <2>3 DEF DirectoryTyped, Steps
  <2>5. DeletionOK' /\ ByIdOK'
    BY <2>1, <2>2 DEF DirectoryInv, DeletionOK, ByIdOK, Steps, OwnersWork, ProjectWork
  <2>6. ListOK'
    BY <2>2, <2>3 DEF DirectoryInv, ListOK, NoList
  <2>. QED  BY <2>4, <2>5, <2>6 DEF DirectoryInv
\* Keys expire; executions stop.
<1>26. CASE WorkspaceKeyExpires
  <2>1. /\ UNCHANGED <<space, members, managers, project, listed, visit, visits>> /\ byId' = NotKept
        /\ tale' \in Tale /\ tale'.over = tale.over
        /\ tale'.raised = tale.raised /\ tale'.space = tale.space
        /\ tale'.project = tale.project /\ tale'.listed = tale.listed
    BY <1>1, <1>26 DEF WorkspaceKeyExpires, Tale
  <2>. QED  BY <1>1, <2>1 DEF DirectoryInv, DirectoryTyped, DeletionOK, ByIdOK, ListOK
<1>27. ASSUME NEW u \in People, ListKeyExpires(u) PROVE DirectoryInv'
  <2>1. /\ UNCHANGED <<space, members, managers, project, byId, visit, visits>>
        /\ tale' \in Tale /\ tale'.over = tale.over
        /\ tale'.raised = tale.raised /\ tale'.space = tale.space
        /\ tale'.project = tale.project /\ tale'.byId = tale.byId
        /\ tale'.listed = tale.listed \ {u}
    BY <1>1, <1>2, <1>27 DEF ListKeyExpires, Tale
  <2>2. listed' \in [People -> CachedList]
        /\ IF u = "member" THEN listed'["member"] = NoList ELSE listed'["member"] = listed["member"]
    BY <1>1, <1>27 DEF ListKeyExpires, NoList, CachedList, People
  <2>3. DirectoryTyped'
    BY <1>1, <2>1, <2>2 DEF DirectoryTyped
  <2>4. DeletionOK' /\ ByIdOK'
    BY <2>1 DEF DirectoryInv, DeletionOK, ByIdOK
  <2>5. ListOK'
    BY <2>1, <2>2 DEF DirectoryInv, ListOK, NoList
  <2>. QED  BY <2>3, <2>4, <2>5 DEF DirectoryInv
<1>28. ASSUME NEW v \in Visits, VisitStops(v) PROVE DirectoryInv'
  <2>1. /\ Steps(v, "none") /\ UNCHANGED <<space, members, managers, project, byId, listed, visits>>
    BY <1>1, <1>28, StepsToEnd DEF VisitStops
  <2>2. /\ tale' \in Tale /\ tale'.over = tale.over
        /\ tale'.raised = tale.raised /\ tale'.space = tale.space
        /\ tale'.project = tale.project /\ tale.listed \subseteq tale'.listed
        /\ tale.byId \/ (visit[v].pc = "delete_workspace" /\ byId # NotKept) => tale'.byId
        /\ visit[v].pc = "delete_list" /\ listed["member"].kept => "member" \in tale'.listed
    BY <1>1, <1>2, <1>28 DEF VisitStops, Tale, Visiting, People
  <2>3. DirectoryTyped'
    BY <1>1, <2>1, <2>2 DEF DirectoryTyped, Steps
  <2>4. DeletionOK'
    BY <2>1, <2>2 DEF DirectoryInv, DeletionOK, Steps, OwnersWork, ProjectWork
  <2>5. ByIdOK' /\ ListOK'
    BY <2>1, <2>2 DEF DirectoryInv, ByIdOK, ListOK, Steps
  <2>. QED  BY <2>3, <2>4, <2>5 DEF DirectoryInv
<1>29. CASE UNCHANGED directoryVars
  BY <1>1, <1>29 DEF directoryVars, DirectoryInv, DirectoryTyped, DeletionOK, ByIdOK, ListOK
<1>. QED
  BY <1>7, <1>8, <1>9, <1>10, <1>11, <1>12, <1>13, <1>14, <1>15, <1>16, <1>17, <1>20, <1>21,
     <1>22, <1>23, <1>24, <1>25, <1>26, <1>27, <1>28, <1>29, <1>30, <1>31 DEF WorkspaceDirectoryNext

\* For any number of overlapping executions: a deleted workspace or project is
\* live again only through an execution older than the deletion, or one that had to
\* be made a manager by such an execution; and a cache
\* that differs from the rows has a cause on record.
THEOREM DirectoryIsKept == WorkspaceDirectorySpec => []DirectoryKept
BY DirectoryInitOK, DirectoryNextOK, DirectoryImplied, PTL DEF WorkspaceDirectorySpec

-----------------------------------------------------------------------------
(***************************************************************************)
(* Workspace content.  Until the sweep begins a document belongs to a task *)
(* that has a row or was deleted, and so does what a request is about to   *)
(* write.  While it runs, a document is of a task it listed and still to   *)
(* be deleted, or of one that is explained.                                *)
(***************************************************************************)
WriteRecord == [
  pc : {"none", "admit", "cache", "load", "save", "log", "project"},
  kind : {"create", "assign", "details", "comment", "delete"},
  task : SUBSET TaskIds, found : BOOLEAN]
SweepRecord == [pc : {"none", "due", "delete", "mark", "done"},
                ids : SUBSET TaskIds, left : SUBSET Collections]
Counts == [writes : Nat, moves : Nat, faults : Nat]
Blame == [late : SUBSET TaskIds, cut : SUBSET TaskIds, overtaken : BOOLEAN]

ContentTyped ==
  /\ standing \in {"member", "left", "gone"} /\ departures \in Nat
  /\ membership \in {"none", "member", "other"}
  /\ docs \in [Collections -> SUBSET TaskIds] /\ ended \in SUBSET TaskIds
  /\ writer \in [Writers -> WriteRecord] /\ sweep \in SweepRecord
  /\ counted \in Counts /\ blame \in Blame

DocOK(c, t) ==
  /\ sweep.pc \in {"none", "due"} => t \in docs["tasks"] \cup ended \cup blame.late \cup blame.cut
  /\ sweep.pc = "delete" =>
       \/ t \in blame.late \cup blame.cut
       \/ t \notin sweep.ids /\ t \in ended
       \/ t \in sweep.ids /\ c \in sweep.left
  /\ sweep.pc \in {"mark", "done"} => t \in ended \cup blame.late \cup blame.cut

DocsOK == \A c \in Collections : \A t \in docs[c] : DocOK(c, t)

SweepOK ==
  /\ standing # "gone" => sweep.pc = "none"
  /\ sweep.pc # "delete" => sweep.left = {}
  /\ sweep.pc = "delete" /\ "tasks" \in sweep.left =>
       sweep.ids \subseteq docs["tasks"] \cup blame.late
  /\ ~ SweepBegun => blame.late = {} /\ blame.cut = {}

\* A request about to write; a comment or a change of a task that exists.
WriteOK(q) ==
  /\ q.pc \in {"log", "project"} => q.kind # "create"
  /\ q.pc \in {"save", "log", "project"} /\ q.kind # "create" /\ ~ SweepBegun
       => q.task \subseteq docs["tasks"] \cup ended

ContentInv ==
  /\ ContentTyped /\ DocsOK /\ SweepOK
  /\ \A w \in Writers : WriteOK(writer[w])
  /\ DepartureClearsMembership

LEMMA ContentTypes == ContentTyped => WorkspaceContentTypeOK
BY Zenon DEF ContentTyped, WorkspaceContentTypeOK, WriteRecord, SweepRecord, Counts, Blame

LEMMA ContentImplied == ContentInv => ContentExplained
BY DEF ContentInv, DocsOK, DocOK, ContentExplained, LeftoversExplained

-----------------------------------------------------------------------------
\* One request moves and the others stay where they are.
WriterMoves(w, pc, kind, t) ==
  /\ writer' \in [Writers -> WriteRecord]
  /\ writer'[w].pc = pc /\ writer'[w].kind = kind /\ writer'[w].task = t
  /\ \A v \in Writers \ {w} : writer'[v] = writer[v]

LEMMA WriterMovesTo ==
  ASSUME ContentTyped, NEW w \in Writers, NEW pc \in {"load", "log", "project"}, WriterTo(w, pc)
  PROVE  WriterMoves(w, pc, writer[w].kind, writer[w].task)
<1>1. writer \in [Writers -> WriteRecord]
  BY DEF ContentTyped
<1>2. writer' = [writer EXCEPT ![w] = [writer[w] EXCEPT !.pc = pc]]
  BY Zenon DEF WriterTo
<1>3. /\ [writer[w] EXCEPT !.pc = pc] \in WriteRecord /\ [writer[w] EXCEPT !.pc = pc].pc = pc
      /\ [writer[w] EXCEPT !.pc = pc].kind = writer[w].kind
      /\ [writer[w] EXCEPT !.pc = pc].task = writer[w].task
  BY <1>1 DEF WriteRecord
<1>. QED  BY <1>1, <1>2, <1>3 DEF WriterMoves

LEMMA WriterMovesOn ==
  ASSUME ContentTyped, NEW w \in Writers, NEW pc \in {"cache", "save"}, NEW found \in BOOLEAN,
         writer' = [writer EXCEPT ![w].pc = pc, ![w].found = found]
  PROVE  WriterMoves(w, pc, writer[w].kind, writer[w].task)
<1> DEFINE q == [[writer[w] EXCEPT !.pc = pc] EXCEPT !.found = found]
<1>1. writer \in [Writers -> WriteRecord]
  BY DEF ContentTyped
<1>2. writer' = [writer EXCEPT ![w] = q]
  BY <1>1
<1>3. q \in WriteRecord /\ q.pc = pc /\ q.kind = writer[w].kind /\ q.task = writer[w].task
  BY <1>1 DEF WriteRecord
<1> HIDE DEF q
<1>. QED  BY <1>1, <1>2, <1>3 DEF WriterMoves

LEMMA WriterMovesToEnd ==
  ASSUME ContentTyped, NEW w \in Writers, EndWrite(w)
  PROVE  WriterMoves(w, "none", "create", {})
<1>1. NoWrite \in WriteRecord /\ NoWrite.pc = "none" /\ NoWrite.kind = "create"
      /\ NoWrite.task = {}
  BY DEF NoWrite, WriteRecord
<1>. QED  BY <1>1 DEF ContentTyped, EndWrite, WriterMoves

\* A request moves on; the collections and the sweep stay as they are.
LEMMA QuietWrite ==
  ASSUME ContentInv, NEW w \in Writers, NEW pc, NEW kind, NEW t, WriterMoves(w, pc, kind, t),
         pc \notin {"log", "project"},
         pc \in {"save", "log", "project"} /\ kind # "create" /\ ~ SweepBegun
           => t \subseteq docs["tasks"] \cup ended,
         UNCHANGED <<standing, departures, docs, ended, sweep>>,
         counted' \in Counts, counted'.faults = counted.faults,
         membership' \in {"none", "member", "other"}, blame' \in Blame,
         blame'.late = blame.late, blame'.cut = blame.cut,
         DepartureClearsMembership'
  PROVE  ContentInv'
<1>1. ContentTyped'
  BY DEF ContentInv, ContentTyped, WriterMoves
<1>2. SweepBegun' <=> SweepBegun
  BY DEF SweepBegun
<1>3. DocsOK' /\ SweepOK'
  BY <1>2 DEF ContentInv, DocsOK, DocOK, SweepOK
<1>4. \A v \in Writers : WriteOK(writer[v])'
  BY <1>2 DEF ContentInv, WriteOK, WriterMoves
<1>. QED  BY <1>1, <1>3, <1>4 DEF ContentInv

\* A request stores documents of its task.
\* A request stores documents of its task.
LEMMA StoringWrite ==
  ASSUME ContentInv, NEW w \in Writers, NEW pc, NEW kind, NEW t, WriterMoves(w, pc, kind, t),
         pc \in {"save", "log", "project"} => t = writer[w].task /\ kind # "create",
         NEW S \in SUBSET Collections, Store(writer[w].task, S),
         ~ SweepBegun => "tasks" \in S \/ writer[w].task \subseteq docs["tasks"] \cup ended,
         UNCHANGED <<standing, departures, membership, ended, sweep, counted>>
  PROVE  ContentInv'
<1> DEFINE new == writer[w].task
<1>1. /\ docs \in [Collections -> SUBSET TaskIds] /\ blame \in Blame /\ new \in SUBSET TaskIds
      /\ ContentTyped /\ sweep \in SweepRecord
  BY DEF ContentInv, ContentTyped, WriteRecord
<1>2. /\ docs' \in [Collections -> SUBSET TaskIds]
      /\ \A c \in Collections : docs'[c] = IF c \in S THEN docs[c] \cup new ELSE docs[c]
  BY <1>1 DEF Store
<1>3. /\ blame' \in Blame /\ blame'.cut = blame.cut /\ blame'.overtaken = blame.overtaken
      /\ blame'.late = IF SweepBegun THEN blame.late \cup new ELSE blame.late
  <2>1. CASE SweepBegun
    BY <1>1, <2>1 DEF Store, Blame
  <2>2. CASE ~ SweepBegun
    BY <1>1, <2>2 DEF Store, Blame
  <2>. QED  BY <2>1, <2>2
<1> HIDE DEF new
<1>4. "tasks" \in Collections /\ docs["tasks"] \subseteq docs'["tasks"]
      /\ ("tasks" \in S => new \subseteq docs'["tasks"])
  BY <1>2 DEF Collections
<1>5. SweepBegun' <=> SweepBegun
  BY DEF SweepBegun
<1>6. ~ SweepBegun => sweep.pc \in {"none", "due"}
  BY <1>1 DEF SweepBegun, SweepRecord
<1>7. ContentTyped'
  BY <1>1, <1>2, <1>3 DEF ContentTyped, WriterMoves
<1>8. ASSUME NEW c \in Collections, NEW d \in docs'[c] PROVE DocOK(c, d)'
  <2>1. CASE d \in docs[c]
    <3>1. DocOK(c, d)
      BY <2>1 DEF ContentInv, DocsOK
    <3>. QED  BY <1>3, <1>4, <3>1 DEF DocOK
  <2>2. CASE d \in new
    <3>1. CASE SweepBegun
      BY <1>3, <2>2, <3>1 DEF DocOK
    <3>2. CASE ~ SweepBegun
      <4>1. d \in docs'["tasks"] \cup ended
        BY <1>4, <2>2, <3>2 DEF new
      <4>. QED  BY <1>6, <3>2, <4>1 DEF DocOK
    <3>. QED  BY <3>1, <3>2
  <2>. QED  BY <1>2, <1>8, <2>1, <2>2
<1>9. SweepOK'
  BY <1>3, <1>4, <1>5 DEF ContentInv, SweepOK
<1>10. ASSUME NEW v \in Writers PROVE WriteOK(writer[v])'
  <2>1. CASE v = w
    BY <1>4, <1>5, <2>1 DEF WriteOK, WriterMoves, new
  <2>2. CASE v # w
    BY <1>4, <1>5, <2>2 DEF ContentInv, WriteOK, WriterMoves
  <2>. QED  BY <2>1, <2>2
<1>11. DepartureClearsMembership'
  BY <1>3 DEF ContentInv, DepartureClearsMembership
<1>. QED  BY <1>7, <1>8, <1>9, <1>10, <1>11 DEF ContentInv, DocsOK

LEMMA ContentInitOK == WorkspaceContentInit => ContentInv
<1> SUFFICES ASSUME WorkspaceContentInit PROVE ContentInv
  OBVIOUS
<1>1. NoWrite \in WriteRecord /\ NoWrite.pc = "none"
  BY DEF NoWrite, WriteRecord
<1>2. ContentTyped
  BY <1>1 DEF WorkspaceContentInit, ContentTyped, SweepRecord, Counts, Blame
<1>3. DocsOK /\ SweepOK /\ DepartureClearsMembership
  BY DEF WorkspaceContentInit, DocsOK, SweepOK, DepartureClearsMembership
<1>4. \A w \in Writers : WriteOK(writer[w])
  BY <1>1 DEF WorkspaceContentInit, WriteOK
<1>. QED  BY <1>2, <1>3, <1>4 DEF ContentInv

LEMMA ContentNextOK == ContentInv /\ [WorkspaceContentNext]_contentVars => ContentInv'
<1> SUFFICES ASSUME ContentInv, [WorkspaceContentNext]_contentVars PROVE ContentInv'
  OBVIOUS
<1>1. /\ standing \in {"member", "left", "gone"} /\ departures \in Nat
      /\ membership \in {"none", "member", "other"}
      /\ docs \in [Collections -> SUBSET TaskIds] /\ ended \in SUBSET TaskIds
      /\ writer \in [Writers -> WriteRecord] /\ sweep \in SweepRecord
      /\ counted \in Counts /\ blame \in Blame /\ ContentTyped
  BY DEF ContentInv, ContentTyped
<1>2. /\ sweep.pc \in {"none", "due", "delete", "mark", "done"} /\ sweep.ids \in SUBSET TaskIds
      /\ sweep.left \in SUBSET Collections /\ counted.faults \in Nat /\ counted.moves \in Nat
      /\ counted.writes \in Nat /\ blame.late \in SUBSET TaskIds /\ blame.cut \in SUBSET TaskIds
      /\ blame.overtaken \in BOOLEAN /\ "tasks" \in Collections
  BY <1>1 DEF SweepRecord, Counts, Blame, Collections
<1>3. \A w \in Writers : /\ writer[w].task \in SUBSET TaskIds /\ writer[w].found \in BOOLEAN
                         /\ writer[w].kind \in {"create", "assign", "details", "comment", "delete"}
  BY <1>1 DEF WriteRecord
<1>4. SweepOK /\ DocsOK /\ \A w \in Writers : WriteOK(writer[w])
  BY DEF ContentInv
\* Only the membership, or who is in the workspace, changes.
<1>5. ASSUME UNCHANGED <<docs, ended, writer, sweep>>,
             standing' \in {"member", "left", "gone"}, standing # "gone" \/ standing' = "gone",
             departures' \in Nat, membership' \in {"none", "member", "other"},
             counted' \in Counts, counted'.faults = counted.faults,
             blame' \in Blame, blame'.late = blame.late, blame'.cut = blame.cut,
             DepartureClearsMembership'
      PROVE  ContentInv'
  <2>1. ContentTyped'
    BY <1>1, <1>5 DEF ContentTyped
  <2>2. SweepBegun' <=> SweepBegun
    BY <1>5 DEF SweepBegun
  <2>3. DocsOK' /\ SweepOK' /\ \A w \in Writers : WriteOK(writer[w])'
    BY <1>4, <1>5, <2>2 DEF DocsOK, DocOK, SweepOK, WriteOK
  <2>. QED  BY <1>5, <2>1, <2>3 DEF ContentInv
<1>6. CASE UserLeaves
  <2>1. counted' \in Counts /\ counted'.faults = counted.faults
    BY <1>1, <1>2, <1>6 DEF UserLeaves, Counts
  <2>2. departures' \in Nat /\ departures' # 0
    BY <1>1, <1>6 DEF UserLeaves
  <2>3. DepartureClearsMembership'
    BY <2>2 DEF DepartureClearsMembership
  <2>. QED  BY <1>1, <1>5, <1>6, <2>1, <2>2, <2>3 DEF UserLeaves
<1>7. CASE UserJoins
  <2>1. counted' \in Counts /\ counted'.faults = counted.faults
    BY <1>1, <1>2, <1>7 DEF UserJoins, Counts
  <2>2. DepartureClearsMembership'
    BY <1>7 DEF UserJoins, DepartureClearsMembership
  <2>. QED  BY <1>1, <1>5, <1>7, <2>1, <2>2 DEF UserJoins
<1>8. CASE WorkspaceIsDeleted
  <2>1. /\ standing' = "gone" /\ sweep.pc = "none" /\ sweep.left = {}
        /\ UNCHANGED <<departures, membership, docs, ended, writer, counted, blame>>
    BY <1>4, <1>8 DEF WorkspaceIsDeleted, SweepOK
  <2>2. sweep' \in SweepRecord /\ sweep'.pc = "due" /\ sweep'.left = {}
    BY <1>1, <1>8, <2>1 DEF WorkspaceIsDeleted, SweepRecord
  <2>3. ContentTyped'
    BY <1>1, <2>1, <2>2 DEF ContentTyped
  <2>4. SweepBegun' <=> SweepBegun
    BY <2>1, <2>2 DEF SweepBegun
  <2>5. DocsOK' /\ SweepOK' /\ \A w \in Writers : WriteOK(writer[w])'
    BY <1>4, <2>1, <2>2, <2>4 DEF DocsOK, DocOK, SweepOK, WriteOK
  <2>6. DepartureClearsMembership'
    BY <2>1 DEF DepartureClearsMembership
  <2>. QED  BY <2>3, <2>5, <2>6 DEF ContentInv
\* Requests that ask, and load.
<1>9. ASSUME NEW w \in Writers, NEW pc, NEW kind, NEW t, WriterMoves(w, pc, kind, t),
             pc \notin {"log", "project"},
             pc \in {"save", "log", "project"} /\ kind # "create" /\ ~ SweepBegun
               => t \subseteq docs["tasks"] \cup ended,
             UNCHANGED <<standing, departures, membership, docs, ended, sweep, blame>>,
             counted' \in Counts, counted'.faults = counted.faults
      PROVE  ContentInv'
  <2>1. DepartureClearsMembership'
    BY <1>9 DEF ContentInv, DepartureClearsMembership
  <2>. QED  BY <1>1, <1>9, <2>1, QuietWrite
<1>10. ASSUME NEW w \in Writers, NEW kind \in {"create", "assign", "details", "comment", "delete"},
              NEW t \in TaskIds, StartWrite(w, kind, t)
       PROVE  ContentInv'
  <2> DEFINE pc == IF kind = "create" \/ t \in docs["tasks"] THEN "admit" ELSE "load"
             q == [pc |-> pc, kind |-> kind, task |-> {t}, found |-> FALSE]
  <2>1. pc \in {"admit", "load"}
    OBVIOUS
  <2>2. writer' = [writer EXCEPT ![w] = q]
    BY <1>10 DEF StartWrite
  <2> HIDE DEF pc
  <2>3. q \in WriteRecord /\ q.pc = pc /\ q.kind = kind /\ q.task = {t}
    BY <2>1 DEF WriteRecord
  <2> HIDE DEF q
  <2>4. WriterMoves(w, pc, kind, {t})
    BY <1>1, <2>2, <2>3 DEF WriterMoves
  <2>5. counted' \in Counts /\ counted'.faults = counted.faults
    BY <1>1, <1>2, <1>10 DEF StartWrite, Counts
  <2>. QED  BY <1>9, <1>10, <2>1, <2>4, <2>5 DEF StartWrite
<1>11. ASSUME NEW w \in Writers, ReadMembership(w) PROVE ContentInv'
  <2>1. CASE membership = "member"
    BY <1>1, <1>9, <1>11, <2>1, WriterMovesTo DEF ReadMembership
  <2>2. CASE membership = "other"
    BY <1>1, <1>9, <1>11, <2>2, WriterMovesToEnd DEF ReadMembership
  <2>3. CASE membership = "none"
    <3>1. WriterMoves(w, "cache", writer[w].kind, writer[w].task)
      BY <1>1, <1>11, <2>3, WriterMovesOn DEF ReadMembership
    <3>. QED  BY <1>1, <1>9, <1>11, <3>1 DEF ReadMembership
  <2>. QED  BY <1>1, <2>1, <2>2, <2>3
<1>12. ASSUME NEW w \in Writers, StoreMembership(w) PROVE ContentInv'
  <2>1. PICK pc \in {"load", "none"},
             kind \in {"create", "assign", "details", "comment", "delete"},
             t \in SUBSET TaskIds : WriterMoves(w, pc, kind, t)
    BY <1>1, <1>3, <1>12, WriterMovesTo, WriterMovesToEnd DEF StoreMembership
  <2>2. /\ blame' \in Blame /\ blame'.late = blame.late /\ blame'.cut = blame.cut
        /\ blame'.overtaken <=> writer[w].found /\ standing # "member"
    BY <1>1, <1>3, <1>12 DEF StoreMembership, Blame
  <2>3. /\ UNCHANGED <<standing, departures, docs, ended, sweep, counted>>
        /\ membership' = IF writer[w].found THEN "member" ELSE "other"
    BY <1>12 DEF StoreMembership
  <2>4. DepartureClearsMembership'
    BY <2>2, <2>3 DEF DepartureClearsMembership
  <2>. QED  BY <1>1, <2>1, <2>2, <2>3, <2>4, QuietWrite
<1>13. ASSUME NEW w \in Writers, LoadTask(w) PROVE ContentInv'
  <2> DEFINE t == writer[w].task
  <2>1. CASE EndWrite(w)
    BY <1>1, <1>9, <1>13, <2>1, WriterMovesToEnd DEF LoadTask
  <2>2. CASE ~ EndWrite(w)
    <3>1. /\ \/ writer[w].kind = "create"
             \/ t \subseteq docs["tasks"]
             \/ t \subseteq docs["events"] /\ t \cap ended = {}
          /\ writer' = [writer EXCEPT ![w].pc = "save", ![w].found = t \subseteq docs["events"]]
          /\ UNCHANGED <<standing, departures, membership, docs, ended, sweep, counted, blame>>
      BY <1>13, <2>2 DEF LoadTask
    <3>2. WriterMoves(w, "save", writer[w].kind, t)
      BY <1>1, <3>1, WriterMovesOn
    <3>3. ~ SweepBegun /\ t \subseteq docs["events"] => t \subseteq docs["tasks"] \cup ended
      <4>1. ASSUME ~ SweepBegun, t \subseteq docs["events"], NEW d \in t
            PROVE  d \in docs["tasks"] \cup ended
        <5>1. DocOK("events", d)
          BY <1>4, <4>1 DEF DocsOK, Collections
        <5>2. sweep.pc \in {"none", "due"} /\ blame.late = {} /\ blame.cut = {}
          BY <1>2, <1>4, <4>1 DEF SweepBegun, SweepOK
        <5>. QED  BY <5>1, <5>2 DEF DocOK
      <4>. QED  BY <4>1
    <3>. QED  BY <1>1, <1>9, <3>1, <3>2, <3>3
  <2>. QED  BY <2>1, <2>2
\* Requests that write.
<1>14. ASSUME NEW w \in Writers, StoreComment(w) PROVE ContentInv'
  <2>1. WriterMoves(w, "none", "create", {})
    BY <1>1, <1>14, WriterMovesToEnd DEF StoreComment
  <2>2. ~ SweepBegun => writer[w].task \subseteq docs["tasks"] \cup ended
    BY <1>4, <1>14 DEF StoreComment, WriteOK
  <2>3. {"comments", "activities"} \in SUBSET Collections
    BY DEF Collections
  <2>. QED  BY <1>14, <2>1, <2>2, <2>3, StoringWrite DEF StoreComment
<1>15. ASSUME NEW w \in Writers, StoreInTransaction(w) PROVE ContentInv'
  <2>1. WriterMoves(w, "none", "create", {})
    BY <1>1, <1>15, WriterMovesToEnd DEF StoreInTransaction
  <2>2. {"tasks", "events", "activities"} \in SUBSET Collections
    BY DEF Collections
  <2>. QED  BY <1>15, <2>1, <2>2, StoringWrite DEF StoreInTransaction
<1>16. ASSUME NEW w \in Writers, AppendPlain(w) PROVE ContentInv'
  <2>1. WriterMoves(w, "log", writer[w].kind, writer[w].task)
    BY <1>1, <1>16, WriterMovesTo DEF AppendPlain
  <2>2. ~ SweepBegun => writer[w].task \subseteq docs["tasks"] \cup ended
    BY <1>4, <1>16 DEF AppendPlain, WriteOK
  <2>3. {"events"} \in SUBSET Collections
    BY DEF Collections
  <2>. QED  BY <1>16, <2>1, <2>2, <2>3, StoringWrite DEF AppendPlain
<1>17. ASSUME NEW w \in Writers, LogPlain(w) PROVE ContentInv'
  <2>1. WriterMoves(w, "project", writer[w].kind, writer[w].task)
    BY <1>1, <1>17, WriterMovesTo DEF LogPlain
  <2>2. /\ ~ SweepBegun => writer[w].task \subseteq docs["tasks"] \cup ended
        /\ writer[w].kind # "create"
    BY <1>4, <1>17 DEF LogPlain, WriteOK
  <2>3. {"activities"} \in SUBSET Collections
    BY DEF Collections
  <2>. QED  BY <1>17, <2>1, <2>2, <2>3, StoringWrite DEF LogPlain
<1>18. ASSUME NEW w \in Writers, ProjectPlain(w) PROVE ContentInv'
  <2>1. WriterMoves(w, "none", "create", {})
    BY <1>1, <1>18, WriterMovesToEnd DEF ProjectPlain
  <2>2. {"tasks"} \in SUBSET Collections
    BY DEF Collections
  <2>. QED  BY <1>18, <2>1, <2>2, StoringWrite DEF ProjectPlain
<1>19. ASSUME NEW w \in Writers, DeleteTask(w) PROVE ContentInv'
  <2> DEFINE t == writer[w].task
  <2>1. WriterMoves(w, "none", "create", {})
    BY <1>1, <1>19, WriterMovesToEnd DEF DeleteTask
  <2>2. /\ UNCHANGED <<standing, departures, membership, sweep, counted>>
        /\ ended' = ended \cup t
        /\ docs' = [docs EXCEPT !["tasks"] = docs["tasks"] \ t, !["events"] = docs["events"] \cup t,
                                !["activities"] = docs["activities"] \cup t]
    BY <1>19 DEF DeleteTask
  <2>3. /\ docs' \in [Collections -> SUBSET TaskIds] /\ docs'["tasks"] = docs["tasks"] \ t
        /\ \A c \in Collections : docs'[c] \subseteq docs[c] \cup t
    BY <1>1, <1>3, <2>2 DEF Collections
  <2>4. /\ blame' \in Blame /\ blame'.cut = blame.cut /\ blame'.overtaken = blame.overtaken
        /\ blame'.late = IF SweepBegun THEN blame.late \cup t ELSE blame.late
    <3>1. CASE SweepBegun
      BY <1>1, <1>2, <1>3, <1>19, <3>1 DEF DeleteTask, Blame
    <3>2. CASE ~ SweepBegun
      BY <1>1, <1>2, <1>3, <1>19, <3>2 DEF DeleteTask, Blame
    <3>. QED  BY <3>1, <3>2
  <2>5. t \in SUBSET TaskIds
    BY <1>3
  <2> HIDE DEF t
  <2>6. ContentTyped'
    BY <1>1, <2>1, <2>2, <2>3, <2>4, <2>5 DEF ContentTyped, WriterMoves
  <2>7. SweepBegun' <=> SweepBegun
    BY <2>2 DEF SweepBegun
  <2>8. ASSUME NEW c \in Collections, NEW d \in docs'[c] PROVE DocOK(c, d)'
    <3>1. CASE d \in t
      BY <1>2, <2>2, <2>4, <3>1 DEF DocOK, SweepBegun
    <3>2. CASE d \notin t
      <4>1. DocOK(c, d)
        BY <1>4, <2>3, <2>8, <3>2 DEF DocsOK
      <4>. QED  BY <2>2, <2>3, <2>4, <3>2, <4>1 DEF DocOK
    <3>. QED  BY <3>1, <3>2
  <2>9. SweepOK'
    <3>1. CASE SweepBegun
      BY <1>4, <2>2, <2>3, <2>4, <2>7, <3>1 DEF SweepOK
    <3>2. CASE ~ SweepBegun
      BY <1>4, <2>2, <2>3, <2>4, <2>7, <3>2 DEF SweepOK, SweepBegun
    <3>. QED  BY <3>1, <3>2
  <2>10. \A v \in Writers : WriteOK(writer[v])'
    BY <1>4, <2>1, <2>2, <2>3, <2>7 DEF WriteOK, WriterMoves
  <2>11. DepartureClearsMembership'
    BY <2>2, <2>4 DEF ContentInv, DepartureClearsMembership
  <2>. QED  BY <2>6, <2>8, <2>9, <2>10, <2>11 DEF ContentInv, DocsOK
<1>20. ASSUME NEW w \in Writers, WriteStops(w) PROVE ContentInv'
  BY <1>1, <1>9, <1>20, WriterMovesToEnd DEF WriteStops
\* Messages.
<1>21. CASE MembershipExpires
  <2>1. blame' \in Blame /\ blame'.late = blame.late /\ blame'.cut = blame.cut
    BY <1>1, <1>21 DEF MembershipExpires, Blame
  <2>2. DepartureClearsMembership'
    BY <1>21 DEF MembershipExpires, DepartureClearsMembership
  <2>. QED  BY <1>1, <1>5, <1>21, <2>1, <2>2 DEF MembershipExpires
<1>22. ASSUME NEW done \in BOOLEAN, HandleMemberLeft(done) PROVE ContentInv'
  <2>1. /\ blame' \in Blame /\ blame'.late = blame.late /\ blame'.cut = blame.cut
        /\ ~ done => (blame'.overtaken <=> blame.overtaken \/ membership # "none")
    <3>1. CASE done
      BY <1>1, <1>22, <3>1 DEF HandleMemberLeft, Blame
    <3>2. CASE ~ done
      BY <1>1, <1>2, <1>22, <3>2 DEF HandleMemberLeft, Blame
    <3>. QED  BY <3>1, <3>2
  <2>2. departures' \in Nat /\ membership' = IF done THEN "none" ELSE membership
    BY <1>1, <1>22 DEF HandleMemberLeft
  <2>3. DepartureClearsMembership'
    BY <1>1, <2>1, <2>2 DEF DepartureClearsMembership
  <2>. QED  BY <1>1, <1>5, <1>22, <2>1, <2>2, <2>3 DEF HandleMemberLeft
<1>23. CASE ListTaskIds
  <2>1. /\ UNCHANGED <<standing, departures, membership, docs, ended, writer, counted>>
        /\ sweep.pc = "due" /\ sweep.left = {}
    BY <1>4, <1>23 DEF ListTaskIds, SweepOK
  <2>2. /\ blame' \in Blame /\ blame'.late = blame.late \ docs["tasks"]
        /\ blame'.cut = blame.cut \ docs["tasks"] /\ blame'.overtaken = blame.overtaken
    BY <1>1, <1>2, <1>23 DEF ListTaskIds, Blame
  <2>3. /\ sweep' \in SweepRecord /\ SweepBegun'
        /\ IF docs["tasks"] = {} THEN sweep'.pc = "mark" /\ sweep'.left = {}
           ELSE sweep'.pc = "delete" /\ sweep'.ids = docs["tasks"] /\ sweep'.left = Collections
    <3>1. CASE docs["tasks"] = {}
      BY <1>1, <1>2, <1>23, <2>1, <3>1 DEF ListTaskIds, SweepRecord, SweepBegun
    <3>2. CASE docs["tasks"] # {}
      BY <1>1, <1>2, <1>23, <3>2 DEF ListTaskIds, SweepRecord, SweepBegun
    <3>. QED  BY <3>1, <3>2
  <2>4. ContentTyped'
    BY <1>1, <2>1, <2>2, <2>3 DEF ContentTyped
  <2>5. ASSUME NEW c \in Collections, NEW d \in docs'[c] PROVE DocOK(c, d)'
    <3>1. d \in docs["tasks"] \cup ended \cup blame.late \cup blame.cut
      BY <1>4, <2>1, <2>5 DEF DocsOK, DocOK
    <3>2. CASE docs["tasks"] = {}
      BY <2>1, <2>2, <2>3, <3>1, <3>2 DEF DocOK
    <3>3. CASE docs["tasks"] # {}
      BY <2>1, <2>2, <2>3, <3>1, <3>3 DEF DocOK
    <3>. QED  BY <3>2, <3>3
  <2>6. SweepOK'
    BY <1>4, <2>1, <2>2, <2>3 DEF SweepOK
  <2>7. \A w \in Writers : WriteOK(writer[w])'
    BY <1>4, <2>1, <2>3 DEF WriteOK
  <2>8. DepartureClearsMembership'
    BY <2>1, <2>2 DEF ContentInv, DepartureClearsMembership
  <2>. QED  BY <2>4, <2>5, <2>6, <2>7, <2>8 DEF ContentInv, DocsOK
<1>24. ASSUME NEW S \in SUBSET Collections
       PROVE  /\ Without(S) \in [Collections -> SUBSET TaskIds]
              /\ \A c \in Collections :
                   Without(S)[c] = IF c \in S THEN docs[c] \ sweep.ids ELSE docs[c]
  BY <1>1, <1>2 DEF Without
<1>25. ASSUME NEW c \in Collections, DeleteMany(c) PROVE ContentInv'
  <2>1. /\ UNCHANGED <<standing, departures, membership, writer, counted, blame>>
        /\ sweep.pc = "delete" /\ c \in sweep.left /\ docs' = Without({c})
    BY <1>25 DEF DeleteMany
  <2>2. ended' \in SUBSET TaskIds /\ ended \ sweep.ids \subseteq ended'
    BY <1>1, <1>25 DEF DeleteMany
  <2>3. /\ sweep' \in SweepRecord /\ sweep'.ids = sweep.ids /\ sweep'.left = sweep.left \ {c}
        /\ sweep'.pc = IF sweep.left = {c} THEN "mark" ELSE "delete"
    <3>1. CASE sweep.left = {c}
      BY <1>1, <1>2, <1>25, <2>1, <3>1 DEF DeleteMany, SweepRecord
    <3>2. CASE sweep.left # {c}
      BY <1>1, <1>2, <1>25, <2>1, <3>2 DEF DeleteMany, SweepRecord
    <3>. QED  BY <3>1, <3>2
  <2>4. /\ docs' \in [Collections -> SUBSET TaskIds]
        /\ \A e \in Collections : docs'[e] = IF e = c THEN docs[e] \ sweep.ids ELSE docs[e]
    <3>1. {c} \in SUBSET Collections
      OBVIOUS
    <3>2. /\ Without({c}) \in [Collections -> SUBSET TaskIds]
          /\ \A e \in Collections :
               Without({c})[e] = IF e \in {c} THEN docs[e] \ sweep.ids ELSE docs[e]
      BY <1>24, <3>1
    <3>. QED  BY <2>1, <3>2
  <2>5. SweepBegun' /\ SweepBegun
    BY <2>1, <2>3 DEF SweepBegun
  <2>6. ContentTyped'
    BY <1>1, <2>1, <2>2, <2>3, <2>4 DEF ContentTyped
  <2>7. ASSUME NEW e \in Collections, NEW d \in docs'[e] PROVE DocOK(e, d)'
    <3>1. DocOK(e, d) /\ (e = c => d \notin sweep.ids)
      BY <1>4, <2>4, <2>7 DEF DocsOK
    <3>2. \/ d \in blame.late \cup blame.cut
          \/ d \notin sweep.ids /\ d \in ended
          \/ d \in sweep.ids /\ e \in sweep.left /\ e # c
      BY <2>1, <3>1 DEF DocOK
    <3>. QED  BY <2>1, <2>2, <2>3, <3>2 DEF DocOK
  <2>8. SweepOK'
    BY <1>2, <1>4, <2>1, <2>3, <2>4, <2>5 DEF SweepOK
  <2>9. \A w \in Writers : WriteOK(writer[w])'
    BY <1>4, <2>1, <2>5 DEF WriteOK
  <2>10. DepartureClearsMembership'
    BY <2>1 DEF ContentInv, DepartureClearsMembership
  <2>. QED  BY <2>6, <2>7, <2>8, <2>9, <2>10 DEF ContentInv, DocsOK
<1>26. CASE MarkSwept
  <2>1. /\ UNCHANGED <<standing, departures, membership, docs, ended, writer, counted, blame>>
        /\ sweep.pc = "mark"
    BY <1>26 DEF MarkSwept
  <2>2. sweep' \in SweepRecord /\ sweep'.pc = "done" /\ sweep'.left = sweep.left
    BY <1>1, <1>26 DEF MarkSwept, SweepRecord
  <2>3. ContentTyped' /\ SweepBegun'
    BY <1>1, <2>1, <2>2 DEF ContentTyped, SweepBegun
  <2>4. DocsOK' /\ SweepOK' /\ \A w \in Writers : WriteOK(writer[w])'
    BY <1>4, <2>1, <2>2, <2>3 DEF DocsOK, DocOK, SweepOK, WriteOK
  <2>5. DepartureClearsMembership'
    BY <2>1 DEF ContentInv, DepartureClearsMembership
  <2>. QED  BY <2>3, <2>4, <2>5 DEF ContentInv
<1>27. ASSUME NEW S \in SUBSET Collections, SweepFails(S) PROVE ContentInv'
  <2>1. /\ UNCHANGED <<standing, departures, membership, writer>>
        /\ sweep.pc \in {"delete", "mark"} /\ S \subseteq sweep.left /\ docs' = Without(S)
        /\ sweep' = [pc |-> "due", ids |-> {}, left |-> {}]
        /\ ended' \in SUBSET TaskIds /\ ended \ sweep.ids \subseteq ended'
        /\ (S = {} => ended' = ended)
    BY <1>1, <1>27 DEF SweepFails
  <2>2. counted' \in Counts /\ counted'.faults = counted.faults + 1
    <3>1. counted' = [counted EXCEPT !.faults = counted.faults + 1]
      BY <1>27, Zenon DEF SweepFails
    <3>. QED  BY <1>1, <1>2, <3>1 DEF Counts
  <2>3. /\ blame' \in Blame /\ blame'.late = blame.late /\ blame'.overtaken = blame.overtaken
        /\ blame.cut \subseteq blame'.cut
        /\ "tasks" \notin sweep.left \ S /\ sweep.left \ S # {} => sweep.ids \subseteq blame'.cut
    <3>1. CASE "tasks" \notin sweep.left \ S /\ sweep.left \ S # {}
      BY <1>1, <1>2, <1>27, <3>1 DEF SweepFails, Blame
    <3>2. CASE ~ ("tasks" \notin sweep.left \ S /\ sweep.left \ S # {})
      BY <1>1, <1>2, <1>27, <3>2 DEF SweepFails, Blame
    <3>. QED  BY <3>1, <3>2
  <2>4. /\ docs' \in [Collections -> SUBSET TaskIds]
        /\ \A c \in Collections : docs'[c] = IF c \in S THEN docs[c] \ sweep.ids ELSE docs[c]
    BY <1>24, <2>1
  <2>5. /\ sweep' \in SweepRecord /\ sweep'.pc = "due" /\ sweep'.left = {} /\ SweepBegun
        /\ SweepBegun'
    BY <1>2, <2>1, <2>2 DEF SweepRecord, SweepBegun
  <2>6. ContentTyped'
    BY <1>1, <2>1, <2>2, <2>3, <2>4, <2>5 DEF ContentTyped
  <2>7. ASSUME NEW c \in Collections, NEW d \in docs'[c] PROVE DocOK(c, d)'
    <3>1. DocOK(c, d) /\ (c \in S => d \notin sweep.ids)
      BY <1>4, <2>4, <2>7 DEF DocsOK
    <3>2. d \in docs'["tasks"] \cup ended' \cup blame'.late \cup blame'.cut
      <4>1. CASE sweep.pc = "mark"
        <5>1. S = {}
          BY <1>4, <2>1, <4>1 DEF SweepOK
        <5>. QED  BY <2>1, <2>3, <3>1, <4>1, <5>1 DEF DocOK
      <4>2. CASE sweep.pc = "delete"
        <5>1. \/ d \in blame.late \cup blame.cut
              \/ d \notin sweep.ids /\ d \in ended
              \/ d \in sweep.ids /\ c \in sweep.left \ S
          BY <3>1, <4>2 DEF DocOK
        <5>2. CASE d \in sweep.ids /\ c \in sweep.left \ S
          <6>1. CASE "tasks" \in sweep.left \ S
            <7>1. d \in docs["tasks"] \cup blame.late
              BY <1>4, <4>2, <5>2, <6>1 DEF SweepOK
            <7>. QED  BY <1>2, <2>3, <2>4, <6>1, <7>1
          <6>2. CASE "tasks" \notin sweep.left \ S
            BY <2>3, <5>2, <6>2
          <6>. QED  BY <6>1, <6>2
        <5>. QED  BY <2>1, <2>3, <5>1, <5>2
      <4>. QED  BY <2>1, <4>1, <4>2
    <3>. QED  BY <2>5, <3>2 DEF DocOK
  <2>8. SweepOK'
    BY <1>4, <2>1, <2>5 DEF SweepOK
  <2>9. \A w \in Writers : WriteOK(writer[w])'
    BY <1>4, <2>1, <2>5 DEF WriteOK
  <2>10. DepartureClearsMembership'
    BY <2>1, <2>3 DEF ContentInv, DepartureClearsMembership
  <2>. QED  BY <2>6, <2>7, <2>8, <2>9, <2>10 DEF ContentInv, DocsOK
<1>28. CASE UNCHANGED contentVars
  <2>1. SweepBegun' <=> SweepBegun
    BY <1>28 DEF contentVars, SweepBegun
  <2>2. ContentTyped' /\ DocsOK' /\ SweepOK' /\ \A w \in Writers : WriteOK(writer[w])'
    BY <1>1, <1>4, <1>28, <2>1 DEF contentVars, ContentTyped, DocsOK, DocOK, SweepOK, WriteOK
  <2>3. DepartureClearsMembership'
    BY <1>28 DEF contentVars, ContentInv, DepartureClearsMembership
  <2>. QED  BY <2>2, <2>3 DEF ContentInv
<1>. QED
  BY <1>6, <1>7, <1>8, <1>10, <1>11, <1>12, <1>13, <1>14, <1>15, <1>16, <1>17, <1>18, <1>19,
     <1>20, <1>21, <1>22, <1>23, <1>25, <1>26, <1>27, <1>28 DEF WorkspaceContentNext

\* For any tasks and requests, and any number of failures: what is left of a
\* swept workspace, and of a membership after its end, has one of the causes.
THEOREM ContentIsExplained == WorkspaceContentSpec => []ContentExplained
BY ContentInitOK, ContentNextOK, ContentImplied, PTL DEF WorkspaceContentSpec

-----------------------------------------------------------------------------
(***************************************************************************)
(* Sums.  The sum of a function over a finite set does not depend on the   *)
(* order in which the fold takes the elements; the lemmas are by the least *)
(* cardinality of a counterexample.                                        *)
(***************************************************************************)
\* Every non-empty set of naturals has a least element.
LEMMA LeastNat ==
    ASSUME NEW T \in SUBSET Nat, T # {}
    PROVE  \E m \in T : \A k \in T : m <= k
<1>1. \A x, y \in Nat : x < y => <<x, y>> \in OpToRel(<, Nat)
  BY SMT DEF OpToRel
<1>2. PICK m \in T : \A k \in T : ~ (<<k, m>> \in OpToRel(<, Nat))
  BY NatLessThanWellFounded, WFMin, T \subseteq Nat, Zenon
<1>3. \A k \in T : ~ (k < m)
  BY <1>1, <1>2, Zenon
<1>4. \A k \in T : m <= k
  BY <1>3, SMT
<1>. QED  BY <1>4, Zenon

\* The element the fold takes of a set, and what its recursion solves.
Taken1(s) == CHOOSE x \in s : TRUE

SumSolves(g, w, S) ==
  g = [s \in SUBSET S |-> IF s = {} THEN 0 ELSE w[Taken1(s)] + g[s \ {Taken1(s)}]]

Summable(w, S) == IsFiniteSet(S) /\ \A x \in S : w[x] \in Int

LEMMA SubsetSummable ==
  ASSUME NEW w, NEW S, Summable(w, S), NEW T \in SUBSET S
  PROVE  Summable(w, T)
BY FS_Subset DEF Summable

LEMMA TakenIn == ASSUME NEW s, s # {} PROVE Taken1(s) \in s
BY DEF Taken1

\* Of the sets with a property of their size only, none is a counterexample if none
\* is the smallest.
LEMMA SmallestSet ==
  ASSUME NEW C, C # {}, \A s \in C : IsFiniteSet(s)
  PROVE  \E s \in C : \A t \in C : Cardinality(s) <= Cardinality(t)
<1>. DEFINE Sizes == {Cardinality(s) : s \in C}
<1>1. Sizes \in SUBSET Nat /\ Sizes # {}
  BY FS_CardinalityType
<1>2. PICK m \in Sizes : \A k \in Sizes : m <= k
  <2>. HIDE DEF Sizes
  <2>. QED  BY <1>1, LeastNat
<1>3. PICK s \in C : m = Cardinality(s)
  BY <1>2
<1>4. \A t \in C : Cardinality(t) \in Sizes
  OBVIOUS
<1>. QED  BY <1>2, <1>3, <1>4

LEMMA SmallerSet ==
  ASSUME NEW s, IsFiniteSet(s), NEW x \in s
  PROVE  /\ IsFiniteSet(s \ {x})
         /\ Cardinality(s) \in Nat /\ Cardinality(s \ {x}) = Cardinality(s) - 1
         /\ ~ (Cardinality(s) <= Cardinality(s \ {x}))
<1>1. /\ IsFiniteSet(s \ {x}) /\ Cardinality(s) \in Nat
      /\ Cardinality(s \ {x}) = Cardinality(s) - 1
  BY FS_RemoveElement, FS_CardinalityType
<1>. QED  BY <1>1

\* The recursion has a solution.
LEMMA SumExists ==
  ASSUME NEW w, NEW S, Summable(w, S)
  PROVE  \E g \in [SUBSET S -> Int] : SumSolves(g, w, S)
<1>. DEFINE Upto(n) == {s \in SUBSET S : Cardinality(s) <= n}
            Sum(g, s) == IF s = {} THEN 0 ELSE w[Taken1(s)] + g[s \ {Taken1(s)}]
            Solves(g, n) == \A s \in Upto(n) : g[s] = Sum(g, s)
            Bad == {n \in 0 .. Cardinality(S) : ~ \E g \in [Upto(n) -> Int] : Solves(g, n)}
<1>0. /\ IsFiniteSet(S) /\ Cardinality(S) \in Nat
      /\ \A s \in SUBSET S : /\ IsFiniteSet(s) /\ Cardinality(s) \in Nat
                             /\ Cardinality(s) <= Cardinality(S)
                             /\ Cardinality(s) = 0 <=> s = {}
  BY FS_Subset, FS_CardinalityType, FS_EmptySet DEF Summable
<1>1. \A s \in SUBSET S : s # {} =>
         /\ Taken1(s) \in s /\ w[Taken1(s)] \in Int
         /\ s \ {Taken1(s)} \in SUBSET S
         /\ Cardinality(s \ {Taken1(s)}) = Cardinality(s) - 1
  BY <1>0, TakenIn, SmallerSet DEF Summable
<1>2. Bad = {}
  <2>1. SUFFICES ASSUME Bad # {} PROVE FALSE
    OBVIOUS
  <2>2. PICK m \in Bad : \A k \in Bad : m <= k
    <3>1. Bad \in SUBSET Nat
      BY <1>0
    <3>. HIDE DEF Bad
    <3>. QED  BY <2>1, <3>1, LeastNat
  <2>3. m \in 0 .. Cardinality(S) /\ ~ \E g \in [Upto(m) -> Int] : Solves(g, m)
    BY <2>2
  <2>4. m # 0
    <3>. DEFINE g0 == [s \in Upto(0) |-> 0]
    <3>1. \A s \in Upto(0) : s = {}
      BY <1>0
    <3>2. g0 \in [Upto(0) -> Int] /\ Solves(g0, 0)
      BY <3>1
    <3>. HIDE DEF g0, Upto, Solves
    <3>. QED  BY <3>2, <2>3
  <2>5. m \in Nat /\ m - 1 \in 0 .. Cardinality(S) /\ ~ (m <= m - 1)
    BY <1>0, <2>3, <2>4
  <2>6. PICK f \in [Upto(m - 1) -> Int] : Solves(f, m - 1)
    <3>. HIDE DEF Solves, Upto
    <3>. QED  BY <2>2, <2>5
  <2>. DEFINE g == [s \in Upto(m) |-> Sum(f, s)]
  <2>7. \A s \in Upto(m) : /\ s \in SUBSET S
                           /\ s # {} => s \ {Taken1(s)} \in Upto(m - 1)
    BY <1>0, <1>1, <2>5
  <2>8. g \in [Upto(m) -> Int]
    <3>1. ASSUME NEW s \in Upto(m) PROVE Sum(f, s) \in Int
      <4>1. s = {} \/ (w[Taken1(s)] \in Int /\ f[s \ {Taken1(s)}] \in Int)
        <5>. HIDE DEF Upto, Solves
        <5>. QED  BY <1>1, <2>6, <2>7
      <4>. QED  BY <4>1
    <3>. HIDE DEF Sum, Upto
    <3>. QED  BY <3>1
  <2>9. \A s \in Upto(m - 1) : s \in Upto(m) /\ g[s] = f[s]
    <3>1. \A s \in Upto(m - 1) : s \in Upto(m)
      BY <1>0, <2>5
    <3>2. \A s \in Upto(m - 1) : f[s] = Sum(f, s)
      BY <2>6
    <3>. HIDE DEF Upto, Sum
    <3>. QED  BY <3>1, <3>2
  <2>10. Solves(g, m)
    <3>1. ASSUME NEW s \in Upto(m) PROVE g[s] = Sum(g, s)
      <4>1. s # {} => g[s \ {Taken1(s)}] = f[s \ {Taken1(s)}]
        BY <2>7, <2>9
      <4>2. g[s] = Sum(f, s)
        <5>. HIDE DEF Upto, Sum
        <5>. QED  OBVIOUS
      <4>. HIDE DEF g, Upto
      <4>. QED  BY <4>1, <4>2
    <3>. HIDE DEF g, Sum, Upto
    <3>. QED  BY <3>1
  <2>. HIDE DEF g, Solves, Upto
  <2>. QED  BY <2>3, <2>8, <2>10
<1>3. Cardinality(S) \in 0 .. Cardinality(S) /\ Upto(Cardinality(S)) = SUBSET S
  BY <1>0
<1>4. PICK g \in [SUBSET S -> Int] : Solves(g, Cardinality(S))
  <2>. HIDE DEF Solves, Upto
  <2>. QED  BY <1>2, <1>3
<1>5. \A s \in SUBSET S : g[s] = Sum(g, s)
  BY <1>3, <1>4
<1>6. g = [s \in SUBSET S |-> Sum(g, s)]
  <2>. HIDE DEF Sum
  <2>. QED  BY <1>4, <1>5
<1>. QED  BY <1>4, <1>6 DEF SumSolves

\* Two solutions, also of larger sets, agree.
LEMMA SumUnique ==
  ASSUME NEW w, NEW S, IsFiniteSet(S), NEW T \in SUBSET S,
         NEW g, SumSolves(g, w, S), NEW h, SumSolves(h, w, T)
  PROVE  \A s \in SUBSET T : g[s] = h[s]
<1>. DEFINE Bad == {s \in SUBSET T : g[s] # h[s]}
<1>1. SUFFICES ASSUME Bad # {} PROVE FALSE
  OBVIOUS
<1>2. PICK s \in Bad : \A t \in Bad : Cardinality(s) <= Cardinality(t)
  <2>1. \A t \in Bad : IsFiniteSet(t)
    BY FS_Subset
  <2>. HIDE DEF Bad
  <2>. QED  BY <1>1, <2>1, SmallestSet
<1>3. s \in SUBSET T /\ s \in SUBSET S /\ IsFiniteSet(s) /\ g[s] # h[s]
  BY <1>2, FS_Subset
<1>4. /\ g[s] = IF s = {} THEN 0 ELSE w[Taken1(s)] + g[s \ {Taken1(s)}]
      /\ h[s] = IF s = {} THEN 0 ELSE w[Taken1(s)] + h[s \ {Taken1(s)}]
  BY <1>3, Zenon DEF SumSolves
<1>5. s # {}
  BY <1>3, <1>4
<1>6. s \ {Taken1(s)} \in SUBSET T /\ ~ (Cardinality(s) <= Cardinality(s \ {Taken1(s)}))
  BY <1>3, <1>5, TakenIn, SmallerSet
<1>7. g[s \ {Taken1(s)}] = h[s \ {Taken1(s)}]
  BY <1>2, <1>6
<1>. QED  BY <1>3, <1>4, <1>5, <1>7

LEMMA SumSolved ==
  ASSUME NEW w, NEW S, Summable(w, S)
  PROVE  \E g : SumSolves(g, w, S) /\ SumFunctionOnSet(w, S) = g[S]
<1>1. \E g : SumSolves(g, w, S)
  BY SumExists
<1>. QED  BY <1>1, Zenon DEF SumFunctionOnSet, FoldFunctionOnSet, MapThenFoldSet,
              SumSolves, Taken1

\* The sum as the fold takes it.
LEMMA SumTaken ==
  ASSUME NEW w, NEW S, Summable(w, S)
  PROVE  /\ SumFunctionOnSet(w, S) \in Int
         /\ S = {} => SumFunctionOnSet(w, S) = 0
         /\ S # {} => SumFunctionOnSet(w, S)
                        = w[Taken1(S)] + SumFunctionOnSet(w, S \ {Taken1(S)})
<1>1. PICK g : SumSolves(g, w, S) /\ SumFunctionOnSet(w, S) = g[S]
  BY SumSolved
<1>2. PICK f \in [SUBSET S -> Int] : SumSolves(f, w, S)
  BY SumExists
<1>3. g[S] = f[S]
  BY <1>1, <1>2, SumUnique DEF Summable
<1>4. g[S] = IF S = {} THEN 0 ELSE w[Taken1(S)] + g[S \ {Taken1(S)}]
  BY <1>1, Zenon DEF SumSolves
<1>5. ASSUME S # {} PROVE g[S \ {Taken1(S)}] = SumFunctionOnSet(w, S \ {Taken1(S)})
  <2>1. S \ {Taken1(S)} \in SUBSET S /\ Summable(w, S \ {Taken1(S)})
    BY SubsetSummable
  <2>2. PICK h : /\ SumSolves(h, w, S \ {Taken1(S)})
                 /\ SumFunctionOnSet(w, S \ {Taken1(S)}) = h[S \ {Taken1(S)}]
    BY <2>1, SumSolved
  <2>. DEFINE R == S \ {Taken1(S)}
  <2>3. R \in SUBSET S /\ SumSolves(h, w, R)
    BY <2>1, <2>2
  <2>4. \A s \in SUBSET R : g[s] = h[s]
    <3>. HIDE DEF R
    <3>. QED  BY <1>1, <2>3, SumUnique DEF Summable
  <2>. QED  BY <2>2, <2>4
<1>6. f[S] \in Int
  BY <1>2
<1>. QED  BY <1>1, <1>3, <1>4, <1>5, <1>6

LEMMA SumType ==
  ASSUME NEW w, NEW S, Summable(w, S)
  PROVE  SumFunctionOnSet(w, S) \in Int
BY SumTaken

\* Any element can be taken first.
LEMMA SumRemove ==
  ASSUME NEW w, NEW S, Summable(w, S)
  PROVE  \A x \in S : SumFunctionOnSet(w, S) = w[x] + SumFunctionOnSet(w, S \ {x})
<1>. DEFINE Bad == {T \in SUBSET S :
                      \E x \in T : SumFunctionOnSet(w, T) # w[x] + SumFunctionOnSet(w, T \ {x})}
<1>1. SUFFICES ASSUME Bad # {} PROVE FALSE
  OBVIOUS
<1>2. PICK T \in Bad : \A U \in Bad : Cardinality(T) <= Cardinality(U)
  <2>1. \A U \in Bad : IsFiniteSet(U)
    BY FS_Subset DEF Summable
  <2>. HIDE DEF Bad
  <2>. QED  BY <1>1, <2>1, SmallestSet
<1>3. T \in SUBSET S /\ Summable(w, T) /\ IsFiniteSet(T)
  BY <1>2, SubsetSummable, FS_Subset DEF Summable
<1>4. PICK x \in T : SumFunctionOnSet(w, T) # w[x] + SumFunctionOnSet(w, T \ {x})
  BY <1>2
<1>. DEFINE c == Taken1(T)
<1>5. c \in T
  BY <1>4, TakenIn
<1>6. SumFunctionOnSet(w, T) = w[c] + SumFunctionOnSet(w, T \ {c})
  BY <1>3, <1>4, SumTaken
<1>7. x # c
  BY <1>4, <1>6
<1>. HIDE DEF c
<1>8. SumFunctionOnSet(w, T \ {c}) = w[x] + SumFunctionOnSet(w, (T \ {c}) \ {x})
  <2>1. ~ (Cardinality(T) <= Cardinality(T \ {c}))
    BY <1>3, <1>5, SmallerSet
  <2>2. T \ {c} \in SUBSET S /\ x \in T \ {c} /\ T \ {c} \notin Bad
    BY <1>2, <1>3, <1>4, <1>7, <2>1
  <2>. QED  BY <2>2
<1>9. SumFunctionOnSet(w, T \ {x}) = w[c] + SumFunctionOnSet(w, (T \ {x}) \ {c})
  <2>1. ~ (Cardinality(T) <= Cardinality(T \ {x}))
    BY <1>3, <1>4, SmallerSet
  <2>2. T \ {x} \in SUBSET S /\ c \in T \ {x} /\ T \ {x} \notin Bad
    BY <1>2, <1>3, <1>5, <1>7, <2>1
  <2>. QED  BY <2>2
<1>10. (T \ {c}) \ {x} = (T \ {x}) \ {c}
  OBVIOUS
<1>11. /\ SumFunctionOnSet(w, (T \ {x}) \ {c}) \in Int /\ w[x] \in Int /\ w[c] \in Int
  BY <1>3, <1>4, <1>5, SubsetSummable, SumType DEF Summable
<1>. DEFINE u == SumFunctionOnSet(w, (T \ {x}) \ {c})
<1>12. u \in Int /\ SumFunctionOnSet(w, T \ {c}) = w[x] + u /\ SumFunctionOnSet(w, T \ {x}) = w[c] + u
  BY <1>8, <1>9, <1>10, <1>11
<1>. HIDE DEF u
<1>13. w[c] + (w[x] + u) = w[x] + (w[c] + u)
  BY <1>11, <1>12
<1>. QED  BY <1>4, <1>6, <1>12, <1>13

LEMMA SumEmpty == ASSUME NEW w PROVE SumFunctionOnSet(w, {}) = 0
BY SumTaken, FS_EmptySet DEF Summable

\* Only the values on the set matter.
LEMMA SumSame ==
  ASSUME NEW w, NEW v, NEW S, Summable(w, S), \A x \in S : v[x] = w[x]
  PROVE  SumFunctionOnSet(v, S) = SumFunctionOnSet(w, S)
<1>1. Summable(v, S)
  BY DEF Summable
<1>2. PICK g : SumSolves(g, w, S) /\ SumFunctionOnSet(w, S) = g[S]
  BY SumSolved
<1>3. PICK h : SumSolves(h, v, S) /\ SumFunctionOnSet(v, S) = h[S]
  BY <1>1, SumSolved
<1>4. \A s \in SUBSET S : s # {} => v[Taken1(s)] = w[Taken1(s)]
  BY TakenIn
<1>5. h = [s \in SUBSET S |-> IF s = {} THEN 0 ELSE w[Taken1(s)] + h[s \ {Taken1(s)}]]
  BY <1>3, <1>4 DEF SumSolves
<1>6. SumSolves(h, w, S)
  BY <1>5 DEF SumSolves
<1>. QED  BY <1>2, <1>3, <1>6, SumUnique DEF Summable

LEMMA SumAdd ==
  ASSUME NEW w, NEW S, Summable(w, S), NEW x, x \notin S, w[x] \in Int
  PROVE  SumFunctionOnSet(w, S \cup {x}) = SumFunctionOnSet(w, S) + w[x]
<1>1. Summable(w, S \cup {x})
  BY FS_AddElement DEF Summable
<1>2. (S \cup {x}) \ {x} = S
  OBVIOUS
<1>. QED  BY <1>1, <1>2, SumRemove, SumType DEF Summable

\* One value changes, by d.
LEMMA SumChange ==
  ASSUME NEW w, NEW v, NEW S, Summable(w, S), NEW x \in S, NEW d \in Int,
         v[x] = w[x] + d, \A y \in S \ {x} : v[y] = w[y]
  PROVE  SumFunctionOnSet(v, S) = SumFunctionOnSet(w, S) + d
<1>1. Summable(v, S)
  BY DEF Summable
<1>2. Summable(w, S \ {x})
  BY SubsetSummable
<1>3. SumFunctionOnSet(v, S \ {x}) = SumFunctionOnSet(w, S \ {x})
  BY <1>2, SumSame
<1>4. /\ SumFunctionOnSet(v, S) = v[x] + SumFunctionOnSet(v, S \ {x})
      /\ SumFunctionOnSet(w, S) = w[x] + SumFunctionOnSet(w, S \ {x})
  BY <1>1, SumRemove
<1>. QED  BY <1>2, <1>3, <1>4, SumType DEF Summable

LEMMA SumZero ==
  ASSUME NEW w, NEW S, IsFiniteSet(S), \A x \in S : w[x] = 0
  PROVE  SumFunctionOnSet(w, S) = 0
<1>. DEFINE Bad == {T \in SUBSET S : SumFunctionOnSet(w, T) # 0}
<1>1. SUFFICES ASSUME Bad # {} PROVE FALSE
  OBVIOUS
<1>2. PICK T \in Bad : \A U \in Bad : Cardinality(T) <= Cardinality(U)
  <2>1. \A U \in Bad : IsFiniteSet(U)
    BY FS_Subset
  <2>. HIDE DEF Bad
  <2>. QED  BY <1>1, <2>1, SmallestSet
<1>3. T \in SUBSET S /\ Summable(w, T) /\ IsFiniteSet(T) /\ SumFunctionOnSet(w, T) # 0
  BY <1>2, FS_Subset DEF Summable
<1>4. PICK x \in T : TRUE
  BY <1>3, SumEmpty
<1>5. T \ {x} \in SUBSET S /\ T \ {x} \notin Bad
  BY <1>2, <1>3, SmallerSet
<1>. QED  BY <1>3, <1>5, SumRemove

-----------------------------------------------------------------------------
(***************************************************************************)
(* Analytics.  A marked event has contributed the increments its holder    *)
(* has made, or all of them when nobody holds it, and so has each mark     *)
(* that expired; each step moves the counters and the contributions alike. *)
(***************************************************************************)
Amount == Counters \X Int

LEMMA ByType ==
  ASSUME NEW n \in Int, NEW s \in Statuses
  PROVE  /\ \A g \in {"tasks", "workspaces", "projects", "users"} : By(n, g, "total") \in Amount
         /\ By(n, "workspaces", "totalMembers") \in Amount /\ By(n, "users", "active") \in Amount
         /\ By(n, "tasks.byStatus", s) \in Amount
         /\ \A d \in {"tasks_created", "tasks_completed", "workspaces_created",
                      "users_registered"} : By(n, "daily", d) \in Amount
BY DEF By, Amount, Counters

LEMMA NothingAdded ==
  ASSUME NEW X, NEW s \in Seq(X)
  PROVE  s \o <<>> = s /\ <<>> \o s = s
OBVIOUS

LEMMA TwoAndOne ==
  ASSUME NEW X, NEW a \in X, NEW b \in X, NEW c \in X
  PROVE  <<a, b>> \o <<c>> = <<a, b, c>> /\ <<a, b>> \o <<>> = <<a, b>>
<1>. DEFINE s == <<a, b>> \o <<c>>  t == <<a, b, c>>
<1>1. <<a, b>> \in Seq(X) /\ <<c>> \in Seq(X)
  OBVIOUS
<1>2. t \in Seq(X) /\ Len(t) = 3 /\ Len(<<a, b>>) = 2
  OBVIOUS
<1>3. s \in Seq(X) /\ Len(s) = 3
  BY <1>1
<1>4. s[1] = a /\ s[2] = b /\ s[3] = c
  BY <1>1
<1>5. \A i \in 1 .. 3 : s[i] = t[i]
  BY <1>4
<1>6. s = t
  BY <1>2, <1>3, <1>5, SeqEqual
<1>. QED  BY <1>1, <1>6, ConcatEmptySeq

LEMMA IncrementsOfTask ==
  ASSUME NEW e \in AnalyticsEvents,
         e.kind \in {"task_created", "task_status_changed", "task_deleted"}
  PROVE  Increments(e) = TaskIncrements(e) /\ TaskIncrements(e) \in Seq(Amount)
<1>0. e.from \in Statuses /\ e.to \in Statuses
  BY AnalyticsAssumption
<1>1. WorkspaceIncrements(e) = <<>> /\ UserIncrements(e) = <<>>
  BY DEF WorkspaceIncrements, UserIncrements
<1>2. /\ By(1, "tasks", "total") \in Amount /\ By(-1, "tasks", "total") \in Amount
      /\ By(1, "tasks.byStatus", e.to) \in Amount /\ By(-1, "tasks.byStatus", e.from) \in Amount
      /\ By(1, "daily", "tasks_created") \in Amount /\ By(1, "daily", "tasks_completed") \in Amount
  BY <1>0, ByType
<1>3. TaskIncrements(e) \in Seq(Amount)
  BY <1>2 DEF TaskIncrements
<1>. QED  BY <1>1, <1>3, NothingAdded DEF Increments

LEMMA IncrementsOfWorkspace ==
  ASSUME NEW e \in AnalyticsEvents,
         e.kind \in {"workspace_created", "project_created", "member_joined", "member_left"}
  PROVE  Increments(e) = WorkspaceIncrements(e) /\ WorkspaceIncrements(e) \in Seq(Amount)
<1>0. e.from \in Statuses
  BY AnalyticsAssumption
<1>1. TaskIncrements(e) = <<>> /\ UserIncrements(e) = <<>>
  BY DEF TaskIncrements, UserIncrements
<1>2. /\ By(1, "workspaces", "total") \in Amount /\ By(1, "projects", "total") \in Amount
      /\ By(1, "workspaces", "totalMembers") \in Amount
      /\ By(-1, "workspaces", "totalMembers") \in Amount
      /\ By(1, "daily", "workspaces_created") \in Amount
  BY <1>0, ByType
<1>3. WorkspaceIncrements(e) \in Seq(Amount)
  BY <1>2 DEF WorkspaceIncrements
<1>. QED  BY <1>1, <1>3, NothingAdded DEF Increments

LEMMA IncrementsOfUser ==
  ASSUME NEW e \in AnalyticsEvents, e.kind = "user_registered"
  PROVE  Increments(e) = UserIncrements(e) /\ UserIncrements(e) \in Seq(Amount)
<1>0. e.from \in Statuses
  BY AnalyticsAssumption
<1>1. TaskIncrements(e) = <<>> /\ WorkspaceIncrements(e) = <<>>
  BY DEF TaskIncrements, WorkspaceIncrements
<1>2. /\ By(1, "users", "total") \in Amount /\ By(1, "users", "active") \in Amount
      /\ By(1, "daily", "users_registered") \in Amount
  BY <1>0, ByType
<1>3. UserIncrements(e) \in Seq(Amount)
  BY <1>2 DEF UserIncrements
<1>. QED  BY <1>1, <1>3, NothingAdded DEF Increments

\* The increments of tasks, one by one.
LEMMA TaskIncrementsAre ==
  ASSUME NEW e \in AnalyticsEvents
  PROVE  /\ e.kind = "task_created" =>
              TaskIncrements(e) = <<By(1, "tasks", "total"), By(1, "tasks.byStatus", e.to),
                                    By(1, "daily", "tasks_created")>>
         /\ e.kind = "task_status_changed" /\ e.to = "DONE" =>
              TaskIncrements(e)
                = <<By(-1, "tasks.byStatus", e.from), By(1, "tasks.byStatus", e.to),
                    By(1, "daily", "tasks_completed")>>
         /\ e.kind = "task_status_changed" /\ e.to # "DONE" =>
              TaskIncrements(e)
                = <<By(-1, "tasks.byStatus", e.from), By(1, "tasks.byStatus", e.to)>>
         /\ e.kind = "task_deleted" =>
              TaskIncrements(e)
                = <<By(-1, "tasks", "total"), By(-1, "tasks.byStatus", e.from)>>
<1>1. /\ By(-1, "tasks.byStatus", e.from) \in Amount /\ By(1, "tasks.byStatus", e.to) \in Amount
      /\ By(1, "daily", "tasks_completed") \in Amount
  BY AnalyticsAssumption, ByType
<1>2. CASE e.kind = "task_status_changed"
  BY <1>1, <1>2, TwoAndOne DEF TaskIncrements
<1>3. CASE e.kind # "task_status_changed"
  BY <1>3 DEF TaskIncrements
<1>. QED  BY <1>2, <1>3

\* What of that the proofs below use.
LEMMA TaskIncrementsHave ==
  ASSUME NEW e \in AnalyticsEvents
  PROVE  /\ e.kind = "task_created" =>
              /\ Len(TaskIncrements(e)) = 3
              /\ TaskIncrements(e)[1] = By(1, "tasks", "total")
              /\ TaskIncrements(e)[2] = By(1, "tasks.byStatus", e.to)
              /\ TaskIncrements(e)[3] = By(1, "daily", "tasks_created")
         /\ e.kind = "task_status_changed" =>
              /\ Len(TaskIncrements(e)) \in {2, 3}
              /\ TaskIncrements(e)[1] = By(-1, "tasks.byStatus", e.from)
              /\ TaskIncrements(e)[2] = By(1, "tasks.byStatus", e.to)
              /\ Len(TaskIncrements(e)) = 3 =>
                   TaskIncrements(e)[3] = By(1, "daily", "tasks_completed")
         /\ e.kind = "task_deleted" =>
              /\ Len(TaskIncrements(e)) = 2
              /\ TaskIncrements(e)[1] = By(-1, "tasks", "total")
              /\ TaskIncrements(e)[2] = By(-1, "tasks.byStatus", e.from)
<1>1. ASSUME NEW a, NEW b, NEW c
      PROVE  /\ Len(<<a, b, c>>) = 3 /\ <<a, b, c>>[1] = a /\ <<a, b, c>>[2] = b
             /\ <<a, b, c>>[3] = c
             /\ Len(<<a, b>>) = 2 /\ <<a, b>>[1] = a /\ <<a, b>>[2] = b
  OBVIOUS
<1>. DEFINE s == TaskIncrements(e)
<1>2. CASE e.kind = "task_created"
  <2>1. s = <<By(1, "tasks", "total"), By(1, "tasks.byStatus", e.to),
              By(1, "daily", "tasks_created")>>
    BY <1>2, TaskIncrementsAre, Zenon
  <2>. HIDE DEF s
  <2>2. /\ Len(s) = 3 /\ s[1] = By(1, "tasks", "total")
        /\ s[2] = By(1, "tasks.byStatus", e.to) /\ s[3] = By(1, "daily", "tasks_created")
    BY <1>1, <2>1, Zenon
  <2>. QED  BY <1>2, <2>2 DEF s
<1>3. CASE e.kind = "task_status_changed" /\ e.to = "DONE"
  <2>1. s = <<By(-1, "tasks.byStatus", e.from), By(1, "tasks.byStatus", e.to),
              By(1, "daily", "tasks_completed")>>
    BY <1>3, TaskIncrementsAre, Zenon
  <2>. HIDE DEF s
  <2>2. /\ Len(s) = 3 /\ s[1] = By(-1, "tasks.byStatus", e.from)
        /\ s[2] = By(1, "tasks.byStatus", e.to) /\ s[3] = By(1, "daily", "tasks_completed")
    BY <1>1, <2>1, Zenon
  <2>. QED  BY <1>3, <2>2 DEF s
<1>4. CASE e.kind = "task_status_changed" /\ e.to # "DONE"
  <2>1. s = <<By(-1, "tasks.byStatus", e.from), By(1, "tasks.byStatus", e.to)>>
    BY <1>4, TaskIncrementsAre, Zenon
  <2>. HIDE DEF s
  <2>2. /\ Len(s) = 2 /\ s[1] = By(-1, "tasks.byStatus", e.from)
        /\ s[2] = By(1, "tasks.byStatus", e.to)
    BY <1>1, <2>1, Zenon
  <2>. QED  BY <1>4, <2>2 DEF s
<1>5. CASE e.kind = "task_deleted"
  <2>1. s = <<By(-1, "tasks", "total"), By(-1, "tasks.byStatus", e.from)>>
    BY <1>5, TaskIncrementsAre, Zenon
  <2>. HIDE DEF s
  <2>2. /\ Len(s) = 2 /\ s[1] = By(-1, "tasks", "total")
        /\ s[2] = By(-1, "tasks.byStatus", e.from)
    BY <1>1, <2>1, Zenon
  <2>. QED  BY <1>5, <2>2 DEF s
<1>6. CASE e.kind \notin {"task_created", "task_status_changed", "task_deleted"}
  BY <1>6, Zenon
<1>. QED  BY <1>2, <1>3, <1>4, <1>5, <1>6, Zenon

LEMMA IncrementsType ==
  ASSUME NEW e \in AnalyticsEvents
  PROVE  Increments(e) \in Seq(Amount) /\ Len(Increments(e)) \in Nat \ {0}
<1>1. e.kind \in HandledKinds
  BY AnalyticsAssumption
<1>2. Increments(e) \in Seq(Amount)
  BY <1>1, IncrementsOfTask, IncrementsOfWorkspace, IncrementsOfUser DEF HandledKinds
<1>3. CASE e.kind \in {"task_created", "task_status_changed", "task_deleted"}
  <2>1. Len(TaskIncrements(e)) >= 1
    BY <1>3, TaskIncrementsHave
  <2>. QED  BY <1>2, <1>3, <2>1, IncrementsOfTask
<1>4. CASE e.kind \in {"workspace_created", "project_created", "member_joined", "member_left"}
  <2>1. Len(WorkspaceIncrements(e)) >= 1
    BY <1>4 DEF WorkspaceIncrements
  <2>. QED  BY <1>2, <1>4, <2>1, IncrementsOfWorkspace
<1>5. CASE e.kind = "user_registered"
  <2>1. Len(UserIncrements(e)) >= 1
    BY <1>5 DEF UserIncrements
  <2>. QED  BY <1>2, <1>5, <2>1, IncrementsOfUser
<1>. QED  BY <1>1, <1>3, <1>4, <1>5 DEF HandledKinds

-----------------------------------------------------------------------------
\* What e has contributed to k after its first n increments.
Shares(e) == [i \in 1 .. Len(Increments(e)) |-> Increments(e)[i][2]]

CountedAt(e, n, k) == SumFunctionOnSet(Shares(e), {i \in 1 .. n : Increments(e)[i][1] = k})

LEMMA IncrementIs ==
  ASSUME NEW e \in AnalyticsEvents, NEW i \in 1 .. Len(Increments(e))
  PROVE  Increments(e)[i][1] \in Counters /\ Increments(e)[i][2] \in Int
<1>1. Increments(e)[i] \in Amount
  BY IncrementsType, ElementOfSeq
<1>. QED  BY <1>1 DEF Amount

LEMMA SharesSummable ==
  ASSUME NEW e \in AnalyticsEvents, NEW n \in 0 .. Len(Increments(e)), NEW k
  PROVE  /\ Summable(Shares(e), {i \in 1 .. n : Increments(e)[i][1] = k})
         /\ CountedAt(e, n, k) \in Int
<1>. DEFINE D == {i \in 1 .. n : Increments(e)[i][1] = k}
<1>1. Len(Increments(e)) \in Nat
  BY IncrementsType
<1>2. D \in SUBSET (1 .. n) /\ IsFiniteSet(1 .. n)
  BY <1>1, FS_Interval
<1>3. IsFiniteSet(D)
  <2>. HIDE DEF D
  <2>. QED  BY <1>2, FS_Subset
<1>4. \A i \in D : Shares(e)[i] \in Int
  BY <1>1, IncrementIs DEF Shares
<1>5. Summable(Shares(e), D)
  BY <1>3, <1>4 DEF Summable
<1>. QED  BY <1>5, SumType DEF CountedAt

LEMMA CountedNone ==
  ASSUME NEW e \in AnalyticsEvents, NEW k
  PROVE  CountedAt(e, 0, k) = 0
<1>1. {i \in 1 .. 0 : Increments(e)[i][1] = k} = {}
  OBVIOUS
<1>. QED  BY <1>1, SumEmpty DEF CountedAt

LEMMA CountedUntouched ==
  ASSUME NEW e \in AnalyticsEvents, NEW n \in 0 .. Len(Increments(e)), NEW k, ~Touches(e, k)
  PROVE  CountedAt(e, n, k) = 0
<1>1. Len(Increments(e)) \in Nat /\ DOMAIN Increments(e) = 1 .. Len(Increments(e))
  BY IncrementsType, LenProperties
<1>2. {i \in 1 .. n : Increments(e)[i][1] = k} = {}
  BY <1>1 DEF Touches
<1>. QED  BY <1>2, SumEmpty DEF CountedAt

LEMMA CountedMore ==
  ASSUME NEW e \in AnalyticsEvents, NEW n \in Nat, n + 1 <= Len(Increments(e)), NEW k
  PROVE  CountedAt(e, n + 1, k)
           = CountedAt(e, n, k) + (IF Increments(e)[n + 1][1] = k
                                   THEN Increments(e)[n + 1][2] ELSE 0)
<1>. DEFINE D(m) == {i \in 1 .. m : Increments(e)[i][1] = k}
<1>1. Len(Increments(e)) \in Nat /\ n \in 0 .. Len(Increments(e))
      /\ n + 1 \in 1 .. Len(Increments(e))
  BY IncrementsType
<1>2. /\ Summable(Shares(e), D(n)) /\ CountedAt(e, n, k) \in Int
      /\ Increments(e)[n + 1][2] \in Int /\ Shares(e)[n + 1] = Increments(e)[n + 1][2]
  BY <1>1, SharesSummable, IncrementIs DEF Shares
<1>3. n + 1 \notin D(n)
  OBVIOUS
<1>4. CASE Increments(e)[n + 1][1] = k
  <2>1. D(n + 1) = D(n) \cup {n + 1}
    BY <1>4
  <2>. HIDE DEF D
  <2>2. SumFunctionOnSet(Shares(e), D(n) \cup {n + 1})
          = SumFunctionOnSet(Shares(e), D(n)) + Shares(e)[n + 1]
    BY <1>2, <1>3, SumAdd
  <2>3. CountedAt(e, n + 1, k) = SumFunctionOnSet(Shares(e), D(n + 1))
        /\ CountedAt(e, n, k) = SumFunctionOnSet(Shares(e), D(n))
    BY DEF CountedAt, D
  <2>. QED  BY <1>2, <1>4, <2>1, <2>2, <2>3
<1>5. CASE Increments(e)[n + 1][1] # k
  <2>1. D(n + 1) = D(n)
    BY <1>5
  <2>2. CountedAt(e, n + 1, k) = CountedAt(e, n, k)
    BY <2>1 DEF CountedAt
  <2>. QED  BY <1>2, <1>5, <2>2
<1>. QED  BY <1>4, <1>5

LEMMA CountedIs ==
  ASSUME NEW e \in AnalyticsEvents, NEW n \in 0 .. Len(Increments(e)), NEW k
  PROVE  CountedAfter(e, n, k) = CountedAt(e, n, k)
<1>. DEFINE D == {i \in 1 .. n : Increments(e)[i][1] = k}
            w == [i \in D |-> Increments(e)[i][2]]
<1>1. Summable(Shares(e), D)
  BY SharesSummable
<1>2. \A i \in D : w[i] = Shares(e)[i]
  BY IncrementsType DEF Shares
<1>3. CountedAfter(e, n, k) = SumFunctionOnSet(w, D)
  BY DEF CountedAfter, SumFunction
<1>4. CountedAt(e, n, k) = SumFunctionOnSet(Shares(e), D)
  BY DEF CountedAt
<1>. HIDE DEF D, w
<1>. QED  BY <1>1, <1>2, <1>3, <1>4, SumSame

-----------------------------------------------------------------------------
\* Tasks in all less tasks by status, after the first n increments of e.
GapAt(e, n) ==
  IF n # 1 THEN 0
  ELSE CASE e.kind \in {"task_created", "task_status_changed"} -> 1
         [] e.kind = "task_deleted" -> -1
         [] OTHER -> 0

ByStatus == {"tasks.byStatus"} \X Statuses

GapStep(step) == IF step[1] = <<"tasks", "total">> THEN step[2]
                 ELSE IF step[1] \in ByStatus THEN -step[2] ELSE 0

LEMMA ByGap ==
  ASSUME NEW n \in Int, NEW s \in Statuses
  PROVE  /\ GapStep(By(n, "tasks", "total")) = n
         /\ GapStep(By(n, "tasks.byStatus", s)) = -n
         /\ \A g \in {"daily", "workspaces", "projects", "users"} : \A m : GapStep(By(n, g, m)) = 0
BY DEF GapStep, By, ByStatus

LEMMA GapMore ==
  ASSUME NEW e \in AnalyticsEvents, NEW n \in Nat, n + 1 <= Len(Increments(e))
  PROVE  GapAt(e, n + 1) = GapAt(e, n) + GapStep(Increments(e)[n + 1])
<1>1. e.kind \in HandledKinds /\ e.from \in Statuses /\ e.to \in Statuses
  BY AnalyticsAssumption
<1>2. CASE e.kind = "task_created"
  <2>3. /\ Len(Increments(e)) = 3
        /\ Increments(e)[1] = By(1, "tasks", "total")
        /\ Increments(e)[2] = By(1, "tasks.byStatus", e.to)
        /\ Increments(e)[3] = By(1, "daily", "tasks_created")
    BY <1>2, IncrementsOfTask, TaskIncrementsHave
  <2>2. n \in {0, 1, 2}
    BY <2>3
  <2>4. /\ GapStep(Increments(e)[1]) = 1 /\ GapStep(Increments(e)[2]) = -1
        /\ GapStep(Increments(e)[3]) = 0
    BY <1>1, <2>3, ByGap
  <2>. QED  BY <1>2, <2>2, <2>4 DEF GapAt
<1>3. CASE e.kind = "task_status_changed"
  <2>1. /\ Len(Increments(e)) \in {2, 3}
        /\ Increments(e)[1] = By(-1, "tasks.byStatus", e.from)
        /\ Increments(e)[2] = By(1, "tasks.byStatus", e.to)
        /\ Len(Increments(e)) = 3 => Increments(e)[3] = By(1, "daily", "tasks_completed")
    BY <1>3, IncrementsOfTask, TaskIncrementsHave
  <2>. DEFINE len == Len(Increments(e))
  <2>2. n \in {0, 1, 2} /\ (n = 2 => len = 3)
    <3>1. len \in {2, 3} /\ n + 1 <= len
      BY <2>1
    <3>. HIDE DEF len
    <3>. QED  BY <3>1
  <2>3. /\ GapStep(Increments(e)[1]) = 1 /\ GapStep(Increments(e)[2]) = -1
        /\ n = 2 => GapStep(Increments(e)[3]) = 0
    BY <1>1, <2>1, <2>2, ByGap
  <2>. QED  BY <1>3, <2>2, <2>3 DEF GapAt
<1>4. CASE e.kind = "task_deleted"
  <2>1. /\ Len(Increments(e)) = 2
        /\ Increments(e)[1] = By(-1, "tasks", "total")
        /\ Increments(e)[2] = By(-1, "tasks.byStatus", e.from)
    BY <1>4, IncrementsOfTask, TaskIncrementsHave
  <2>2. n \in {0, 1} /\ Increments(e)[1] = By(-1, "tasks", "total")
        /\ Increments(e)[2] = By(-1, "tasks.byStatus", e.from)
    BY <2>1
  <2>3. GapStep(Increments(e)[1]) = -1 /\ GapStep(Increments(e)[2]) = 1
    BY <1>1, <2>2, ByGap
  <2>. QED  BY <1>4, <2>2, <2>3 DEF GapAt
<1>5. CASE e.kind \in {"workspace_created", "project_created", "member_joined", "member_left"}
  <2>1. GapStep(Increments(e)[n + 1]) = 0
    <3>1. /\ GapStep(By(1, "workspaces", "total")) = 0 /\ GapStep(By(1, "projects", "total")) = 0
          /\ GapStep(By(1, "workspaces", "totalMembers")) = 0
          /\ GapStep(By(-1, "workspaces", "totalMembers")) = 0
          /\ GapStep(By(1, "daily", "workspaces_created")) = 0
      BY <1>1, ByGap, 1 \in Int, -1 \in Int, Zenon
    <3>. QED  BY <1>5, <3>1, IncrementsOfWorkspace DEF WorkspaceIncrements
  <2>. QED  BY <1>5, <2>1 DEF GapAt
<1>6. CASE e.kind = "user_registered"
  <2>1. GapStep(Increments(e)[n + 1]) = 0
    <3>1. /\ GapStep(By(1, "users", "total")) = 0 /\ GapStep(By(1, "users", "active")) = 0
          /\ GapStep(By(1, "daily", "users_registered")) = 0
      BY <1>1, ByGap, 1 \in Int, Zenon
    <3>. QED  BY <1>6, <3>1, IncrementsOfUser DEF UserIncrements
  <2>. QED  BY <1>6, <2>1 DEF GapAt
<1>. QED  BY <1>1, <1>2, <1>3, <1>4, <1>5, <1>6 DEF HandledKinds

\* All increments made, nothing is left of a gap.
LEMMA GapClosed ==
  ASSUME NEW e \in AnalyticsEvents
  PROVE  GapAt(e, Len(Increments(e))) = 0 /\ GapAt(e, 0) = 0 /\ \A n \in Nat : GapAt(e, n) \in Int
<1>1. CASE e.kind \in {"task_created", "task_status_changed", "task_deleted"}
  <2>1. Len(Increments(e)) \in {2, 3}
    BY <1>1, IncrementsOfTask, TaskIncrementsHave
  <2>2. GapAt(e, Len(Increments(e))) = 0 /\ GapAt(e, 0) = 0
    BY <2>1 DEF GapAt
  <2>3. \A n \in Nat : GapAt(e, n) \in Int
    BY <1>1 DEF GapAt
  <2>. QED  BY <2>2, <2>3
<1>2. CASE e.kind \notin {"task_created", "task_status_changed", "task_deleted"}
  BY <1>2 DEF GapAt
<1>. QED  BY <1>1, <1>2

-----------------------------------------------------------------------------
TallyRecord == [pc : {"idle", "increment", "commit", "unmark"},
                event : SUBSET AnalyticsEvents, done : Nat]

HoldersOf(t, e) == {c \in AnalyticsConsumers : t[c].event = {e}}

ProgressIn(t, e) ==
  IF HoldersOf(t, e) = {} THEN Len(Increments(e))
  ELSE Max({t[c].done : c \in HoldersOf(t, e)})

\* A consumer in state q is idle, or handles a marked event.
Holds(q, e, inHand, failed) ==
  /\ e \in AnalyticsEvents /\ q.event = {e} /\ e \in inHand
  /\ q.done \in 0 .. Len(Increments(e))
  /\ q.pc \in {"increment", "commit", "unmark"}
  /\ q.pc = "increment" => q.done < Len(Increments(e))
  /\ q.pc = "commit" => q.done = Len(Increments(e))
  /\ q.pc = "unmark" => q.done = 0 \/ e \in failed

Tallying(q, inHand, failed) == q = NotTallying \/ \E e : Holds(q, e, inHand, failed)

HeldOnce(t) ==
  \A c, d \in AnalyticsConsumers : \A e \in AnalyticsEvents :
    t[c].event = {e} /\ t[d].event = {e} => c = d

CountedTo(t, k) == [e \in AnalyticsEvents |-> CountedAt(e, ProgressIn(t, e), k)]
Gaps(t) == [e \in AnalyticsEvents |-> GapAt(e, ProgressIn(t, e))]
StatusCounts(cs) == [s \in Statuses |-> cs[<<"tasks.byStatus", s>>]]
Total == <<"tasks", "total">>

Unbroken(k, failed) == \A e \in failed : ~Touches(e, k)

\* What the marks that expired have contributed to k: each all of its event.
LapsedTo(k) ==
  [p \in AnalyticsEvents \X Nat |-> CountedAt(p[1], Len(Increments(p[1])), k)]
Lapsed(k, expired) == SumFunctionOnSet(LapsedTo(k), expired)

TallyTypes ==
  /\ counts \in [Counters -> Int]
  /\ marks \in SUBSET AnalyticsEvents /\ broken \in SUBSET AnalyticsEvents
  /\ tally \in [AnalyticsConsumers -> TallyRecord]
  /\ lapsedMarks \in SUBSET (AnalyticsEvents \X Nat) /\ markLapses \in Nat

TallyInv ==
  /\ TallyTypes /\ IsFiniteSet(marks)
  /\ IsFiniteSet(lapsedMarks) /\ \A p \in lapsedMarks : p[2] < markLapses
  /\ \A c \in AnalyticsConsumers : Tallying(tally[c], marks, broken)
  /\ HeldOnce(tally)
  /\ \A k \in Counters : Unbroken(k, broken)
       => counts[k] = SumFunctionOnSet(CountedTo(tally, k), marks) + Lapsed(k, lapsedMarks)
  /\ broken = {}
       => counts[Total] = SumFunctionOnSet(StatusCounts(counts), Statuses)
                            + SumFunctionOnSet(Gaps(tally), marks)

LEMMA MaxOne == ASSUME NEW n \in Nat PROVE Max({n}) = n
BY DEF Max

LEMMA ProgressFree ==
  ASSUME NEW t, NEW e \in AnalyticsEvents, \A c \in AnalyticsConsumers : t[c].event # {e}
  PROVE  ProgressIn(t, e) = Len(Increments(e))
BY DEF ProgressIn, HoldersOf

LEMMA ProgressHeld ==
  ASSUME NEW t, NEW e \in AnalyticsEvents, HeldOnce(t),
         NEW c \in AnalyticsConsumers, t[c].event = {e}, t[c].done \in Nat
  PROVE  ProgressIn(t, e) = t[c].done
<1>1. HoldersOf(t, e) = {c}
  BY DEF HeldOnce, HoldersOf
<1>2. {t[d].done : d \in HoldersOf(t, e)} = {t[c].done}
  BY <1>1
<1>. QED  BY <1>1, <1>2, MaxOne DEF ProgressIn

\* The progress of an event is its holder's, whatever the others do.
LEMMA ProgressOther ==
  ASSUME NEW t, NEW u, NEW c \in AnalyticsConsumers, NEW e \in AnalyticsEvents,
         \A d \in AnalyticsConsumers \ {c} : u[d] = t[d],
         t[c].event # {e}, u[c].event # {e}
  PROVE  ProgressIn(u, e) = ProgressIn(t, e)
<1>1. HoldersOf(u, e) = HoldersOf(t, e) /\ c \notin HoldersOf(t, e)
  BY DEF HoldersOf
<1>2. \A d \in HoldersOf(t, e) : u[d].done = t[d].done
  BY <1>1 DEF HoldersOf
<1>3. {u[d].done : d \in HoldersOf(u, e)} = {t[d].done : d \in HoldersOf(t, e)}
  BY <1>1, <1>2
<1>. QED  BY <1>1, <1>3 DEF ProgressIn

LEMMA ProgressKept ==
  ASSUME NEW t, NEW u, NEW e \in AnalyticsEvents,
         \A d \in AnalyticsConsumers : u[d].event = t[d].event /\ u[d].done = t[d].done
  PROVE  ProgressIn(u, e) = ProgressIn(t, e)
<1>1. HoldersOf(u, e) = HoldersOf(t, e)
  BY DEF HoldersOf
<1>2. \A d \in HoldersOf(t, e) : u[d].done = t[d].done
  BY DEF HoldersOf
<1>3. {u[d].done : d \in HoldersOf(u, e)} = {t[d].done : d \in HoldersOf(t, e)}
  BY <1>1, <1>2
<1>. QED  BY <1>1, <1>3 DEF ProgressIn

LEMMA ProgressRange ==
  ASSUME NEW t, HeldOnce(t), NEW inHand, NEW failed,
         \A c \in AnalyticsConsumers : Tallying(t[c], inHand, failed),
         NEW e \in AnalyticsEvents
  PROVE  ProgressIn(t, e) \in 0 .. Len(Increments(e))
<1>1. Len(Increments(e)) \in Nat
  BY IncrementsType
<1>2. CASE \E c \in AnalyticsConsumers : t[c].event = {e}
  <2>1. PICK c \in AnalyticsConsumers : t[c].event = {e}
    BY <1>2
  <2>2. t[c].done \in 0 .. Len(Increments(e))
    <3>1. t[c] # NotTallying
      BY <2>1 DEF NotTallying
    <3>2. PICK f : Holds(t[c], f, inHand, failed)
      BY <3>1 DEF Tallying
    <3>3. f = e
      BY <2>1, <3>2 DEF Holds
    <3>. QED  BY <3>2, <3>3 DEF Holds
  <2>. QED  BY <1>1, <2>1, <2>2, ProgressHeld
<1>3. CASE ~ \E c \in AnalyticsConsumers : t[c].event = {e}
  <2>1. ProgressIn(t, e) = Len(Increments(e))
    BY <1>3, ProgressFree
  <2>. QED  BY <1>1, <2>1
<1>. QED  BY <1>2, <1>3

LEMMA CountedInt ==
  ASSUME NEW e \in AnalyticsEvents, NEW k
  PROVE  CountedAt(e, Len(Increments(e)), k) \in Int
<1>1. Len(Increments(e)) \in 0 .. Len(Increments(e))
  BY IncrementsType
<1>. QED  BY <1>1, SharesSummable

\* What the invariant says can be summed.
LEMMA InvSummable ==
  ASSUME TallyInv, NEW k
  PROVE  /\ Summable(CountedTo(tally, k), marks) /\ Summable(Gaps(tally), marks)
         /\ Summable(StatusCounts(counts), Statuses)
         /\ Summable(LapsedTo(k), lapsedMarks) /\ Lapsed(k, lapsedMarks) \in Int
         /\ marks \subseteq AnalyticsEvents
         /\ \A e \in AnalyticsEvents : ProgressIn(tally, e) \in 0 .. Len(Increments(e))
<1>1. /\ marks \subseteq AnalyticsEvents /\ IsFiniteSet(marks) /\ IsFiniteSet(Statuses)
      /\ counts \in [Counters -> Int]
      /\ lapsedMarks \subseteq AnalyticsEvents \X Nat /\ IsFiniteSet(lapsedMarks)
  BY AnalyticsAssumption DEF TallyInv, TallyTypes
<1>2. \A e \in AnalyticsEvents : ProgressIn(tally, e) \in 0 .. Len(Increments(e))
  BY ProgressRange DEF TallyInv
<1>3. \A e \in marks : CountedTo(tally, k)[e] \in Int
  BY <1>1, <1>2, SharesSummable DEF CountedTo
<1>4. \A e \in marks : Gaps(tally)[e] \in Int
  <2>1. \A e \in marks : ProgressIn(tally, e) \in Nat
    BY <1>1, <1>2, IncrementsType
  <2>. QED  BY <1>1, <2>1, GapClosed DEF Gaps
<1>5. \A s \in Statuses : StatusCounts(counts)[s] \in Int
  BY <1>1 DEF StatusCounts, Counters
<1>6. ASSUME NEW p \in lapsedMarks PROVE LapsedTo(k)[p] \in Int
  BY <1>1, CountedInt DEF LapsedTo
<1>7. Summable(LapsedTo(k), lapsedMarks)
  BY <1>1, <1>6 DEF Summable
<1>8. Lapsed(k, lapsedMarks) \in Int
  BY <1>7, SumType DEF Lapsed
<1>. QED  BY <1>1, <1>2, <1>3, <1>4, <1>5, <1>7, <1>8 DEF Summable

\* The sums of the property are those of the invariant.
LEMMA TallyImplied ==
  ASSUME TallyInv
  PROVE  /\ \A k \in Counters : (\A e \in broken : ~Touches(e, k))
              => counts[k] = SumFunction([e \in marks |-> Counted(e, k)])
                               + SumFunction([p \in lapsedMarks |-> CountedInFull(p[1], k)])
         /\ (broken = {} /\ \A c \in AnalyticsConsumers : tally[c].pc = "idle")
              => counts[<<"tasks", "total">>]
                   = SumFunction([s \in Statuses |-> counts[<<"tasks.byStatus", s>>]])
<1>1. \A e \in AnalyticsEvents : Progress(e) = ProgressIn(tally, e)
  BY DEF Progress, ProgressIn, HoldersOf
<1>2. ASSUME NEW k \in Counters
      PROVE  SumFunction([e \in marks |-> Counted(e, k)])
               = SumFunctionOnSet(CountedTo(tally, k), marks)
  <2>. DEFINE w == [e \in marks |-> Counted(e, k)]
  <2>1. \A e \in marks : w[e] = CountedTo(tally, k)[e]
    BY <1>1, InvSummable, CountedIs DEF CountedTo, Counted
  <2>2. SumFunction(w) = SumFunctionOnSet(w, marks)
    BY DEF SumFunction
  <2>. HIDE DEF w
  <2>3. SumFunctionOnSet(w, marks) = SumFunctionOnSet(CountedTo(tally, k), marks)
    BY <2>1, InvSummable, SumSame
  <2>. QED  BY <2>2, <2>3 DEF w
<1>5. ASSUME NEW k \in Counters
      PROVE  SumFunction([p \in lapsedMarks |-> CountedInFull(p[1], k)]) = Lapsed(k, lapsedMarks)
  <2>. DEFINE w == [p \in lapsedMarks |-> CountedInFull(p[1], k)]
  <2>0. lapsedMarks \subseteq AnalyticsEvents \X Nat
    BY DEF TallyInv, TallyTypes
  <2>1. ASSUME NEW p \in lapsedMarks PROVE w[p] = LapsedTo(k)[p]
    <3>1. p \in AnalyticsEvents \X Nat /\ p[1] \in AnalyticsEvents
      BY <2>0
    <3>2. Len(Increments(p[1])) \in 0 .. Len(Increments(p[1]))
      BY <3>1, IncrementsType
    <3>3. CountedInFull(p[1], k) = CountedAt(p[1], Len(Increments(p[1])), k)
      BY <3>1, <3>2, CountedIs DEF CountedInFull
    <3>. QED  BY <3>1, <3>3 DEF LapsedTo
  <2>2. SumFunction(w) = SumFunctionOnSet(w, lapsedMarks)
    BY DEF SumFunction
  <2>. HIDE DEF w
  <2>3. SumFunctionOnSet(w, lapsedMarks) = SumFunctionOnSet(LapsedTo(k), lapsedMarks)
    BY <2>1, InvSummable, SumSame
  <2>. QED  BY <2>2, <2>3 DEF w, Lapsed
<1>3. ASSUME NEW k \in Counters, \A e \in broken : ~Touches(e, k)
      PROVE  counts[k] = SumFunction([e \in marks |-> Counted(e, k)])
                           + SumFunction([p \in lapsedMarks |-> CountedInFull(p[1], k)])
  <2>1. counts[k] = SumFunctionOnSet(CountedTo(tally, k), marks) + Lapsed(k, lapsedMarks)
    BY <1>3 DEF TallyInv, Unbroken
  <2>. QED  BY <1>2, <1>5, <2>1, Zenon
<1>4. ASSUME broken = {}, \A c \in AnalyticsConsumers : tally[c].pc = "idle"
      PROVE  counts[<<"tasks", "total">>]
               = SumFunction([s \in Statuses |-> counts[<<"tasks.byStatus", s>>]])
  <2>1. \A e \in AnalyticsEvents : \A c \in AnalyticsConsumers : tally[c].event # {e}
    <3>1. ASSUME NEW c \in AnalyticsConsumers PROVE tally[c] = NotTallying
      <4>1. Tallying(tally[c], marks, broken) /\ tally[c].pc = "idle"
        BY <1>4 DEF TallyInv
      <4>. QED  BY <4>1 DEF Tallying, Holds
    <3>. QED  BY <3>1 DEF NotTallying
  <2>2. \A e \in marks : Gaps(tally)[e] = 0
    BY <2>1, InvSummable, ProgressFree, GapClosed DEF Gaps
  <2>3. SumFunctionOnSet(Gaps(tally), marks) = 0
    BY <2>2, SumZero DEF TallyInv
  <2>4. SumFunctionOnSet(StatusCounts(counts), Statuses) \in Int
    BY InvSummable, SumType
  <2>5. SumFunction([s \in Statuses |-> counts[<<"tasks.byStatus", s>>]])
          = SumFunctionOnSet(StatusCounts(counts), Statuses)
    BY DEF SumFunction, StatusCounts
  <2>6. counts[Total] = SumFunctionOnSet(StatusCounts(counts), Statuses) + 0
    BY <1>4, <2>3 DEF TallyInv
  <2>. QED  BY <2>4, <2>5, <2>6 DEF Total
<1>. QED  BY <1>3, <1>4, Zenon

-----------------------------------------------------------------------------
LEMMA NotTallyingType == NotTallying \in TallyRecord /\ NotTallying.pc = "idle"
                         /\ NotTallying.event = {} /\ NotTallying.done = 0
BY DEF NotTallying, TallyRecord

LEMMA TallyInitially == AnalyticsInit => TallyInv
<1>. SUFFICES ASSUME AnalyticsInit PROVE TallyInv
  OBVIOUS
<1>1. /\ counts = [k \in Counters |-> 0] /\ marks = {}
      /\ tally = [c \in AnalyticsConsumers |-> NotTallying]
      /\ broken = {} /\ lapsedMarks = {} /\ markLapses = 0
  BY DEF AnalyticsInit
<1>2. TallyTypes
  BY <1>1, NotTallyingType DEF TallyTypes, TallyRecord
<1>3. IsFiniteSet(marks) /\ IsFiniteSet(lapsedMarks)
  BY <1>1, FS_EmptySet
<1>4. /\ \A c \in AnalyticsConsumers : Tallying(tally[c], marks, broken)
      /\ HeldOnce(tally)
  BY <1>1, NotTallyingType DEF Tallying, HeldOnce
<1>5. ASSUME NEW k \in Counters
      PROVE  counts[k] = SumFunctionOnSet(CountedTo(tally, k), marks) + Lapsed(k, lapsedMarks)
  <2>1. SumFunctionOnSet(CountedTo(tally, k), marks) = 0 /\ Lapsed(k, lapsedMarks) = 0
    BY <1>1, SumEmpty DEF Lapsed
  <2>. QED  BY <1>1, <2>1
<1>6. counts[Total] = 0 /\ SumFunctionOnSet(Gaps(tally), marks) = 0
  <2>1. Total \in Counters
    BY DEF Total, Counters
  <2>. QED  BY <1>1, <2>1, SumEmpty
<1>7. SumFunctionOnSet(StatusCounts(counts), Statuses) = 0
  <2>1. \A s \in Statuses : StatusCounts(counts)[s] = 0
    BY <1>1 DEF StatusCounts, Counters
  <2>. QED  BY <2>1, SumZero, AnalyticsAssumption
<1>. QED  BY <1>1, <1>2, <1>3, <1>4, <1>5, <1>6, <1>7 DEF TallyInv

\* A step of consumer c that concerns event e: every other consumer, and the
\* progress of every other event, stays as it is.
Concerns(c, e) ==
  /\ c \in AnalyticsConsumers /\ e \in AnalyticsEvents
  /\ tally' \in [AnalyticsConsumers -> TallyRecord]
  /\ \A d \in AnalyticsConsumers \ {c} : tally'[d] = tally[d]
  /\ tally[c].event \in {{}, {e}} /\ tally'[c].event \in {{}, {e}}
  /\ e \notin marks \/ tally[c].event = {e}
  /\ UNCHANGED <<lapsedMarks, markLapses>>
  /\ \A f \in broken : f \in broken'
  /\ \A f \in marks \ {e} : f \in marks'
  /\ Tallying(tally'[c], marks', broken')

LEMMA OtherTalliesKept ==
  ASSUME TallyInv, NEW c, NEW e, Concerns(c, e)
  PROVE  /\ \A d \in AnalyticsConsumers : Tallying(tally'[d], marks', broken')
         /\ HeldOnce(tally')
         /\ \A f \in AnalyticsEvents \ {e} : ProgressIn(tally', f) = ProgressIn(tally, f)
         /\ tally[c].event = {e} => ProgressIn(tally, e) = tally[c].done
         /\ tally'[c].event = {e} => ProgressIn(tally', e) = tally'[c].done
         /\ tally'[c].event = {} => ProgressIn(tally', e) = Len(Increments(e))
<1>1. /\ c \in AnalyticsConsumers /\ e \in AnalyticsEvents
      /\ \A d \in AnalyticsConsumers \ {c} : tally'[d] = tally[d]
      /\ tally[c].event \in {{}, {e}} /\ tally'[c].event \in {{}, {e}}
      /\ tally \in [AnalyticsConsumers -> TallyRecord]
      /\ tally' \in [AnalyticsConsumers -> TallyRecord]
  BY DEF Concerns, TallyInv, TallyTypes, TallyRecord
<1>2. ASSUME NEW d \in AnalyticsConsumers \ {c} PROVE tally[d].event # {e}
  <2>1. Tallying(tally[d], marks, broken)
    BY DEF TallyInv
  <2>2. tally[d].event = {e} => e \in marks
    BY <2>1, NotTallyingType DEF Tallying, Holds
  <2>. QED  BY <1>1, <2>2 DEF Concerns, TallyInv, HeldOnce
<1>3. ASSUME NEW d \in AnalyticsConsumers PROVE Tallying(tally'[d], marks', broken')
  <2>1. CASE d = c
    BY <2>1 DEF Concerns
  <2>2. CASE d # c
    <3>1. tally'[d] = tally[d] /\ tally[d].event # {e} /\ Tallying(tally[d], marks, broken)
      BY <1>1, <1>2, <2>2 DEF TallyInv
    <3>2. CASE tally[d] = NotTallying
      BY <3>1, <3>2 DEF Tallying
    <3>3. ASSUME NEW f, Holds(tally[d], f, marks, broken)
          PROVE  Holds(tally[d], f, marks', broken')
      BY <3>1, <3>3 DEF Holds, Concerns
    <3>. QED  BY <3>1, <3>2, <3>3 DEF Tallying
  <2>. QED  BY <2>1, <2>2
<1>4. HeldOnce(tally')
  <2>1. SUFFICES ASSUME NEW a \in AnalyticsConsumers, NEW b \in AnalyticsConsumers,
                        NEW f \in AnalyticsEvents, tally'[a].event = {f}, tally'[b].event = {f}
                 PROVE  a = b
    BY DEF HeldOnce
  <2>2. CASE f = e
    BY <1>1, <1>2, <2>1, <2>2
  <2>3. CASE f # e
    <3>1. a # c /\ b # c
      BY <1>1, <2>1, <2>3
    <3>2. tally[a].event = {f} /\ tally[b].event = {f}
      BY <1>1, <2>1, <3>1
    <3>. QED  BY <3>2 DEF TallyInv, HeldOnce
  <2>. QED  BY <2>2, <2>3
<1>5. ASSUME NEW f \in AnalyticsEvents \ {e}
      PROVE  ProgressIn(tally', f) = ProgressIn(tally, f)
  <2>1. tally[c].event # {f} /\ tally'[c].event # {f}
    BY <1>1
  <2>. QED  BY <1>1, <2>1, ProgressOther
<1>6. tally[c].done \in Nat /\ tally'[c].done \in Nat
  BY <1>1 DEF TallyRecord
<1>7. tally[c].event = {e} => ProgressIn(tally, e) = tally[c].done
  BY <1>1, <1>6, ProgressHeld DEF TallyInv
<1>8. tally'[c].event = {e} => ProgressIn(tally', e) = tally'[c].done
  BY <1>1, <1>4, <1>6, ProgressHeld
<1>9. ASSUME tally'[c].event = {} PROVE ProgressIn(tally', e) = Len(Increments(e))
  <2>1. \A d \in AnalyticsConsumers : tally'[d].event # {e}
    BY <1>1, <1>2, <1>9
  <2>. QED  BY <1>1, <2>1, ProgressFree
<1>. QED  BY <1>3, <1>4, <1>5, <1>7, <1>8, <1>9

\* What is summed for other events stays.
LEMMA OthersSummed ==
  ASSUME TallyInv, NEW c, NEW e, Concerns(c, e), NEW k
  PROVE  \A f \in AnalyticsEvents \ {e} : /\ CountedTo(tally', k)[f] = CountedTo(tally, k)[f]
                                          /\ Gaps(tally')[f] = Gaps(tally)[f]
BY OtherTalliesKept DEF CountedTo, Gaps

\* Of the parts of the invariant, those that only a sum can break.
Adds(cs, ms, t, failed) ==
  /\ \A k \in Counters : Unbroken(k, failed)
       => cs[k] = SumFunctionOnSet(CountedTo(t, k), ms) + Lapsed(k, lapsedMarks)
  /\ failed = {} => cs[Total] = SumFunctionOnSet(StatusCounts(cs), Statuses)
                                  + SumFunctionOnSet(Gaps(t), ms)

LEMMA InvNext ==
  ASSUME TallyInv, NEW c, NEW e, Concerns(c, e), TallyTypes', IsFiniteSet(marks'),
         Adds(counts', marks', tally', broken')
  PROVE  TallyInv'
<1>1. UNCHANGED <<lapsedMarks, markLapses>>
  BY DEF Concerns
<1>. QED  BY <1>1, OtherTalliesKept DEF TallyInv, Adds

\* No increment: e does not change what is summed over the marks.
LEMMA SameSums ==
  ASSUME TallyInv, NEW c, NEW e, Concerns(c, e), counts' = counts, marks' = marks,
         \A k \in Counters : Unbroken(k, broken') /\ e \in marks
            => CountedTo(tally', k)[e] = CountedTo(tally, k)[e],
         broken' = {} /\ e \in marks => Gaps(tally')[e] = Gaps(tally)[e]
  PROVE  Adds(counts', marks', tally', broken')
<1>0. marks \subseteq AnalyticsEvents
  BY InvSummable
<1>1. ASSUME NEW k \in Counters, Unbroken(k, broken')
      PROVE  counts'[k] = SumFunctionOnSet(CountedTo(tally', k), marks') + Lapsed(k, lapsedMarks)
  <2>1. Unbroken(k, broken)
    BY <1>1 DEF Concerns, Unbroken
  <2>2. \A f \in marks : CountedTo(tally', k)[f] = CountedTo(tally, k)[f]
    BY <1>0, <1>1, OthersSummed
  <2>3. SumFunctionOnSet(CountedTo(tally', k), marks) = SumFunctionOnSet(CountedTo(tally, k), marks)
    BY <2>2, InvSummable, SumSame
  <2>. QED  BY <2>1, <2>3 DEF TallyInv
<1>2. ASSUME broken' = {}
      PROVE  counts'[Total] = SumFunctionOnSet(StatusCounts(counts'), Statuses)
                                + SumFunctionOnSet(Gaps(tally'), marks')
  <2>1. broken = {}
    BY <1>2 DEF Concerns
  <2>2. \A f \in marks : Gaps(tally')[f] = Gaps(tally)[f]
    BY <1>0, <1>2, OthersSummed
  <2>3. SumFunctionOnSet(Gaps(tally'), marks) = SumFunctionOnSet(Gaps(tally), marks)
    BY <2>2, InvSummable, SumSame
  <2>. QED  BY <2>1, <2>3 DEF TallyInv
<1>. QED  BY <1>1, <1>2 DEF Adds

\* What a consumer that is not idle, or is, says of its event.
LEMMA Handles ==
  ASSUME TallyInv, NEW c \in AnalyticsConsumers
  PROVE  /\ tally[c] \in TallyRecord
         /\ tally[c].pc = "idle" => tally[c] = NotTallying
         /\ tally[c].pc # "idle" => \E e : Holds(tally[c], e, marks, broken)
BY NotTallyingType DEF TallyInv, TallyTypes, TallyRecord, Tallying, Holds

LEMMA TakeKept ==
  ASSUME TallyInv, NEW c \in AnalyticsConsumers, NEW e \in AnalyticsEvents, ClaimEvent(c, e)
  PROVE  TallyInv'
<1>0. /\ TallyTypes /\ IsFiniteSet(marks)
      /\ UNCHANGED <<counts, broken, lapsedMarks, markLapses>>
      /\ e \notin marks /\ marks' = marks \cup {e} /\ tally[c].pc = "idle"
      /\ tally' = [tally EXCEPT ![c] = [pc |-> "increment", event |-> {e}, done |-> 0]]
  BY DEF TallyInv, ClaimEvent, TakeInHand, NextIn, lapseVars
<1>. DEFINE q == [pc |-> "increment", event |-> {e}, done |-> 0]
<1>1. Len(Increments(e)) \in Nat \ {0}
  BY <1>0, IncrementsType
<1>2. q \in TallyRecord /\ Holds(q, e, marks', broken')
  BY <1>0, <1>1 DEF TallyRecord, Holds
<1>3. /\ tally \in [AnalyticsConsumers -> TallyRecord] /\ tally[c].event = {}
      /\ tally' \in [AnalyticsConsumers -> TallyRecord] /\ tally'[c] = q
      /\ \A d \in AnalyticsConsumers \ {c} : tally'[d] = tally[d]
  BY <1>0, <1>2, Handles, NotTallyingType DEF TallyTypes, TallyRecord
<1>4. TallyTypes' /\ IsFiniteSet(marks')
  BY <1>0, <1>3, FS_AddElement DEF TallyTypes, TallyRecord
<1>5. Concerns(c, e)
  BY <1>0, <1>2, <1>3 DEF Concerns, Tallying
<1>6. ProgressIn(tally', e) = 0
  BY <1>3, <1>5, OtherTalliesKept
<1>7. marks \subseteq AnalyticsEvents /\ \A f \in marks : f # e
  BY <1>0, InvSummable
<1>8. ASSUME NEW k \in Counters
      PROVE  SumFunctionOnSet(CountedTo(tally', k), marks')
               = SumFunctionOnSet(CountedTo(tally, k), marks)
  <2>1. \A f \in marks : CountedTo(tally', k)[f] = CountedTo(tally, k)[f]
    BY <1>5, <1>7, OthersSummed
  <2>2. CountedTo(tally', k)[e] = 0
    BY <1>0, <1>6, CountedNone DEF CountedTo
  <2>3. Summable(CountedTo(tally, k), marks)
    BY InvSummable
  <2>4. Summable(CountedTo(tally', k), marks)
    BY <2>1, <2>3 DEF Summable
  <2>5. SumFunctionOnSet(CountedTo(tally', k), marks)
          = SumFunctionOnSet(CountedTo(tally, k), marks)
    BY <2>1, <2>3, SumSame
  <2>6. SumFunctionOnSet(CountedTo(tally', k), marks \cup {e})
          = SumFunctionOnSet(CountedTo(tally', k), marks) + 0
    BY <1>0, <2>2, <2>4, SumAdd
  <2>. QED  BY <1>0, <2>4, <2>5, <2>6, SumType
<1>9. SumFunctionOnSet(Gaps(tally'), marks') = SumFunctionOnSet(Gaps(tally), marks)
  <2>1. \A f \in marks : Gaps(tally')[f] = Gaps(tally)[f]
    BY <1>5, <1>7, OthersSummed
  <2>2. Gaps(tally')[e] = 0
    BY <1>0, <1>6, GapClosed DEF Gaps
  <2>3. Summable(Gaps(tally), marks)
    BY InvSummable
  <2>4. Summable(Gaps(tally'), marks)
    BY <2>1, <2>3 DEF Summable
  <2>5. SumFunctionOnSet(Gaps(tally'), marks) = SumFunctionOnSet(Gaps(tally), marks)
    BY <2>1, <2>3, SumSame
  <2>6. SumFunctionOnSet(Gaps(tally'), marks \cup {e})
          = SumFunctionOnSet(Gaps(tally'), marks) + 0
    BY <1>0, <2>2, <2>4, SumAdd
  <2>. QED  BY <1>0, <2>4, <2>5, <2>6, SumType
<1>10. Adds(counts', marks', tally', broken')
  BY <1>0, <1>8, <1>9 DEF Adds, TallyInv
<1>. QED  BY <1>4, <1>5, <1>10, InvNext

LEMMA StepsOn ==
  ASSUME NEW ev, NEW m \in Nat, NEW len, NEW q, NEW u,
         q = [pc |-> "increment", event |-> ev, done |-> m],
         u = [q EXCEPT !.done = m + 1, !.pc = IF m + 1 = len THEN "commit" ELSE @]
  PROVE  u = [pc |-> IF m + 1 = len THEN "commit" ELSE "increment", event |-> ev,
              done |-> m + 1]
<1>1. CASE m + 1 = len
  BY <1>1
<1>2. CASE m + 1 # len
  BY <1>2
<1>. QED  BY <1>1, <1>2

\* The increment moves one counter and the contribution of its event.
LEMMA IncrementKept ==
  ASSUME TallyInv, NEW c \in AnalyticsConsumers, IncrementNext(c)
  PROVE  TallyInv'
<1>1. PICK e \in tally[c].event :
        /\ tally[c].pc = "increment" /\ Increment(e, tally[c].done + 1)
        /\ tally' = [tally EXCEPT
             ![c].done = tally[c].done + 1,
             ![c].pc = IF tally[c].done + 1 = Len(Increments(e)) THEN "commit" ELSE @]
        /\ UNCHANGED <<marks, broken, lapsedMarks, markLapses>>
  BY DEF IncrementNext, lapseVars
<1>. DEFINE n == tally[c].done  step == Increments(e)[n + 1]
            q == [pc |-> IF n + 1 = Len(Increments(e)) THEN "commit" ELSE "increment",
                  event |-> {e}, done |-> n + 1]
<1>2. /\ Holds(tally[c], e, marks, broken) /\ tally[c] \in TallyRecord
      /\ TallyTypes /\ IsFiniteSet(marks)
  BY <1>1, Handles DEF Holds, TallyInv
<1>3. /\ e \in AnalyticsEvents /\ tally[c].event = {e} /\ e \in marks
      /\ n \in Nat /\ n + 1 <= Len(Increments(e)) /\ Len(Increments(e)) \in Nat
      /\ n + 1 \in 1 .. Len(Increments(e))
  <2>1. /\ e \in AnalyticsEvents /\ tally[c].event = {e} /\ e \in marks
        /\ n \in 0 .. Len(Increments(e)) /\ n < Len(Increments(e))
    BY <1>1, <1>2 DEF Holds
  <2>. QED  BY <2>1, IncrementsType
<1>4. step[1] \in Counters /\ step[2] \in Int /\ counts' = [counts EXCEPT ![step[1]] = @ + step[2]]
  BY <1>1, <1>3, IncrementIs DEF Increment
<1>5. q \in TallyRecord /\ Holds(q, e, marks', broken')
  BY <1>1, <1>3 DEF TallyRecord, Holds
<1>6. /\ tally \in [AnalyticsConsumers -> TallyRecord]
      /\ tally' \in [AnalyticsConsumers -> TallyRecord] /\ tally'[c] = q
      /\ \A d \in AnalyticsConsumers \ {c} : tally'[d] = tally[d]
  <2>1. tally \in [AnalyticsConsumers -> TallyRecord]
    BY <1>2 DEF TallyTypes, TallyRecord
  <2>2. tally[c] = [pc |-> "increment", event |-> {e}, done |-> n]
    BY <1>1, <1>2, <1>3 DEF TallyRecord
  <2>3. tally'[c] = q
    <3>1. tally'[c] = [tally[c] EXCEPT
                        !.done = tally[c].done + 1,
                        !.pc = IF tally[c].done + 1 = Len(Increments(e)) THEN "commit" ELSE @]
      BY <1>1, <2>1
    <3>. DEFINE old == tally[c]  new == tally'[c]  len == Len(Increments(e))
    <3>2. /\ n \in Nat /\ old = [pc |-> "increment", event |-> {e}, done |-> n]
          /\ new = [old EXCEPT !.done = n + 1, !.pc = IF n + 1 = len THEN "commit" ELSE @]
      BY <1>3, <2>2, <3>1
    <3>3. new = [pc |-> IF n + 1 = len THEN "commit" ELSE "increment", event |-> {e},
                 done |-> n + 1]
      <4>. HIDE DEF old, new, len, n
      <4>. QED  BY <3>2, StepsOn, Zenon
    <3>. QED  BY <3>3
  <2>4. \A d \in AnalyticsConsumers \ {c} : tally'[d] = tally[d]
    BY <1>1, <2>1
  <2>5. tally' = [d \in AnalyticsConsumers |-> tally'[d]]
    BY <1>1, <2>1
  <2>. HIDE DEF q
  <2>. QED  BY <1>5, <2>1, <2>3, <2>4, <2>5
<1>7. TallyTypes' /\ IsFiniteSet(marks')
  BY <1>1, <1>2, <1>4, <1>6 DEF TallyTypes, TallyRecord
<1>8. Concerns(c, e)
  BY <1>1, <1>3, <1>5, <1>6 DEF Concerns, Tallying
<1>9. ProgressIn(tally, e) = n /\ ProgressIn(tally', e) = n + 1
  BY <1>3, <1>6, <1>8, OtherTalliesKept
<1>10. ASSUME NEW k \in Counters, Unbroken(k, broken')
       PROVE  counts'[k] = SumFunctionOnSet(CountedTo(tally', k), marks') + Lapsed(k, lapsedMarks)
  <2>. DEFINE d == IF step[1] = k THEN step[2] ELSE 0
  <2>1. d \in Int /\ counts'[k] = counts[k] + d /\ counts[k] \in Int
    BY <1>2, <1>4 DEF TallyTypes
  <2>2. CountedTo(tally', k)[e] = CountedTo(tally, k)[e] + d
    BY <1>3, <1>9, CountedMore DEF CountedTo
  <2>3. \A f \in marks \ {e} : CountedTo(tally', k)[f] = CountedTo(tally, k)[f]
    BY <1>8, InvSummable, OthersSummed
  <2>4. /\ Summable(CountedTo(tally, k), marks) /\ Lapsed(k, lapsedMarks) \in Int
        /\ SumFunctionOnSet(CountedTo(tally, k), marks) \in Int
    BY InvSummable, SumType
  <2>. HIDE DEF d, step
  <2>5. SumFunctionOnSet(CountedTo(tally', k), marks)
          = SumFunctionOnSet(CountedTo(tally, k), marks) + d
    BY <1>3, <2>1, <2>2, <2>3, <2>4, SumChange
  <2>6. counts[k] = SumFunctionOnSet(CountedTo(tally, k), marks) + Lapsed(k, lapsedMarks)
    BY <1>1, <1>10 DEF TallyInv
  <2>. QED  BY <1>1, <2>1, <2>4, <2>5, <2>6
<1>11. ASSUME broken' = {}
       PROVE  counts'[Total] = SumFunctionOnSet(StatusCounts(counts'), Statuses)
                                 + SumFunctionOnSet(Gaps(tally'), marks')
  <2>. DEFINE d == GapStep(step)
              byStatus == IF step[1] \in ByStatus THEN step[2] ELSE 0
  <2>1. /\ Gaps(tally')[e] = Gaps(tally)[e] + d
        /\ \A f \in marks \ {e} : Gaps(tally')[f] = Gaps(tally)[f]
        /\ Summable(Gaps(tally), marks) /\ Summable(StatusCounts(counts), Statuses)
    BY <1>3, <1>8, <1>9, GapMore, InvSummable, OthersSummed DEF Gaps
  <2>2. d \in Int /\ byStatus \in Int
    BY <1>4 DEF GapStep
  <2>3. SumFunctionOnSet(Gaps(tally'), marks) = SumFunctionOnSet(Gaps(tally), marks) + d
    <3>. HIDE DEF d
    <3>. QED  BY <1>3, <2>1, <2>2, SumChange
  <2>4. SumFunctionOnSet(StatusCounts(counts'), Statuses)
          = SumFunctionOnSet(StatusCounts(counts), Statuses) + byStatus
    <3>1. \A s \in Statuses : <<"tasks.byStatus", s>> \in Counters
      BY DEF Counters
    <3>2. CASE step[1] \in ByStatus
      <4>1. PICK s \in Statuses : step[1] = <<"tasks.byStatus", s>>
        BY <3>2 DEF ByStatus
      <4>2. /\ StatusCounts(counts')[s] = StatusCounts(counts)[s] + step[2]
            /\ \A r \in Statuses \ {s} : StatusCounts(counts')[r] = StatusCounts(counts)[r]
        BY <1>2, <1>4, <3>1, <4>1 DEF StatusCounts, TallyTypes
      <4>. HIDE DEF step
      <4>3. SumFunctionOnSet(StatusCounts(counts'), Statuses)
              = SumFunctionOnSet(StatusCounts(counts), Statuses) + step[2]
        <5>. DEFINE v == StatusCounts(counts')  w == StatusCounts(counts)  m == step[2]
        <5>1. /\ m \in Int /\ Summable(w, Statuses) /\ s \in Statuses /\ v[s] = w[s] + m
              /\ \A r \in Statuses \ {s} : v[r] = w[r]
          BY <1>4, <2>1, <4>2
        <5>2. SumFunctionOnSet(v, Statuses) = SumFunctionOnSet(w, Statuses) + m
          <6>. HIDE DEF v, w, m
          <6>. QED  BY <5>1, SumChange
        <5>. QED  BY <5>2
      <4>. QED  BY <3>2, <4>3
    <3>3. CASE step[1] \notin ByStatus
      <4>0. \A r \in Statuses : step[1] # <<"tasks.byStatus", r>>
        <5>. HIDE DEF step
        <5>. QED  BY <3>3 DEF ByStatus
      <4>1. \A r \in Statuses : StatusCounts(counts')[r] = StatusCounts(counts)[r]
        <5>. HIDE DEF step
        <5>. QED  BY <1>2, <1>4, <3>1, <4>0 DEF StatusCounts, TallyTypes
      <4>2. SumFunctionOnSet(StatusCounts(counts'), Statuses)
              = SumFunctionOnSet(StatusCounts(counts), Statuses)
        BY <2>1, <4>1, SumSame
      <4>3. SumFunctionOnSet(StatusCounts(counts), Statuses) \in Int
        BY <2>1, SumType
      <4>. QED  BY <3>3, <4>2, <4>3
    <3>. QED  BY <3>2, <3>3
  <2>5. counts'[Total] = counts[Total] + (d + byStatus)
    <3>1. Total \in Counters /\ Total \notin ByStatus
      BY DEF Total, Counters, ByStatus
    <3>2. counts[Total] \in Int
      BY <1>2, <3>1 DEF TallyTypes
    <3>. QED  BY <1>2, <1>4, <3>1, <3>2 DEF TallyTypes, GapStep, Total
  <2>6. counts[Total] = SumFunctionOnSet(StatusCounts(counts), Statuses)
                          + SumFunctionOnSet(Gaps(tally), marks)
    BY <1>1, <1>11 DEF TallyInv
  <2>7. /\ SumFunctionOnSet(StatusCounts(counts), Statuses) \in Int
        /\ SumFunctionOnSet(Gaps(tally), marks) \in Int
    BY <2>1, SumType
  <2>. HIDE DEF d, byStatus, step
  <2>. QED  BY <1>1, <2>2, <2>3, <2>4, <2>5, <2>6, <2>7
<1>12. Adds(counts', marks', tally', broken')
  BY <1>10, <1>11 DEF Adds
<1>. QED  BY <1>7, <1>8, <1>12, InvNext

\* Consumer c lets go of its event.
LEMMA LetsGo ==
  ASSUME TallyInv, NEW c \in AnalyticsConsumers, NEW e, Holds(tally[c], e, marks, broken),
         tally' = [tally EXCEPT ![c] = NotTallying],
         broken' = broken \/ broken' = broken \cup {e}, marks' = marks \/ marks' = marks \ {e},
         UNCHANGED <<lapsedMarks, markLapses>>
  PROVE  /\ Concerns(c, e) /\ tally' \in [AnalyticsConsumers -> TallyRecord]
         /\ ProgressIn(tally, e) = tally[c].done
         /\ ProgressIn(tally', e) = Len(Increments(e))
<1>1. /\ tally \in [AnalyticsConsumers -> TallyRecord]
      /\ e \in AnalyticsEvents /\ tally[c].event = {e} /\ e \in marks
  BY DEF TallyInv, TallyTypes, TallyRecord, Holds
<1>2. /\ tally' \in [AnalyticsConsumers -> TallyRecord] /\ tally'[c] = NotTallying
      /\ \A d \in AnalyticsConsumers \ {c} : tally'[d] = tally[d]
  BY <1>1, NotTallyingType
<1>3. Concerns(c, e)
  BY <1>1, <1>2, NotTallyingType DEF Concerns, Tallying
<1>. QED  BY <1>1, <1>2, <1>3, OtherTalliesKept, NotTallyingType

LEMMA CommitKept ==
  ASSUME TallyInv, NEW c \in AnalyticsConsumers, CommitOffset(c)
  PROVE  TallyInv'
<1>1. /\ tally[c].pc = "commit" /\ tally' = [tally EXCEPT ![c] = NotTallying]
      /\ UNCHANGED <<counts, marks, broken, lapsedMarks, markLapses>>
  BY DEF CommitOffset, lapseVars
<1>2. PICK e : Holds(tally[c], e, marks, broken)
  BY <1>1, Handles
<1>3. /\ Concerns(c, e) /\ tally' \in [AnalyticsConsumers -> TallyRecord]
      /\ ProgressIn(tally, e) = tally[c].done /\ ProgressIn(tally', e) = Len(Increments(e))
  BY <1>1, <1>2, LetsGo
<1>4. ProgressIn(tally', e) = ProgressIn(tally, e) /\ tally[c].event = {e} /\ e \in AnalyticsEvents
  BY <1>1, <1>2, <1>3 DEF Holds
<1>5. TallyTypes' /\ IsFiniteSet(marks')
  BY <1>1, <1>3, <1>4 DEF TallyInv, TallyTypes, TallyRecord
<1>6. Adds(counts', marks', tally', broken')
  <2>1. /\ \A k : CountedTo(tally', k)[e] = CountedTo(tally, k)[e]
        /\ Gaps(tally')[e] = Gaps(tally)[e]
    BY <1>4 DEF CountedTo, Gaps
  <2>. QED  BY <1>1, <1>3, <2>1, SameSums
<1>. QED  BY <1>3, <1>5, <1>6, InvNext

\* The handling breaks off, with the mark in place and the event among the broken.
LEMMA StopKept ==
  ASSUME TallyInv, NEW c \in AnalyticsConsumers, TallyStops(c)
  PROVE  TallyInv'
<1>1. /\ tally[c].pc # "idle"
      /\ broken' = IF tally[c].pc = "commit" THEN broken ELSE broken \cup tally[c].event
      /\ tally' = [tally EXCEPT ![c] = NotTallying]
      /\ UNCHANGED <<counts, marks, lapsedMarks, markLapses>>
  BY DEF TallyStops, lapseVars
<1>2. PICK e : Holds(tally[c], e, marks, broken)
  BY <1>1, Handles
<1>3. tally[c].event = {e} /\ e \in AnalyticsEvents /\ Len(Increments(e)) \in Nat
  BY <1>2, IncrementsType DEF Holds
<1>4. /\ Concerns(c, e) /\ tally' \in [AnalyticsConsumers -> TallyRecord]
      /\ ProgressIn(tally, e) = tally[c].done /\ ProgressIn(tally', e) = Len(Increments(e))
  BY <1>1, <1>2, <1>3, LetsGo
<1>5. TallyTypes' /\ IsFiniteSet(marks')
  BY <1>1, <1>3, <1>4 DEF TallyInv, TallyTypes, TallyRecord
<1>6. CASE tally[c].pc = "commit"
  <2>1. ProgressIn(tally', e) = ProgressIn(tally, e)
    BY <1>2, <1>4, <1>6 DEF Holds
  <2>2. /\ \A k : CountedTo(tally', k)[e] = CountedTo(tally, k)[e]
        /\ Gaps(tally')[e] = Gaps(tally)[e]
    BY <1>3, <2>1 DEF CountedTo, Gaps
  <2>3. Adds(counts', marks', tally', broken')
    BY <1>1, <1>4, <2>2, SameSums
  <2>. QED  BY <1>4, <1>5, <2>3, InvNext
<1>7. CASE tally[c].pc # "commit"
  <2>1. e \in broken'
    BY <1>1, <1>3, <1>7
  <2>2. ASSUME NEW k \in Counters, Unbroken(k, broken')
        PROVE  CountedTo(tally', k)[e] = CountedTo(tally, k)[e]
    <3>1. ~Touches(e, k)
      BY <2>1, <2>2 DEF Unbroken
    <3>2. ProgressIn(tally, e) \in 0 .. Len(Increments(e))
      BY <1>3, InvSummable
    <3>3. Len(Increments(e)) \in 0 .. Len(Increments(e))
      BY <1>3
    <3>. QED  BY <1>3, <1>4, <3>1, <3>2, <3>3, CountedUntouched DEF CountedTo
  <2>3. Adds(counts', marks', tally', broken')
    BY <1>1, <1>4, <2>1, <2>2, SameSums
  <2>. QED  BY <1>4, <1>5, <2>3, InvNext
<1>. QED  BY <1>6, <1>7

\* The mark goes, and with it an event that has contributed nothing or is broken.
LEMMA UnmarkKept ==
  ASSUME TallyInv, NEW c \in AnalyticsConsumers, DeleteMark(c)
  PROVE  TallyInv'
<1>1. /\ tally[c].pc = "unmark" /\ marks' = marks \ tally[c].event
      /\ tally' = [tally EXCEPT ![c] = NotTallying]
      /\ UNCHANGED <<counts, broken, lapsedMarks, markLapses>>
  BY DEF DeleteMark, lapseVars
<1>2. PICK e : Holds(tally[c], e, marks, broken)
  BY <1>1, Handles
<1>3. /\ tally[c].event = {e} /\ e \in AnalyticsEvents /\ e \in marks /\ marks' = marks \ {e}
      /\ tally[c].done = 0 \/ e \in broken
  BY <1>1, <1>2 DEF Holds
<1>4. /\ Concerns(c, e) /\ tally' \in [AnalyticsConsumers -> TallyRecord]
      /\ ProgressIn(tally, e) = tally[c].done
  BY <1>1, <1>2, <1>3, LetsGo
<1>5. TallyTypes' /\ IsFiniteSet(marks')
  BY <1>1, <1>3, <1>4, FS_RemoveElement DEF TallyInv, TallyTypes, TallyRecord
<1>6. ASSUME NEW w, NEW v, Summable(w, marks), w[e] = 0, \A f \in marks \ {e} : v[f] = w[f]
      PROVE  SumFunctionOnSet(v, marks') = SumFunctionOnSet(w, marks)
  <2>1. Summable(w, marks \ {e}) /\ SumFunctionOnSet(w, marks \ {e}) \in Int
    BY <1>6, SubsetSummable, SumType
  <2>2. SumFunctionOnSet(v, marks \ {e}) = SumFunctionOnSet(w, marks \ {e})
    BY <1>6, <2>1, SumSame
  <2>3. SumFunctionOnSet(w, marks) = w[e] + SumFunctionOnSet(w, marks \ {e})
    BY <1>3, <1>6, SumRemove
  <2>. QED  BY <1>3, <1>6, <2>1, <2>2, <2>3
<1>7. marks \subseteq AnalyticsEvents
  BY InvSummable
<1>8. ASSUME NEW k \in Counters, Unbroken(k, broken')
      PROVE  counts'[k] = SumFunctionOnSet(CountedTo(tally', k), marks') + Lapsed(k, lapsedMarks)
  <2>1. CountedTo(tally, k)[e] = 0
    <3>1. CASE tally[c].done = 0
      BY <1>3, <1>4, <3>1, CountedNone DEF CountedTo
    <3>2. CASE e \in broken
      <4>1. ~Touches(e, k) /\ ProgressIn(tally, e) \in 0 .. Len(Increments(e))
        BY <1>1, <1>3, <1>8, <3>2, InvSummable DEF Unbroken
      <4>. QED  BY <1>3, <4>1, CountedUntouched DEF CountedTo
    <3>. QED  BY <1>3, <3>1, <3>2
  <2>2. \A f \in marks \ {e} : CountedTo(tally', k)[f] = CountedTo(tally, k)[f]
    BY <1>4, <1>7, OthersSummed
  <2>3. SumFunctionOnSet(CountedTo(tally', k), marks') = SumFunctionOnSet(CountedTo(tally, k), marks)
    BY <1>6, <2>1, <2>2, InvSummable
  <2>. QED  BY <1>1, <1>8, <2>3 DEF TallyInv
<1>9. ASSUME broken' = {}
      PROVE  counts'[Total] = SumFunctionOnSet(StatusCounts(counts'), Statuses)
                                + SumFunctionOnSet(Gaps(tally'), marks')
  <2>1. Gaps(tally)[e] = 0
    BY <1>1, <1>3, <1>4, <1>9, GapClosed DEF Gaps
  <2>2. \A f \in marks \ {e} : Gaps(tally')[f] = Gaps(tally)[f]
    BY <1>4, <1>7, OthersSummed
  <2>3. SumFunctionOnSet(Gaps(tally'), marks') = SumFunctionOnSet(Gaps(tally), marks)
    BY <1>6, <2>1, <2>2, InvSummable
  <2>. QED  BY <1>1, <1>9, <2>3 DEF TallyInv
<1>10. Adds(counts', marks', tally', broken')
  BY <1>8, <1>9 DEF Adds
<1>. QED  BY <1>4, <1>5, <1>10, InvNext

\* A call fails: what it applied all the same is of a counter its event touches.
LEMMA FailKept ==
  ASSUME TallyInv, NEW c \in AnalyticsConsumers,
         NEW applied \in BOOLEAN, IncrementFails(c, applied)
  PROVE  TallyInv'
<1>1. PICK e \in tally[c].event :
        /\ tally[c].pc = "increment"
        /\ IF applied THEN Increment(e, tally[c].done + 1) ELSE UNCHANGED counts
        /\ broken' = IF applied \/ tally[c].done > 0 THEN broken \cup {e} ELSE broken
        /\ tally' = [tally EXCEPT ![c].pc = "unmark"]
        /\ UNCHANGED <<marks, lapsedMarks, markLapses>>
  BY DEF IncrementFails, lapseVars
<1>. DEFINE n == tally[c].done  step == Increments(e)[n + 1]
<1>2. /\ Holds(tally[c], e, marks, broken) /\ tally[c] \in TallyRecord
      /\ TallyTypes /\ IsFiniteSet(marks)
  BY <1>1, Handles DEF Holds, TallyInv
<1>3. /\ e \in AnalyticsEvents /\ tally[c].event = {e} /\ e \in marks
      /\ n \in 0 .. Len(Increments(e)) /\ n \in Nat /\ n + 1 \in 1 .. Len(Increments(e))
  <2>1. /\ e \in AnalyticsEvents /\ tally[c].event = {e} /\ e \in marks
        /\ n \in 0 .. Len(Increments(e)) /\ n < Len(Increments(e))
    BY <1>1, <1>2 DEF Holds
  <2>. QED  BY <2>1, IncrementsType
<1>4. /\ step[1] \in Counters /\ step[2] \in Int /\ Touches(e, step[1])
  <2>1. DOMAIN Increments(e) = 1 .. Len(Increments(e))
    BY <1>3, IncrementsType, LenProperties
  <2>. QED  BY <1>3, <2>1, IncrementIs DEF Touches
<1>5. /\ tally \in [AnalyticsConsumers -> TallyRecord]
      /\ tally' \in [AnalyticsConsumers -> TallyRecord]
      /\ \A d \in AnalyticsConsumers \ {c} : tally'[d] = tally[d]
      /\ tally'[c].pc = "unmark" /\ tally'[c].event = {e} /\ tally'[c].done = n
  <2>1. tally \in [AnalyticsConsumers -> TallyRecord]
    BY <1>2 DEF TallyTypes, TallyRecord
  <2>2. [tally[c] EXCEPT !.pc = "unmark"] \in TallyRecord
    BY <1>2 DEF TallyRecord
  <2>. QED  BY <1>1, <1>2, <1>3, <2>1, <2>2 DEF TallyRecord
<1>6. Holds(tally'[c], e, marks', broken')
  <2>1. n = 0 \/ e \in broken'
    BY <1>1, <1>3
  <2>. QED  BY <1>1, <1>3, <1>5, <2>1 DEF Holds
<1>7. Concerns(c, e)
  BY <1>1, <1>3, <1>5, <1>6 DEF Concerns, Tallying
<1>8. counts' \in [Counters -> Int]
  BY <1>1, <1>2, <1>4 DEF Increment, TallyTypes
<1>9. TallyTypes' /\ IsFiniteSet(marks')
  <2>1. broken' \in SUBSET AnalyticsEvents
    BY <1>1, <1>2, <1>3 DEF TallyTypes
  <2>2. marks' = marks /\ lapsedMarks' = lapsedMarks /\ markLapses' = markLapses
    BY <1>1
  <2>. QED  BY <1>2, <1>5, <1>8, <2>1, <2>2 DEF TallyTypes, TallyRecord
<1>10. \A f \in AnalyticsEvents : ProgressIn(tally', f) = ProgressIn(tally, f)
  <2>1. ProgressIn(tally', e) = ProgressIn(tally, e)
    BY <1>3, <1>5, <1>7, OtherTalliesKept
  <2>. QED  BY <1>7, <2>1, OtherTalliesKept
<1>11. /\ \A k : CountedTo(tally', k) = CountedTo(tally, k)
       /\ Gaps(tally') = Gaps(tally)
  BY <1>10 DEF CountedTo, Gaps
<1>12. ASSUME NEW k \in Counters, Unbroken(k, broken')
       PROVE  counts'[k] = SumFunctionOnSet(CountedTo(tally', k), marks') + Lapsed(k, lapsedMarks)
  <2>1. Unbroken(k, broken)
    BY <1>1, <1>12 DEF Unbroken
  <2>2. counts'[k] = counts[k]
    <3>1. CASE applied
      <4>1. e \in broken' /\ counts' = [counts EXCEPT ![step[1]] = @ + step[2]]
        BY <1>1, <3>1 DEF Increment
      <4>2. step[1] # k
        BY <1>4, <1>12, <4>1 DEF Unbroken
      <4>. HIDE DEF step
      <4>. QED  BY <1>2, <1>4, <4>1, <4>2 DEF TallyTypes
    <3>2. CASE ~applied
      BY <1>1, <3>2
    <3>. QED  BY <3>1, <3>2
  <2>. QED  BY <1>1, <1>11, <2>1, <2>2 DEF TallyInv
<1>13. ASSUME broken' = {}
       PROVE  counts'[Total] = SumFunctionOnSet(StatusCounts(counts'), Statuses)
                                 + SumFunctionOnSet(Gaps(tally'), marks')
  <2>1. broken = {} /\ counts' = counts
    BY <1>1, <1>13
  <2>. QED  BY <1>1, <1>11, <2>1 DEF TallyInv
<1>14. Adds(counts', marks', tally', broken')
  BY <1>12, <1>13 DEF Adds
<1>. QED  BY <1>7, <1>9, <1>14, InvNext

\* A mark that nobody works under any more stands for all of its event, and so
\* does what is remembered of it.
LEMMA ExpiryKept ==
  ASSUME TallyInv, NEW e \in AnalyticsEvents, MarkExpires(e)
  PROVE  TallyInv'
<1>. DEFINE p == <<e, markLapses>>
<1>1. /\ e \in marks /\ \A c \in AnalyticsConsumers : tally[c].event # {e}
      /\ marks' = marks \ {e} /\ lapsedMarks' = lapsedMarks \cup {p}
      /\ markLapses' = markLapses + 1 /\ UNCHANGED <<counts, tally, broken>>
  BY DEF MarkExpires, tallyVars
<1>2. /\ TallyTypes /\ IsFiniteSet(marks) /\ IsFiniteSet(lapsedMarks)
      /\ p \in AnalyticsEvents \X Nat /\ p \notin lapsedMarks
      /\ \A q \in lapsedMarks' : q[2] < markLapses'
  <2>1. /\ TallyTypes /\ IsFiniteSet(marks) /\ IsFiniteSet(lapsedMarks)
        /\ markLapses \in Nat /\ \A q \in lapsedMarks : q[2] < markLapses /\ q[2] \in Nat
    BY DEF TallyInv, TallyTypes
  <2>. QED  BY <1>1, <2>1
<1>3. TallyTypes' /\ IsFiniteSet(marks') /\ IsFiniteSet(lapsedMarks')
  BY <1>1, <1>2, FS_RemoveElement, FS_AddElement DEF TallyTypes
<1>4. (\A c \in AnalyticsConsumers : Tallying(tally'[c], marks', broken')) /\ HeldOnce(tally')
  <2>1. ASSUME NEW c \in AnalyticsConsumers PROVE Tallying(tally[c], marks', broken)
    <3>1. Tallying(tally[c], marks, broken) /\ tally[c].event # {e}
      BY <1>1 DEF TallyInv
    <3>. QED  BY <1>1, <3>1 DEF Tallying, Holds
  <2>. QED  BY <1>1, <2>1 DEF TallyInv
<1>5. ProgressIn(tally, e) = Len(Increments(e))
  BY <1>1, ProgressFree
<1>6. ASSUME NEW k \in Counters, Unbroken(k, broken')
      PROVE  counts'[k] = SumFunctionOnSet(CountedTo(tally', k), marks') + Lapsed(k, lapsedMarks')
  <2>. DEFINE w == CountedTo(tally, k)  v == LapsedTo(k)
  <2>1. Summable(w, marks) /\ Summable(v, lapsedMarks)
    BY InvSummable
  <2>2. w[e] = v[p] /\ v[p] \in Int
    <3>1. w[e] = CountedAt(e, Len(Increments(e)), k)
      BY <1>5 DEF CountedTo
    <3>2. v[p] = CountedAt(e, Len(Increments(e)), k)
      BY <1>2 DEF LapsedTo
    <3>. QED  BY <3>1, <3>2, CountedInt
  <2>. HIDE DEF w, v, p
  <2>3. SumFunctionOnSet(w, marks) = w[e] + SumFunctionOnSet(w, marks \ {e})
    BY <1>1, <2>1, SumRemove
  <2>4. SumFunctionOnSet(v, lapsedMarks \cup {p}) = SumFunctionOnSet(v, lapsedMarks) + v[p]
    BY <1>2, <2>1, <2>2, SumAdd
  <2>5. /\ SumFunctionOnSet(w, marks \ {e}) \in Int /\ SumFunctionOnSet(v, lapsedMarks) \in Int
    BY <2>1, SubsetSummable, SumType
  <2>6. counts[k] = SumFunctionOnSet(w, marks) + SumFunctionOnSet(v, lapsedMarks)
    BY <1>1, <1>6 DEF TallyInv, Lapsed, w, v
  <2>7. counts[k] = SumFunctionOnSet(w, marks \ {e}) + SumFunctionOnSet(v, lapsedMarks \cup {p})
    BY <2>2, <2>3, <2>4, <2>5, <2>6
  <2>. QED  BY <1>1, <2>7 DEF Lapsed, w, v
<1>7. ASSUME broken' = {}
      PROVE  counts'[Total] = SumFunctionOnSet(StatusCounts(counts'), Statuses)
                                + SumFunctionOnSet(Gaps(tally'), marks')
  <2>1. Gaps(tally)[e] = 0
    BY <1>5, GapClosed DEF Gaps
  <2>2. Summable(Gaps(tally), marks)
    BY InvSummable
  <2>3. SumFunctionOnSet(Gaps(tally), marks)
          = Gaps(tally)[e] + SumFunctionOnSet(Gaps(tally), marks \ {e})
    BY <1>1, <2>2, SumRemove
  <2>4. SumFunctionOnSet(Gaps(tally), marks \ {e}) \in Int
    BY <2>2, SubsetSummable, SumType
  <2>5. SumFunctionOnSet(Gaps(tally), marks) = SumFunctionOnSet(Gaps(tally), marks \ {e})
    BY <2>1, <2>3, <2>4
  <2>. QED  BY <1>1, <1>7, <2>5 DEF TallyInv
<1>. QED  BY <1>2, <1>3, <1>4, <1>6, <1>7 DEF TallyInv

\* The other steps decide about an event and leave the counters alone.
LEMMA TallyUntouched ==
  ASSUME TallyInv, UNCHANGED <<counts, marks, tally, broken, lapsedMarks, markLapses>>
  PROVE  TallyInv'
BY DEF TallyInv, TallyTypes, HeldOnce

LEMMA TallyKept ==
  ASSUME TallyInv, happenings \subseteq AnalyticsEvents, AnalyticsNext
  PROVE  TallyInv'
<1>1. ASSUME NEW c \in AnalyticsConsumers, NEW e \in happenings, ClaimEvent(c, e) PROVE TallyInv'
  BY <1>1, TakeKept
<1>2. ASSUME NEW c \in AnalyticsConsumers, NEW e \in happenings,
             SkipDuplicate(c, e) \/ ClaimFails(c, e)
      PROVE  TallyInv'
  BY <1>2, TallyUntouched DEF SkipDuplicate, ClaimFails, lapseVars
<1>3. ASSUME NEW c \in AnalyticsConsumers,
             RetryStops(c) \/ \E sent \in BOOLEAN : ParkEvent(c, sent)
      PROVE  TallyInv'
  BY <1>3, TallyUntouched DEF RetryStops, ParkEvent, lapseVars
<1>4. ASSUME NEW e \in happenings, MarkExpires(e) PROVE TallyInv'
  BY <1>4, ExpiryKept
<1>5. ASSUME NEW e \in happenings, ReplayEvent(e) PROVE TallyInv'
  BY <1>5, TallyUntouched DEF ReplayEvent, lapseVars, tallyVars
<1>. QED  BY <1>1, <1>2, <1>3, <1>4, <1>5, IncrementKept, CommitKept, FailKept, UnmarkKept,
             StopKept, Zenon DEF AnalyticsNext

-----------------------------------------------------------------------------
\* No event is passed uncounted without one of the reasons, whatever becomes of
\* its mark; what the other variables hold.
OutcomeTypes ==
  /\ happenings \in AnalyticsFeeds
  /\ retrying \in [AnalyticsConsumers -> SUBSET AnalyticsEvents]
  /\ settled \in SUBSET AnalyticsEvents
  /\ parked \in SUBSET settled /\ dropped \in SUBSET settled
  /\ analyticsFaults \in Nat

PassedRightly(e) ==
  \/ e \in marks \cup parked \cup dropped \/ \E p \in lapsedMarks : p[1] = e
  \/ \E c \in AnalyticsConsumers : retrying[c] = {e}

\* An event that failed is not in hand.
Outcomes ==
  /\ OutcomeTypes
  /\ \A c \in AnalyticsConsumers : tally[c].pc # "idle" => retrying[c] = {}
  /\ \A c \in AnalyticsConsumers : retrying[c] = {} \/ \E e : retrying[c] = {e}
  /\ \A e \in settled : PassedRightly(e)
  /\ dropped # {} => analyticsFaults > 0

AnalyticsInv == TallyInv /\ Outcomes

LEMMA OutcomesInitially == AnalyticsInit => Outcomes
BY DEF AnalyticsInit, Outcomes, OutcomeTypes, NotTallying

RetriesChange(c, events) ==
  /\ c \in AnalyticsConsumers
  /\ retrying \in [AnalyticsConsumers -> SUBSET AnalyticsEvents]
  /\ retrying' = [retrying EXCEPT ![c] = events]

LEMMA RetriesAre ==
  ASSUME NEW c, NEW events \in SUBSET AnalyticsEvents, RetriesChange(c, events)
  PROVE  /\ retrying' \in [AnalyticsConsumers -> SUBSET AnalyticsEvents]
         /\ retrying'[c] = events
         /\ \A d \in AnalyticsConsumers \ {c} : retrying'[d] = retrying[d]
BY DEF RetriesChange

\* A step that changes what one consumer will attempt again, and decides about no
\* event but e.
LEMMA OutcomesOn ==
  ASSUME Outcomes, NEW c, NEW e, NEW events \in SUBSET AnalyticsEvents, RetriesChange(c, events),
         happenings' = happenings, analyticsFaults' \in Nat, analyticsFaults' >= analyticsFaults,
         settled' \subseteq AnalyticsEvents, settled' \subseteq settled \cup {e},
         parked' \subseteq settled', dropped' \subseteq settled',
         dropped' # {} => dropped # {} \/ analyticsFaults' > 0,
         events = {} \/ events = {e}, retrying[c] \in {{}, {e}},
         tally'[c].pc # "idle" => events = {},
         \A d \in AnalyticsConsumers \ {c} : tally'[d].pc # "idle" => tally[d].pc # "idle",
         marks \ {e} \subseteq marks', lapsedMarks \subseteq lapsedMarks',
         parked \subseteq parked', dropped \subseteq dropped',
         e \in settled' => PassedRightly(e)'
  PROVE  Outcomes'
<1>1. /\ c \in AnalyticsConsumers /\ retrying' \in [AnalyticsConsumers -> SUBSET AnalyticsEvents]
      /\ retrying'[c] = events /\ \A d \in AnalyticsConsumers \ {c} : retrying'[d] = retrying[d]
  BY RetriesAre DEF RetriesChange
<1>2. OutcomeTypes'
  BY <1>1 DEF Outcomes, OutcomeTypes
<1>3. ASSUME NEW d \in AnalyticsConsumers
      PROVE  /\ tally'[d].pc # "idle" => retrying'[d] = {}
             /\ retrying'[d] = {} \/ \E f : retrying'[d] = {f}
  BY <1>1 DEF Outcomes
<1>4. ASSUME NEW f \in settled', f # e PROVE PassedRightly(f)'
  <2>1. f \in settled /\ PassedRightly(f)
    BY <1>4 DEF Outcomes
  <2>2. CASE f \in marks \cup parked \cup dropped \/ \E p \in lapsedMarks : p[1] = f
    BY <1>4, <2>2 DEF PassedRightly
  <2>3. ASSUME NEW d \in AnalyticsConsumers, retrying[d] = {f} PROVE retrying'[d] = {f}
    BY <1>1, <1>4, <2>3
  <2>. QED  BY <2>1, <2>2, <2>3 DEF PassedRightly
<1>5. dropped' # {} => analyticsFaults' > 0
  BY DEF Outcomes, OutcomeTypes
<1>. QED  BY <1>2, <1>3, <1>4, <1>5 DEF Outcomes

\* A step that changes none of this.
LEMMA OutcomesSame ==
  ASSUME Outcomes, UNCHANGED <<happenings, retrying, settled, parked, dropped>>,
         marks' = marks, lapsedMarks' = lapsedMarks,
         analyticsFaults' \in Nat, analyticsFaults' >= analyticsFaults,
         \A d \in AnalyticsConsumers : tally'[d].pc # "idle" => tally[d].pc # "idle"
  PROVE  Outcomes'
<1>1. OutcomeTypes'
  BY DEF Outcomes, OutcomeTypes
<1>2. \A e \in settled' : PassedRightly(e)'
  BY DEF Outcomes, PassedRightly
<1>3. dropped' # {} => analyticsFaults' > 0
  BY DEF Outcomes, OutcomeTypes
<1>. QED  BY <1>1, <1>2, <1>3 DEF Outcomes

LEMMA OutcomesKept ==
  ASSUME TallyInv, Outcomes, AnalyticsNext
  PROVE  Outcomes'
<1>0. /\ happenings' = happenings /\ happenings \subseteq AnalyticsEvents
      /\ tally \in [AnalyticsConsumers -> TallyRecord]
      /\ retrying \in [AnalyticsConsumers -> SUBSET AnalyticsEvents]
      /\ settled \subseteq AnalyticsEvents /\ parked \subseteq settled /\ dropped \subseteq settled
      /\ analyticsFaults \in Nat
  BY DEF AnalyticsNext, Outcomes, OutcomeTypes, TallyInv, TallyTypes, AnalyticsEvents
<1>1. ASSUME NEW c \in AnalyticsConsumers, NEW e \in happenings, ClaimEvent(c, e) PROVE Outcomes'
  <2>1. /\ RetriesChange(c, {}) /\ retrying[c] \in {{}, {e}} /\ marks' = marks \cup {e}
        /\ UNCHANGED <<settled, parked, dropped, lapsedMarks, analyticsFaults>>
        /\ \A d \in AnalyticsConsumers \ {c} : tally'[d] = tally[d]
    BY <1>0, <1>1 DEF ClaimEvent, TakeInHand, NextIn, Retry, RetriesChange, outcomeVars, lapseVars
  <2>2. PassedRightly(e)'
    BY <2>1 DEF PassedRightly
  <2>. QED  BY <1>0, <2>1, <2>2, OutcomesOn
<1>2. ASSUME NEW c \in AnalyticsConsumers, NEW e \in happenings, SkipDuplicate(c, e)
      PROVE  Outcomes'
  <2>1. /\ RetriesChange(c, {}) /\ retrying[c] \in {{}, {e}} /\ e \in marks
        /\ settled' = settled \cup {e}
        /\ UNCHANGED <<marks, tally, parked, dropped, lapsedMarks, analyticsFaults>>
    BY <1>0, <1>2 DEF SkipDuplicate, NextIn, Retry, RetriesChange, lapseVars
  <2>2. PassedRightly(e)'
    BY <2>1 DEF PassedRightly
  <2>. QED  BY <1>0, <2>1, <2>2, OutcomesOn
<1>3. ASSUME NEW c \in AnalyticsConsumers, NEW e \in happenings, ClaimFails(c, e)
      PROVE  Outcomes'
  <2>1. /\ RetriesChange(c, {e}) /\ retrying[c] \in {{}, {e}} /\ tally[c].pc = "idle"
        /\ UNCHANGED <<marks, tally, settled, parked, dropped, lapsedMarks>>
        /\ analyticsFaults' = analyticsFaults + 1
    BY <1>0, <1>3 DEF ClaimFails, NextIn, Fault, Retry, RetriesChange, outcomeVars, lapseVars
  <2>2. retrying'[c] = {e} /\ {e} \in SUBSET AnalyticsEvents
    BY <1>0, <2>1 DEF RetriesChange
  <2>3. PassedRightly(e)'
    BY <2>2 DEF PassedRightly
  <2>. QED  BY <1>0, <2>1, <2>2, <2>3, OutcomesOn
<1>4. ASSUME NEW c \in AnalyticsConsumers, IncrementNext(c) PROVE Outcomes'
  <2>1. /\ UNCHANGED <<retrying, settled, parked, dropped, marks, lapsedMarks, analyticsFaults>>
        /\ tally[c].pc = "increment" /\ \A d \in AnalyticsConsumers \ {c} : tally'[d] = tally[d]
    BY <1>0, <1>4 DEF IncrementNext, outcomeVars, lapseVars
  <2>. QED  BY <1>0, <2>1, OutcomesSame
<1>5. ASSUME NEW c \in AnalyticsConsumers, CommitOffset(c) PROVE Outcomes'
  <2>1. PICK e : Holds(tally[c], e, marks, broken)
    BY <1>5, Handles DEF CommitOffset
  <2>2. /\ UNCHANGED <<retrying, parked, dropped, marks, lapsedMarks, analyticsFaults>>
        /\ tally[c].pc # "idle" /\ tally' = [tally EXCEPT ![c] = NotTallying]
        /\ settled' = settled \cup {e} /\ e \in marks /\ e \in AnalyticsEvents
    BY <1>5, <2>1 DEF CommitOffset, Holds, lapseVars
  <2>3. retrying[c] = {} /\ RetriesChange(c, {}) /\ PassedRightly(e)'
    BY <1>0, <2>2 DEF Outcomes, RetriesChange, PassedRightly
  <2>4. tally'[c].pc = "idle" /\ \A d \in AnalyticsConsumers \ {c} : tally'[d] = tally[d]
    BY <1>0, <2>2 DEF NotTallying
  <2>. QED  BY <1>0, <2>2, <2>3, <2>4, OutcomesOn
<1>6. ASSUME NEW c \in AnalyticsConsumers, NEW applied \in BOOLEAN, IncrementFails(c, applied)
      PROVE  Outcomes'
  <2>1. /\ UNCHANGED <<retrying, settled, parked, dropped, marks, lapsedMarks>>
        /\ tally[c].pc = "increment" /\ \A d \in AnalyticsConsumers \ {c} : tally'[d] = tally[d]
        /\ analyticsFaults' = analyticsFaults + 1
    BY <1>0, <1>6 DEF IncrementFails, Fault, outcomeVars, lapseVars
  <2>. QED  BY <1>0, <2>1, OutcomesSame
<1>7. ASSUME NEW c \in AnalyticsConsumers, DeleteMark(c) PROVE Outcomes'
  <2>1. PICK e : Holds(tally[c], e, marks, broken)
    BY <1>7, Handles DEF DeleteMark
  <2>2. /\ UNCHANGED <<settled, parked, dropped, lapsedMarks, analyticsFaults>>
        /\ tally[c].pc # "idle" /\ tally' = [tally EXCEPT ![c] = NotTallying]
        /\ marks' = marks \ {e} /\ RetriesChange(c, {e}) /\ e \in AnalyticsEvents
    BY <1>0, <1>7, <2>1 DEF DeleteMark, Retry, RetriesChange, Holds, outcomeVars, lapseVars
  <2>3. retrying[c] = {} /\ retrying'[c] = {e} /\ PassedRightly(e)'
    BY <1>0, <2>2 DEF Outcomes, RetriesChange, PassedRightly
  <2>4. tally'[c].pc = "idle" /\ \A d \in AnalyticsConsumers \ {c} : tally'[d] = tally[d]
    BY <1>0, <2>2 DEF NotTallying
  <2>. QED  BY <1>0, <2>2, <2>3, <2>4, OutcomesOn
<1>8. ASSUME NEW c \in AnalyticsConsumers, TallyStops(c) PROVE Outcomes'
  <2>1. /\ UNCHANGED <<retrying, settled, parked, dropped, marks, lapsedMarks>>
        /\ tally[c].pc # "idle" /\ \A d \in AnalyticsConsumers \ {c} : tally'[d] = tally[d]
        /\ analyticsFaults' = analyticsFaults + 1
    BY <1>0, <1>8 DEF TallyStops, Fault, outcomeVars, lapseVars
  <2>. QED  BY <1>0, <2>1, OutcomesSame
<1>9. ASSUME NEW c \in AnalyticsConsumers, RetryStops(c) PROVE Outcomes'
  <2>1. PICK e : retrying[c] = {e}
    BY <1>9 DEF RetryStops, Outcomes
  <2>2. /\ RetriesChange(c, {}) /\ dropped' = dropped \cup ({e} \cap settled)
        /\ UNCHANGED <<settled, marks, tally, parked, lapsedMarks>>
        /\ analyticsFaults' = analyticsFaults + 1
    BY <1>0, <1>9, <2>1 DEF RetryStops, Fault, Retry, RetriesChange, lapseVars
  <2>3. e \in settled' => PassedRightly(e)'
    BY <2>2 DEF PassedRightly
  <2>4. /\ dropped \subseteq dropped' /\ dropped' \subseteq settled'
        /\ analyticsFaults' \in Nat /\ analyticsFaults' > 0 /\ analyticsFaults' >= analyticsFaults
    BY <1>0, <2>2
  <2>. QED  BY <1>0, <2>1, <2>2, <2>3, <2>4, OutcomesOn
<1>10. ASSUME NEW c \in AnalyticsConsumers, NEW sent \in BOOLEAN, ParkEvent(c, sent)
       PROVE  Outcomes'
  <2>1. PICK e : retrying[c] = {e}
    BY <1>10 DEF ParkEvent, Outcomes
  <2>2. /\ RetriesChange(c, {}) /\ settled' = settled \cup {e} /\ e \in AnalyticsEvents
        /\ UNCHANGED <<marks, tally, lapsedMarks>>
    BY <1>0, <1>10, <2>1 DEF ParkEvent, Retry, RetriesChange, lapseVars
  <2>3. \/ parked' = parked \cup {e} /\ UNCHANGED <<dropped, analyticsFaults>>
        \/ dropped' = dropped \cup {e} /\ parked' = parked /\ analyticsFaults' = analyticsFaults + 1
    BY <1>10, <2>1 DEF ParkEvent, Fault
  <2>4. PassedRightly(e)'
    BY <2>3 DEF PassedRightly
  <2>. QED  BY <1>0, <2>1, <2>2, <2>3, <2>4, OutcomesOn
<1>11. ASSUME NEW e \in happenings, MarkExpires(e) PROVE Outcomes'
  <2>1. /\ UNCHANGED <<tally, retrying, settled, parked, dropped, analyticsFaults>>
        /\ marks' = marks \ {e} /\ <<e, markLapses>> \in lapsedMarks'
        /\ lapsedMarks \subseteq lapsedMarks'
    BY <1>11 DEF MarkExpires, tallyVars, outcomeVars
  <2>2. OutcomeTypes'
    BY <1>0, <2>1 DEF Outcomes, OutcomeTypes
  <2>3. ASSUME NEW f \in settled PROVE PassedRightly(f)'
    <3>1. PassedRightly(f)
      BY DEF Outcomes
    <3>2. f = e => \E p \in lapsedMarks' : p[1] = f
      BY <2>1
    <3>. QED  BY <2>1, <3>1, <3>2 DEF PassedRightly
  <2>. QED  BY <2>1, <2>2, <2>3 DEF Outcomes
<1>12. ASSUME NEW e \in happenings, ReplayEvent(e) PROVE Outcomes'
  <2>1. /\ settled' = settled \ {e} /\ parked' = parked \ {e} /\ dropped' = dropped \ {e}
        /\ UNCHANGED <<marks, tally, retrying, lapsedMarks, analyticsFaults>>
    BY <1>12 DEF ReplayEvent, tallyVars, lapseVars
  <2>2. OutcomeTypes'
    BY <1>0, <2>1 DEF Outcomes, OutcomeTypes
  <2>3. \A f \in settled' : PassedRightly(f)'
    BY <2>1 DEF Outcomes, PassedRightly
  <2>. QED  BY <2>1, <2>2, <2>3 DEF Outcomes
<1>. QED  BY <1>1, <1>2, <1>3, <1>4, <1>5, <1>6, <1>7, <1>8, <1>9, <1>10, <1>11, <1>12, Zenon
          DEF AnalyticsNext

LEMMA AnalyticsTypes == AnalyticsInv => AnalyticsTypeOK
BY DEF AnalyticsInv, TallyInv, TallyTypes, TallyRecord, Outcomes, OutcomeTypes, AnalyticsTypeOK

\* For any events, pods, faults, replays and marks that expire: the counters and
\* what the marks stand for move together, and an offset committed has its reason.
THEOREM AnalyticsInvariance == AnalyticsSpec => []AnalyticsInv
<1>1. AnalyticsInit => AnalyticsInv
  BY TallyInitially, OutcomesInitially DEF AnalyticsInv
<1>2. AnalyticsInv /\ [AnalyticsNext]_analyticsVars => AnalyticsInv'
  <2> SUFFICES ASSUME AnalyticsInv, [AnalyticsNext]_analyticsVars PROVE AnalyticsInv'
    OBVIOUS
  <2>1. CASE AnalyticsNext
    <3>1. happenings \subseteq AnalyticsEvents
      BY DEF AnalyticsInv, Outcomes, OutcomeTypes, AnalyticsEvents
    <3>. QED  BY <2>1, <3>1, TallyKept, OutcomesKept DEF AnalyticsInv
  <2>2. CASE UNCHANGED analyticsVars
    <3>1. TallyInv'
      BY <2>2, TallyUntouched DEF analyticsVars, tallyVars, lapseVars, AnalyticsInv
    <3>2. Outcomes'
      BY <2>2 DEF analyticsVars, tallyVars, outcomeVars, lapseVars, AnalyticsInv, Outcomes,
                  OutcomeTypes, PassedRightly
    <3>. QED  BY <3>1, <3>2 DEF AnalyticsInv
  <2>. QED  BY <2>1, <2>2
<1>. QED  BY <1>1, <1>2, PTL DEF AnalyticsSpec

\* For any events, pods, faults, replays and marks that expire: each counter is the
\* sum of what the events have contributed, once for the life of a mark, and all
\* tasks are the sum over their statuses, unless the handling of an event that moves
\* the counter broke off half-way; and no event is passed uncounted without a mark,
\* a letter, another attempt or a fault.
THEOREM CountsDoAddUp == AnalyticsSpec => []CountsAddUp
<1>1. AnalyticsInv => CountsAddUp
  BY TallyImplied, Zenon DEF AnalyticsInv, Outcomes, PassedRightly, CountsAddUp
<1>. QED  BY <1>1, AnalyticsInvariance, PTL

-----------------------------------------------------------------------------
(***************************************************************************)
(* The composition.  A step of the whole is a step of the part that runs   *)
(* and leaves the variables of the others alone, so that each part behaves *)
(* in it as its own specification says.                                    *)
(***************************************************************************)
LEMMA ServicesStep ==
  [ServicesNext]_servicesVars
    => /\ [BroadcastNext]_broadcastVars /\ [InboxNext]_inboxVars
       /\ [WorkspaceContentNext]_contentVars /\ [CommentsNext]_commentVars
       /\ [WorkspaceDirectoryNext]_directoryVars /\ [AnalyticsNext]_analyticsVars
       /\ [IdempotencyNext]_keyVars /\ [EventPipelineNext]_pipelineVars
       /\ [RateLimitNext]_rateVars /\ [RealtimeNext]_realtimeVars
BY Zenon DEF ServicesNext, servicesVars

\* Whatever runs beside it, each component keeps to its specification, and so to
\* every theorem above (the broadcast jobs to theirs without its fairness, which no
\* invariant needs).
THEOREM ServicesImplementsParts ==
  ServicesSpec => /\ BroadcastInit /\ [][BroadcastNext]_broadcastVars
                  /\ InboxSpec /\ WorkspaceContentSpec /\ CommentsSpec
                  /\ WorkspaceDirectorySpec /\ AnalyticsSpec /\ IdempotencySpec
                  /\ EventPipelineSpec /\ RateLimitSpec /\ RealtimeSpec
<1>1. ServicesInit => /\ BroadcastInit /\ InboxInit /\ WorkspaceContentInit /\ CommentsInit
                      /\ WorkspaceDirectoryInit /\ AnalyticsInit /\ IdempotencyInit
                      /\ EventPipelineInit /\ RateLimitInit /\ RealtimeInit
  BY DEF ServicesInit
<1>. QED  BY <1>1, ServicesStep, PTL
          DEF ServicesSpec, InboxSpec, WorkspaceContentSpec, CommentsSpec,
              WorkspaceDirectorySpec, AnalyticsSpec, IdempotencySpec, EventPipelineSpec,
              RateLimitSpec, RealtimeSpec

\* The types of all parts hold in the composition, whichever of them runs.
THEOREM ServicesTypeCorrect == ServicesSpec => []ServicesTypeOK
<1>1. BroadcastInv /\ InboxInv /\ ContentInv /\ CommentsInv /\ DirectoryInv /\ AnalyticsInv
        /\ KeyInv /\ EventPipelineTypeOK /\ RateInv /\ RealtimeInv => ServicesTypeOK
  <2>1. BroadcastInv => BroadcastTypeOK
    BY DEF BroadcastInv
  <2>2. InboxInv => InboxTypeOK
    BY DEF InboxInv
  <2>3. ContentInv => WorkspaceContentTypeOK
    BY ContentTypes DEF ContentInv
  <2>4. CommentsInv => CommentsTypeOK
    BY DEF CommentsInv
  <2>5. DirectoryInv => WorkspaceDirectoryTypeOK
    BY DirectoryTypes DEF DirectoryInv
  <2>6. AnalyticsInv => AnalyticsTypeOK
    BY AnalyticsTypes
  <2>7. KeyInv => IdempotencyTypeOK
    BY DEF KeyInv
  <2>8. RateInv => RateLimitTypeOK
    BY DEF RateInv
  <2>9. RealtimeInv => RealtimeTypeOK
    BY DEF RealtimeInv
  <2>. QED  BY <2>1, <2>2, <2>3, <2>4, <2>5, <2>6, <2>7, <2>8, <2>9, Zenon DEF ServicesTypeOK
<1>2. WorkspaceContentSpec => []ContentInv
  BY ContentInitOK, ContentNextOK, PTL DEF WorkspaceContentSpec
<1>3. WorkspaceDirectorySpec => []DirectoryInv
  BY DirectoryInitOK, DirectoryNextOK, PTL DEF WorkspaceDirectorySpec
<1>. QED  BY <1>1, <1>2, <1>3, ServicesImplementsParts, BroadcastInvariance, InboxInvariance,
               CommentsInvariance, AnalyticsInvariance, KeyInvariance, PipelineTypeCorrect,
               RateLimitInvariance, RealtimeInvariance, PTL

\* In the composition too, an unread count that is off and a notification a browser
\* misses have one of the causes Inbox and Realtime name.
THEOREM NotificationsAreExplained == ServicesSpec => []NotificationsExplained
<1>1. CountExplained /\ StreamsExplained => NotificationsExplained
  BY DEF NotificationsExplained
<1>. QED  BY <1>1, ServicesImplementsParts, CountIsExplained, StreamsAreExplained, PTL
=============================================================================
