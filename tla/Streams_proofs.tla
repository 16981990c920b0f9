---------------------------- MODULE Streams_proofs ----------------------------
(***************************************************************************)
(* Proofs about the streams that many write to and nobody locks: those    *)
(* the stream reader subscribes to, discovers and waits at                 *)
(* (StreamSubscription), those it opens for two sites (DirectChannel), and *)
(* what becomes of a batch read from one (CommandBatch).  For any sets of  *)
(* streams, threads, sites and channels, any batches and any bounds.       *)
(***************************************************************************)
EXTENDS StreamSubscription, DirectChannel, CommandBatch, FiniteSetTheorems, TLAPS

-----------------------------------------------------------------------------
(* StreamSubscription.  What is written while the worker sweeps or sleeps   *)
(* is not older than the mark, and one refresh at a time is under way.      *)

SubscriptionShapes ==
    /\ wanted \subseteq Streams /\ known \subseteq Streams /\ active \subseteq Streams
    /\ DOMAIN snapshot = Refreshers /\ \A r \in Refreshers : snapshot[r].got \subseteq Streams
    /\ DOMAIN kind = Streams /\ withGroup \subseteq Streams
    /\ \A s \in withGroup : kind[s] = "stream"

LogShapes ==
    /\ log \in [Streams -> Seq(Nat)] /\ taken \in [Streams -> Nat]
    /\ \A s \in Streams : taken[s] <= Len(log[s])
    /\ now \in Nat /\ mark \in Int /\ mark <= now

\* Something in the stream is as new as the mark.
New(s) == \E k \in DOMAIN log[s] : log[s][k] >= mark

\* The sweep has a mark, has read nothing and met no error.
Quiet == mark # NoMark /\ ~sawAny /\ ~sawError

\* What a quiet sweep has left behind in a stream came after the mark.
OnlyNewBehind ==
    stage \in {"sweep", "wait"} /\ Quiet =>
        \A s \in active \ (ahead \cup stale) : Awaiting(s) => New(s)

SleepsWhenQuiet ==
    stage = "wait" => Quiet /\ ahead = {} /\ active \cap stale = {}

SubscriptionInv == SubscriptionShapes /\ LogShapes /\ OnlyNewBehind /\ SleepsWhenQuiet

\* A refresh under way is the only one, and not older than the cache.
RefreshInv ==
    /\ snapshot \in [Refreshers -> [at : Int, got : SUBSET Streams]]
    /\ epoch \in Nat /\ knownAt \in Nat /\ knownAt <= epoch
    /\ \A r \in Refreshers : snapshot[r] # Idle =>
          /\ snapshot[r].at \in Nat /\ knownAt <= snapshot[r].at /\ snapshot[r].at <= epoch
          /\ \A q \in Refreshers \ {r} : snapshot[q] = Idle

LEMMA SubscriptionInvInit == SubscriptionInit => SubscriptionInv
<1> SUFFICES ASSUME SubscriptionInit PROVE SubscriptionInv
  OBVIOUS
<1>1. SubscriptionShapes
  BY SubscriptionAssumption DEF SubscriptionInit, SubscriptionShapes, Idle
<1>2. LogShapes
  <2>1. log = [s \in Streams |-> <<>>] /\ taken = [s \in Streams |-> 0] /\ now = 0 /\ mark = -1
    BY DEF SubscriptionInit, NoMark
  <2>2. QED BY <2>1 DEF LogShapes
<1>3. OnlyNewBehind /\ SleepsWhenQuiet
  BY DEF SubscriptionInit, OnlyNewBehind, SleepsWhenQuiet
<1>4. QED BY <1>1, <1>2, <1>3 DEF SubscriptionInv

LEMMA SubscriptionShapesStep ==
    ASSUME SubscriptionShapes, [SubscriptionNext]_subscriptionVars
    PROVE  SubscriptionShapes'
<1> DEFINE Lists  == /\ wanted \subseteq Streams /\ known \subseteq Streams /\ active \subseteq Streams
                     /\ DOMAIN snapshot = Refreshers
                     /\ \A r \in Refreshers : snapshot[r].got \subseteq Streams
           Keys   == /\ DOMAIN kind = Streams /\ withGroup \subseteq Streams
                     /\ \A s \in withGroup : kind[s] = "stream"
<1>l. Lists
  BY DEF SubscriptionShapes
<1>k. Keys
  BY DEF SubscriptionShapes
<1>1. ASSUME NEW ss \in SUBSET Streams, Ensure(ss) PROVE Keys' /\ wanted' = wanted
  BY <1>k, <1>1 DEF Ensure
<1>o. Own \in Streams
  BY SubscriptionAssumption
<1>2. Keys'
  <2>1. CASE UNCHANGED <<kind, withGroup>>
    BY <1>k, <2>1
  <2>2. ASSUME NEW s \in Streams, Enrol(s) \/ Withdraw(s) \/ Overwrite(s) \/ Write(s) PROVE Keys'
    BY <1>k, <2>2 DEF Enrol, Withdraw, Overwrite, Write
  <2>3. CASE Subscribe
    <3>1. active' \cup {Own} \subseteq Streams
      BY <1>l, <1>o, <2>3 DEF Subscribe
    <3>2. QED BY <1>1, <2>3, <3>1 DEF Subscribe
  <2>4. ASSUME NEW due \in BOOLEAN, Sync(due) PROVE Keys'
    <3>1. Ensure(known \ active) \/ UNCHANGED valkey
      BY <2>4 DEF Sync
    <3>2. known \ active \in SUBSET Streams
      BY <1>l
    <3>3. QED BY <1>1, <2>1, <3>1, <3>2 DEF valkey
  <2>5. CASE Initialise
    BY <1>1, <1>o, <2>5 DEF Initialise
  <2>6. ASSUME Tick \/ Mark \/ MarkFails \/ Settle \/ Wake \/ Timeout \/ UNCHANGED subscriptionVars
        PROVE  UNCHANGED <<kind, withGroup>>
    BY <2>6 DEF Tick, Mark, MarkFails, Begin, Settle, Wake, Timeout, subscriptionVars, valkey
  <2>7. ASSUME NEW r \in Refreshers, Fetch(r) \/ Store(r) PROVE UNCHANGED <<kind, withGroup>>
    BY <2>7 DEF Fetch, Store, valkey
  <2>8. ASSUME NEW s \in Streams, ReadStream(s) \/ ReadFails(s) PROVE UNCHANGED <<kind, withGroup>>
    BY <2>8 DEF ReadStream, ReadFails, valkey
  <2>9. QED BY <2>1, <2>2, <2>3, <2>4, <2>5, <2>6, <2>7, <2>8 DEF SubscriptionNext
<1>3. Lists'
  <2>1. ASSUME NEW s \in Streams,
               Enrol(s) \/ Withdraw(s) \/ Overwrite(s) \/ Write(s) \/ ReadStream(s) \/ ReadFails(s)
        PROVE  Lists'
    BY <1>l, <2>1
    DEF Enrol, Withdraw, Overwrite, Write, ReadStream, ReadFails, discovery, valkey
  <2>2. ASSUME NEW r \in Refreshers, Fetch(r) PROVE Lists'
    <3>1. [at |-> epoch, got |-> Listed].got \subseteq Streams
      BY <1>l DEF Listed
    <3>2. QED BY <1>l, <2>2, <3>1 DEF Fetch, valkey, Listed
  <2>3. ASSUME NEW r \in Refreshers, Store(r) PROVE Lists'
    BY <1>l, <2>3 DEF Store, Idle, valkey
  <2>4. CASE Subscribe
    <3>1. active' \subseteq Streams /\ UNCHANGED <<known, snapshot>>
      BY <1>l, <1>o, <2>4 DEF Subscribe, discovery
    <3>2. active' \cup {Own} \in SUBSET Streams
      BY <1>o, <3>1
    <3>3. wanted' = wanted
      BY <1>1, <2>4, <3>2 DEF Subscribe
    <3>4. QED BY <1>l, <3>1, <3>3
  <2>5. ASSUME NEW due \in BOOLEAN, Sync(due) PROVE Lists'
    BY <1>l, <2>5 DEF Sync, discovery, Ensure, valkey
  <2>6. CASE Initialise \/ Tick \/ Mark \/ MarkFails
    BY <1>l, <2>6 DEF Initialise, Ensure, Tick, Mark, MarkFails, Begin, discovery, valkey
  <2>7. CASE Settle \/ Wake \/ Timeout \/ UNCHANGED subscriptionVars
    BY <1>l, <2>7 DEF Settle, Wake, Timeout, subscriptionVars, discovery, valkey
  <2>8. QED BY <2>1, <2>2, <2>3, <2>4, <2>5, <2>6, <2>7 DEF SubscriptionNext
<1>4. QED BY <1>2, <1>3 DEF SubscriptionShapes

LEMMA SmallerOfTwo ==
    ASSUME NEW a \in Int, NEW b \in Int
    PROVE  Min({a, b}) = IF a <= b THEN a ELSE b
BY DEF Min

LEMMA LogShapesStep ==
    ASSUME SubscriptionShapes, LogShapes, [SubscriptionNext]_subscriptionVars
    PROVE  LogShapes'
<1> DEFINE Logs == /\ log \in [Streams -> Seq(Nat)] /\ taken \in [Streams -> Nat]
                   /\ \A s \in Streams : taken[s] <= Len(log[s])
           Time == now \in Nat /\ mark \in Int /\ mark <= now
<1>l. Logs
  BY DEF LogShapes
<1>n. \A s \in Streams : Len(log[s]) \in Nat /\ taken[s] \in Nat
  BY <1>l
<1>t. Time
  BY DEF LogShapes
<1>1. Time'
  <2>1. CASE UNCHANGED <<now, mark>>
    BY <1>t, <2>1
  <2>2. CASE Tick
    BY <1>t, <2>2 DEF Tick, sweep
  <2>3. CASE Mark \/ MarkFails
    BY <1>t, <2>3 DEF Mark, MarkFails, Begin, NoMark, clocks
  <2>4. ASSUME NEW s \in Streams,
               Enrol(s) \/ Withdraw(s) \/ Overwrite(s) \/ Write(s) \/ ReadStream(s) \/ ReadFails(s)
        PROVE  UNCHANGED <<now, mark>>
    BY <2>4 DEF Enrol, Withdraw, Overwrite, Write, ReadStream, ReadFails, clocks, sweep
  <2>5. ASSUME NEW r \in Refreshers, Fetch(r) \/ Store(r) PROVE UNCHANGED <<now, mark>>
    BY <2>5 DEF Fetch, Store, clocks, sweep
  <2>6. ASSUME Subscribe \/ Initialise \/ (\E due \in BOOLEAN : Sync(due)) PROVE UNCHANGED <<now, mark>>
    BY <2>6 DEF Subscribe, Initialise, Sync, clocks, sweep
  <2>7. ASSUME Settle \/ Wake \/ Timeout \/ UNCHANGED subscriptionVars PROVE UNCHANGED <<now, mark>>
    BY <2>7 DEF Settle, Wake, Timeout, subscriptionVars, clocks, sweep
  <2>8. QED BY <2>1, <2>2, <2>3, <2>4, <2>5, <2>6, <2>7 DEF SubscriptionNext
<1>2. Logs'
  <2>1. CASE UNCHANGED <<log, taken>>
    BY <1>l, <2>1
  <2>2. ASSUME NEW ss \in SUBSET Streams, Ensure(ss) PROVE Logs'
    <3>1. log' = log
      BY <2>2 DEF Ensure
    <3>2. PICK made \in SUBSET Streams :
             taken' = [s \in Streams |-> IF s \in made THEN Len(log[s]) ELSE taken[s]]
      <4>1. PICK unread \in SUBSET ss :
               taken' = [s \in Streams |-> IF s \in ss \ (unread \cup withGroup) THEN Len(log[s]) ELSE taken[s]]
        BY <2>2 DEF Ensure
      <4>2. QED BY <4>1
    <3>3. \A s \in Streams : taken'[s] \in Nat /\ taken'[s] <= Len(log[s])
      BY <1>l, <1>n, <3>2
    <3>4. taken' \in [Streams -> Nat]
      BY <3>2, <3>3
    <3>5. QED BY <1>l, <3>1, <3>3, <3>4
  <2>3. ASSUME NEW s \in Streams, Write(s) PROVE Logs'
    <3>1. log' = [log EXCEPT ![s] = Append(@, now)] /\ taken' = taken
      BY <2>3 DEF Write
    <3>2. Append(log[s], now) \in Seq(Nat) /\ Len(Append(log[s], now)) = Len(log[s]) + 1
      BY <1>l, <1>t
    <3>3. log' \in [Streams -> Seq(Nat)]
      BY <1>l, <3>1, <3>2
    <3>4. \A q \in Streams : taken[q] <= Len(log'[q])
      BY <1>l, <1>n, <3>1, <3>2
    <3>5. QED BY <1>l, <3>1, <3>3, <3>4
  <2>4. ASSUME NEW s \in Streams, Withdraw(s) \/ Overwrite(s) PROVE Logs'
    <3>1. log' = [log EXCEPT ![s] = <<>>] /\ taken' = [taken EXCEPT ![s] = 0]
      BY <2>4 DEF Withdraw, Overwrite
    <3>2. QED BY <1>l, <3>1
  <2>5. ASSUME NEW s \in Streams, ReadStream(s) PROVE Logs'
    <3> DEFINE n == Min({SweepCount, Len(log[s]) - taken[s]})
    <3>1. log' = log /\ (taken' = taken \/ taken' = [taken EXCEPT ![s] = @ + n])
      BY <2>5 DEF ReadStream
    <3>2. n \in Nat /\ taken[s] + n <= Len(log[s])
      <4>1. SweepCount \in Nat /\ Len(log[s]) - taken[s] \in Nat
        BY SubscriptionAssumption, <1>l, <1>n
      <4>2. n = IF SweepCount <= Len(log[s]) - taken[s] THEN SweepCount ELSE Len(log[s]) - taken[s]
        BY <4>1, SmallerOfTwo
      <4> HIDE DEF n
      <4>3. QED BY <1>n, <4>1, <4>2
    <3> HIDE DEF n
    <3>3. taken[s] + n \in Nat
      BY <1>n, <3>2
    <3>4. taken' \in [Streams -> Nat]
      BY <1>l, <3>1, <3>3
    <3>5. \A q \in Streams : taken'[q] <= Len(log[q])
      BY <1>l, <3>1, <3>2
    <3>6. QED BY <1>l, <3>1, <3>4, <3>5
  <2>6. ASSUME NEW s \in Streams, Enrol(s) \/ ReadFails(s) PROVE UNCHANGED <<log, taken>>
    BY <2>6 DEF Enrol, ReadFails, valkey
  <2>7. ASSUME NEW r \in Refreshers, Fetch(r) \/ Store(r) PROVE UNCHANGED <<log, taken>>
    BY <2>7 DEF Fetch, Store, valkey
  <2>8. CASE Subscribe \/ Initialise
    <3>1. Own \in Streams /\ (Subscribe => active' \subseteq Streams)
      BY SubscriptionAssumption DEF Subscribe, SubscriptionShapes
    <3>2. QED BY <2>2, <2>8, <3>1 DEF Subscribe, Initialise
  <2>9. ASSUME NEW due \in BOOLEAN, Sync(due) PROVE Logs'
    <3>1. Ensure(known \ active) \/ UNCHANGED valkey
      BY <2>9 DEF Sync
    <3>2. known \ active \in SUBSET Streams
      BY DEF SubscriptionShapes
    <3>3. QED BY <2>1, <2>2, <3>1, <3>2 DEF valkey
  <2>10. ASSUME Tick \/ Mark \/ MarkFails \/ Settle \/ Wake \/ Timeout \/ UNCHANGED subscriptionVars
         PROVE  UNCHANGED <<log, taken>>
    BY <2>10 DEF Tick, Mark, MarkFails, Begin, Settle, Wake, Timeout, subscriptionVars, valkey
  <2>11. QED BY <2>1, <2>2, <2>3, <2>4, <2>5, <2>6, <2>7, <2>8, <2>9, <2>10 DEF SubscriptionNext
<1>3. QED BY <1>1, <1>2 DEF LogShapes

LEMMA OnlyNewBehindStep ==
    ASSUME SubscriptionInv, [SubscriptionNext]_subscriptionVars
    PROVE  OnlyNewBehind' /\ SleepsWhenQuiet'
<1>g. /\ active \subseteq Streams /\ \A s \in withGroup : kind[s] = "stream"
      /\ DOMAIN kind = Streams
  BY DEF SubscriptionInv, SubscriptionShapes
<1>l. /\ log \in [Streams -> Seq(Nat)] /\ taken \in [Streams -> Nat]
      /\ \A s \in Streams : taken[s] <= Len(log[s])
  BY DEF SubscriptionInv, LogShapes
<1>t. now \in Nat /\ mark \in Int /\ mark <= now
  BY DEF SubscriptionInv, LogShapes
<1>b. stage \in {"sweep", "wait"} /\ Quiet =>
          \A s \in active \ (ahead \cup stale) : Awaiting(s) => New(s)
  BY DEF SubscriptionInv, OnlyNewBehind
<1>s. stage = "wait" => Quiet /\ ahead = {} /\ active \cap stale = {}
  BY DEF SubscriptionInv, SleepsWhenQuiet
\* The worker does neither sweep nor sleep.
<1>1. CASE stage' \notin {"sweep", "wait"}
  BY <1>1 DEF OnlyNewBehind, SleepsWhenQuiet
\* Others do something while it does.
<1>2. ASSUME UNCHANGED <<stage, sweep, active>>,
             \A s \in active : Awaiting(s)' => (Awaiting(s) /\ (New(s) => New(s)')) \/ New(s)'
      PROVE  OnlyNewBehind' /\ SleepsWhenQuiet'
  BY <1>b, <1>s, <1>2 DEF OnlyNewBehind, SleepsWhenQuiet, Quiet, sweep
<1>3. ASSUME UNCHANGED <<stage, sweep, active, kind, withGroup, log, taken>>
      PROVE  OnlyNewBehind' /\ SleepsWhenQuiet'
  BY <1>2, <1>3 DEF Awaiting, Readable, New, sweep
<1>4. ASSUME NEW s \in Streams, Enrol(s) PROVE OnlyNewBehind' /\ SleepsWhenQuiet'
  <2>1. /\ UNCHANGED <<stage, sweep, active, withGroup, log, taken>>
        /\ kind' = [kind EXCEPT ![s] = IF @ = "none" THEN "stream" ELSE @]
    BY <1>4 DEF Enrol
  <2>2. \A q \in active : Awaiting(q)' => Awaiting(q) /\ (New(q) => New(q)')
    BY <1>g, <2>1 DEF Awaiting, Readable, New, sweep
  <2>3. QED BY <1>2, <2>1, <2>2
<1>5. ASSUME NEW s \in Streams, Withdraw(s) \/ Overwrite(s) PROVE OnlyNewBehind' /\ SleepsWhenQuiet'
  <2>1. UNCHANGED <<stage, sweep, active>>
    BY <1>5 DEF Withdraw, Overwrite
  <2>2. /\ withGroup' = withGroup \ {s}
        /\ \A q \in active \ {s} : kind'[q] = kind[q] /\ log'[q] = log[q] /\ taken'[q] = taken[q]
    BY <1>g, <1>l, <1>5 DEF Withdraw, Overwrite
  <2>3. \A q \in active : Awaiting(q)' => Awaiting(q) /\ (New(q) => New(q)')
    BY <2>1, <2>2 DEF Awaiting, Readable, New, sweep
  <2>4. QED BY <1>2, <2>1, <2>3
<1>6. ASSUME NEW s \in Streams, Write(s) PROVE OnlyNewBehind' /\ SleepsWhenQuiet'
  <2>1. /\ UNCHANGED <<stage, sweep, active, withGroup, taken, now>>
        /\ kind' = [kind EXCEPT ![s] = "stream"]
        /\ log' = [log EXCEPT ![s] = Append(@, now)]
    BY <1>6 DEF Write, clocks
  <2>2. New(s)'
    <3>1. log'[s] = Append(log[s], now) /\ log[s] \in Seq(Nat)
      BY <1>l, <2>1
    <3>2. Len(log[s]) + 1 \in DOMAIN log'[s] /\ log'[s][Len(log[s]) + 1] = now
      BY <3>1
    <3>3. mark' = mark
      BY <2>1 DEF sweep
    <3>4. QED BY <1>t, <3>2, <3>3 DEF New
  <2>3. \A q \in active \ {s} : Awaiting(q)' => Awaiting(q) /\ (New(q) => New(q)')
    BY <1>g, <1>l, <2>1 DEF Awaiting, Readable, New, sweep
  <2>4. QED BY <1>2, <2>1, <2>2, <2>3
<1>7. ASSUME NEW r \in Refreshers, Fetch(r) \/ Store(r) PROVE OnlyNewBehind' /\ SleepsWhenQuiet'
  BY <1>3, <1>7 DEF Fetch, Store, valkey
<1>8. ASSUME Tick \/ UNCHANGED subscriptionVars PROVE OnlyNewBehind' /\ SleepsWhenQuiet'
  BY <1>3, <1>8 DEF Tick, subscriptionVars, valkey
<1>9. ASSUME Subscribe \/ Initialise \/ (\E due \in BOOLEAN : Sync(due)) \/ Wake \/ Timeout
      PROVE  OnlyNewBehind' /\ SleepsWhenQuiet'
  <2>1. stage' \notin {"sweep", "wait"}
    BY <1>9 DEF Subscribe, Initialise, Sync, Wake, Timeout
  <2>2. QED BY <1>1, <2>1
<1>10. ASSUME Mark \/ MarkFails PROVE OnlyNewBehind' /\ SleepsWhenQuiet'
  <2>1. stage' = "sweep" /\ ahead' = active /\ active' = active
    BY <1>10 DEF Mark, MarkFails, Begin
  <2>2. QED BY <2>1 DEF OnlyNewBehind, SleepsWhenQuiet
<1>11. ASSUME NEW s \in Streams, ReadStream(s) PROVE OnlyNewBehind' /\ SleepsWhenQuiet'
  <2>1. /\ stage = "sweep" /\ ahead' = ahead \ {s}
        /\ UNCHANGED <<kind, withGroup, log, stage, active, mark>>
        /\ sawAny' = (sawAny \/ Awaiting(s))
        /\ stale' = IF Readable(s) THEN stale ELSE stale \cup {s}
        /\ sawError' = (sawError \/ (kind[s] # "other" /\ ~Readable(s)))
    BY <1>11 DEF ReadStream
  <2>2. \A q \in Streams \ {s} : taken'[q] = taken[q]
    BY <1>l, <1>11 DEF ReadStream
  <2>3. SleepsWhenQuiet'
    BY <2>1 DEF SleepsWhenQuiet
  <2>4. ASSUME Quiet', NEW q \in active, q \notin ahead' \cup stale', Awaiting(q)' PROVE New(q)'
    <3>1. Quiet /\ ~Awaiting(s)
      BY <2>1, <2>4 DEF Quiet
    <3>2. CASE q = s
      <4>1. Readable(s)
        BY <2>1, <2>4, <3>2
      <4>2. taken[s] = Len(log[s])
        BY <1>l, <3>1, <4>1 DEF Awaiting
      <4>3. taken'[s] = taken[s] + Min({SweepCount, Len(log[s]) - taken[s]})
        BY <1>l, <1>11, <4>1 DEF ReadStream
      <4>4. Min({SweepCount, Len(log[s]) - taken[s]}) = 0
        <5>1. SweepCount \in Nat \ {0} /\ Len(log[s]) \in Nat
          BY SubscriptionAssumption, <1>l
        <5>2. Len(log[s]) - taken[s] = 0
          BY <4>2, <5>1
        <5>3. Min({SweepCount, 0}) = 0
          BY <5>1, SmallerOfTwo
        <5>4. QED BY <5>2, <5>3
      <4>5. taken'[s] = Len(log[s]) /\ Len(log[s]) \in Nat
        BY <1>l, <4>2, <4>3, <4>4
      <4>6. QED BY <2>1, <2>4, <3>2, <4>5 DEF Awaiting
    <3>3. CASE q # s
      <4>1. q \in active \ (ahead \cup stale) /\ q \in Streams
        BY <1>g, <2>1, <2>4, <3>3
      <4>2. Awaiting(q)
        BY <2>1, <2>2, <2>4, <3>3, <4>1 DEF Awaiting, Readable
      <4>3. New(q)
        BY <1>b, <2>1, <3>1, <4>1, <4>2
      <4>4. QED BY <2>1, <4>3 DEF New
    <3>4. QED BY <3>2, <3>3
  <2>5. QED BY <2>1, <2>3, <2>4 DEF OnlyNewBehind
<1>12. ASSUME NEW s \in Streams, ReadFails(s) PROVE OnlyNewBehind' /\ SleepsWhenQuiet'
  BY <1>12 DEF ReadFails, OnlyNewBehind, SleepsWhenQuiet, Quiet
<1>13. ASSUME Settle PROVE OnlyNewBehind' /\ SleepsWhenQuiet'
  <2>1. /\ stage = "sweep" /\ ahead = {} /\ active' = active \ stale
        /\ UNCHANGED <<kind, withGroup, log, taken, ahead, stale, mark, sawAny, sawError>>
        /\ stage' = IF mark # NoMark /\ ~sawAny /\ ~sawError /\ active' # {} THEN "wait" ELSE "sync"
    BY <1>13 DEF Settle, valkey, sweep
  <2>2. SleepsWhenQuiet'
    BY <2>1 DEF SleepsWhenQuiet, Quiet
  <2>3. OnlyNewBehind'
    BY <1>b, <2>1 DEF OnlyNewBehind, Quiet, Awaiting, Readable, New
  <2>4. QED BY <2>2, <2>3
<1>14. QED BY <1>4, <1>5, <1>6, <1>7, <1>8, <1>9, <1>10, <1>11, <1>12, <1>13 DEF SubscriptionNext

LEMMA SubscriptionInvStep == SubscriptionInv /\ [SubscriptionNext]_subscriptionVars => SubscriptionInv'
BY SubscriptionShapesStep, LogShapesStep, OnlyNewBehindStep DEF SubscriptionInv

\* The worker never sleeps over an entry it could read: what lies in one of its streams when it
\* waits is new enough to wake it.
THEOREM NoWakeupIsLost == SubscriptionSpec => []NoLostWakeup
<1>1. SubscriptionInv => NoLostWakeup
  <2> SUFFICES ASSUME SubscriptionInv, stage = "wait", NEW s \in active, Awaiting(s) PROVE Wakes
    BY DEF NoLostWakeup
  <2>1. New(s)
    BY DEF SubscriptionInv, OnlyNewBehind, SleepsWhenQuiet
  <2>2. PICK k \in DOMAIN log[s] : log[s][k] >= mark
    BY <2>1 DEF New
  <2>3. log[s] \in Seq(Nat) /\ mark \in Int
    BY DEF SubscriptionInv, SubscriptionShapes, LogShapes
  <2>4. log[s][k] \in Nat
    BY <2>2, <2>3
  <2>5. log[s][k] > mark - 1
    BY <2>2, <2>3, <2>4
  <2>6. QED BY <2>5 DEF Wakes, After
<1>2. QED BY <1>1, SubscriptionInvInit, SubscriptionInvStep, PTL DEF SubscriptionSpec

LEMMA RefreshInvInit == SubscriptionInit => RefreshInv
<1> SUFFICES ASSUME SubscriptionInit PROVE RefreshInv
  OBVIOUS
<1>1. snapshot = [r \in Refreshers |-> Idle] /\ epoch = 0 /\ knownAt = 0
  BY DEF SubscriptionInit
<1>2. Idle \in [at : Int, got : SUBSET Streams]
  BY DEF Idle
<1>3. QED BY <1>1, <1>2 DEF RefreshInv

LEMMA RefreshStep ==
    ASSUME SubscriptionShapes, RefreshInv, [SubscriptionNext]_subscriptionVars
    PROVE  RefreshInv' /\ knownAt' >= knownAt
<1>e. epoch \in Nat /\ knownAt \in Nat /\ knownAt <= epoch
  BY DEF RefreshInv
<1>s. snapshot \in [Refreshers -> [at : Int, got : SUBSET Streams]]
  BY DEF RefreshInv
<1>i. \A r \in Refreshers : snapshot[r] # Idle =>
          /\ snapshot[r].at \in Nat /\ knownAt <= snapshot[r].at /\ snapshot[r].at <= epoch
          /\ \A q \in Refreshers \ {r} : snapshot[q] = Idle
  BY DEF RefreshInv
<1>1. ASSUME UNCHANGED <<knownAt, snapshot>>, epoch' \in Nat, epoch <= epoch'
      PROVE  RefreshInv' /\ knownAt' >= knownAt
  BY <1>e, <1>s, <1>i, <1>1 DEF RefreshInv
<1>2. ASSUME NEW r \in Refreshers, Fetch(r) PROVE RefreshInv' /\ knownAt' >= knownAt
  <2>1. /\ UNCHANGED <<knownAt, epoch>> /\ \A q \in Refreshers : snapshot[q] = Idle
        /\ snapshot' = [snapshot EXCEPT ![r] = [at |-> epoch, got |-> Listed]]
    BY <1>2 DEF Fetch, NoneRefreshes, clocks
  <2>2. Listed \subseteq Streams
    BY DEF SubscriptionShapes, Listed
  <2>3. snapshot' \in [Refreshers -> [at : Int, got : SUBSET Streams]]
    BY <1>e, <1>s, <2>1, <2>2
  <2>4. snapshot'[r].at = epoch /\ \A q \in Refreshers \ {r} : snapshot'[q] = Idle
    BY <1>s, <2>1
  <2>5. QED BY <1>e, <2>1, <2>3, <2>4 DEF RefreshInv
<1>3. ASSUME NEW r \in Refreshers, Store(r) PROVE RefreshInv' /\ knownAt' >= knownAt
  <2>1. /\ snapshot[r] # Idle /\ knownAt' = snapshot[r].at /\ epoch' = epoch
        /\ snapshot' = [snapshot EXCEPT ![r] = Idle]
    BY <1>3 DEF Store, clocks
  <2>2. \A q \in Refreshers : snapshot'[q] = Idle
    BY <1>s, <1>i, <2>1
  <2>3. Idle \in [at : Int, got : SUBSET Streams]
    BY DEF Idle
  <2>4. snapshot' \in [Refreshers -> [at : Int, got : SUBSET Streams]]
    BY <1>s, <2>1, <2>3
  <2>5. QED BY <1>e, <1>i, <2>1, <2>2, <2>4 DEF RefreshInv
<1>4. ASSUME NEW s \in Streams, Enrol(s) \/ Withdraw(s) PROVE RefreshInv' /\ knownAt' >= knownAt
  BY <1>e, <1>1, <1>4 DEF Enrol, Withdraw, discovery
<1>5. ASSUME NEW s \in Streams, Overwrite(s) \/ Write(s) \/ ReadStream(s) \/ ReadFails(s)
      PROVE  RefreshInv' /\ knownAt' >= knownAt
  BY <1>e, <1>1, <1>5 DEF Overwrite, Write, ReadStream, ReadFails, discovery, clocks
<1>6. ASSUME Tick \/ Subscribe \/ Initialise \/ (\E due \in BOOLEAN : Sync(due)) \/ Mark \/ MarkFails
      PROVE  RefreshInv' /\ knownAt' >= knownAt
  BY <1>e, <1>1, <1>6 DEF Tick, Subscribe, Initialise, Sync, Mark, MarkFails, Begin, discovery, clocks
<1>7. ASSUME Settle \/ Wake \/ Timeout \/ UNCHANGED subscriptionVars
      PROVE  RefreshInv' /\ knownAt' >= knownAt
  BY <1>e, <1>1, <1>7 DEF Settle, Wake, Timeout, subscriptionVars, discovery, clocks
<1>8. QED BY <1>2, <1>3, <1>4, <1>5, <1>6, <1>7 DEF SubscriptionNext

\* Two threads refresh one cache, and it never goes back to an older state of the registry.
THEOREM CacheGoesForward == SubscriptionSpec => CacheNeverOlder
<1> DEFINE Both == SubscriptionShapes /\ RefreshInv
<1>1. SubscriptionInit => Both
  BY SubscriptionInvInit, RefreshInvInit DEF SubscriptionInv
<1>2. Both /\ [SubscriptionNext]_subscriptionVars => Both'
  BY SubscriptionShapesStep, RefreshStep
<1>3. Both /\ [SubscriptionNext]_subscriptionVars => [knownAt' >= knownAt]_subscriptionVars
  BY RefreshStep
<1>4. QED BY <1>1, <1>2, <1>3, PTL DEF SubscriptionSpec, CacheNeverOlder

-----------------------------------------------------------------------------
(* DirectChannel.  Until a channel is due or closed, its hash and its entry *)
(* in the index say what was promised.                                      *)

ChannelRecords == [between : SUBSET Sites, opened : Nat, expires : Nat]

ChannelShapes ==
    /\ seconds \in Nat
    /\ promised \in [Channels -> ChannelRecords \cup {NoChannel}]
    /\ DOMAIN meta = Channels /\ DOMAIN index = Channels /\ DOMAIN groups = Channels

StillOpen(c) == promised[c] # NoChannel /\ c \notin closed /\ ~Due(c)

KeptAsPromised ==
    \A c \in Channels : StillOpen(c) =>
        /\ meta[c] = promised[c] /\ index[c] = promised[c]
        /\ c \in pipes /\ groups[c] = promised[c].between

ChannelInv == ChannelShapes /\ KeptAsPromised /\ NothingLeftBehind /\ pipes \subseteq Channels

LEMMA RecordIsNone ==
    ASSUME NEW pair \in SUBSET Sites, NEW expires \in Nat, seconds \in Nat
    PROVE  /\ Record(pair, expires) \in ChannelRecords /\ Record(pair, expires) # NoChannel
           /\ Record(pair, expires).between = pair
BY ChannelAssumption DEF Record, ChannelRecords

LEMMA ChannelInvInit == ChannelInit => ChannelInv
BY DEF ChannelInit, ChannelInv, ChannelShapes, KeptAsPromised, StillOpen, NothingLeftBehind, None

LEMMA LifetimeIsNat == \A ttl \in Ttls : Lifetime(ttl) \in Nat
<1> SUFFICES ASSUME NEW ttl \in Ttls PROVE Lifetime(ttl) \in Nat
  OBVIOUS
<1>1. MaxTtl \in Nat /\ DefaultTtl \in Nat /\ ttl \in Nat
  BY ChannelAssumption
<1>2. CASE ttl > MaxTtl
  <2>1. ~(ttl = 0)
    BY <1>1, <1>2
  <2>2. Lifetime(ttl) = MaxTtl
    BY <1>2, <2>1, Zenon DEF Lifetime
  <2>3. QED BY <1>1, <2>2
<1>3. CASE ttl = 0
  <2>1. ~(ttl > MaxTtl)
    BY <1>1, <1>3
  <2>2. Lifetime(ttl) = DefaultTtl
    BY <1>3, <2>1, Zenon DEF Lifetime
  <2>3. QED BY <1>1, <2>2
<1>4. CASE ~(ttl > MaxTtl) /\ ~(ttl = 0)
  <2>1. Lifetime(ttl) = ttl
    BY <1>4, Zenon DEF Lifetime
  <2>2. QED BY <1>1, <2>1
<1>5. QED BY <1>2, <1>3, <1>4

LEMMA ChannelInvStep == ChannelInv /\ [ChannelNext]_channelVars => ChannelInv'
<1> SUFFICES ASSUME ChannelInv, [ChannelNext]_channelVars PROVE ChannelInv'
  OBVIOUS
<1>s. seconds \in Nat
  BY DEF ChannelInv, ChannelShapes
<1>p. promised \in [Channels -> ChannelRecords \cup {NoChannel}]
  BY DEF ChannelInv, ChannelShapes
<1>d. DOMAIN meta = Channels /\ DOMAIN index = Channels /\ DOMAIN groups = Channels
  BY DEF ChannelInv, ChannelShapes
<1>k. \A c \in Channels : StillOpen(c) =>
        /\ meta[c] = promised[c] /\ index[c] = promised[c]
        /\ c \in pipes /\ groups[c] = promised[c].between
  BY DEF ChannelInv, KeptAsPromised
<1>n. /\ \A c \in pipes \ late : index[c] # NoChannel
      /\ pipes \subseteq Channels
  BY DEF ChannelInv, NothingLeftBehind
<1>r. \A c \in Channels : promised[c] # NoChannel =>
         promised[c] \in ChannelRecords /\ promised[c].opened \in Nat /\ promised[c].expires \in Nat
  BY <1>p DEF ChannelRecords
<1>g. ASSUME ChannelShapes', KeptAsPromised', NothingLeftBehind', pipes' \subseteq Channels PROVE ChannelInv'
  BY <1>g DEF ChannelInv
\* What ends is the part of the stores that belongs to the ended channels.
<1>e. ASSUME NEW gone \in SUBSET Channels, Ends(gone),
             UNCHANGED <<seconds, promised, late>>,
             \A c \in gone : ~StillOpen(c)',  \A c \in Channels : StillOpen(c)' => StillOpen(c)
      PROVE  ChannelInv'
  <2>1. ChannelShapes'
    BY <1>s, <1>p, <1>e DEF ChannelShapes, Ends
  <2>2. KeptAsPromised'
    BY <1>k, <1>e DEF KeptAsPromised, Ends
  <2>3. NothingLeftBehind' /\ pipes' \subseteq Channels
    BY <1>n, <1>e DEF NothingLeftBehind, Ends
  <2>4. QED BY <1>g, <2>1, <2>2, <2>3
\* Nothing is written but to streams.
<1>w. ASSUME UNCHANGED <<groups, meta, index, promised, closed>>, seconds' \in Nat,
             pipes \subseteq pipes', pipes' \subseteq Channels, pipes' \ pipes \subseteq late', late \subseteq late',
             \A c \in Channels : StillOpen(c)' => StillOpen(c)
      PROVE  ChannelInv'
  <2>1. ChannelShapes'
    BY <1>p, <1>d, <1>w DEF ChannelShapes
  <2>2. KeptAsPromised'
    BY <1>k, <1>w DEF KeptAsPromised
  <2>3. NothingLeftBehind'
    BY <1>n, <1>w DEF NothingLeftBehind
  <2>4. QED BY <1>g, <1>w, <2>1, <2>2, <2>3
<1>1. ASSUME NEW c \in Channels, NEW source \in Sites, NEW target \in Sites, Open(c, source, target)
      PROVE  ChannelInv'
  <2> DEFINE pair == {source, target}
  <2>1. PICK expires \in {seconds + Lifetime(ttl) : ttl \in Ttls} \cup {0} :
            /\ Provision(c, pair, expires)
            /\ promised' = [promised EXCEPT ![c] = Record(pair, expires)]
    BY <1>1 DEF Open
  <2>2. expires \in Nat
    BY <1>s, LifetimeIsNat
  <2> DEFINE rec == Record(pair, expires)
  <2>3. rec \in ChannelRecords /\ rec # NoChannel /\ rec.between = pair
    BY <1>s, <2>2, RecordIsNone
  <2>4. /\ pipes' = pipes \cup {c} /\ groups' = [groups EXCEPT ![c] = pair]
        /\ meta' = [meta EXCEPT ![c] = rec] /\ index' = [index EXCEPT ![c] = rec]
        /\ promised' = [promised EXCEPT ![c] = rec]
    BY <2>1 DEF Provision
  <2>5. UNCHANGED <<seconds, closed, late>>
    BY <1>1 DEF Open
  <2> HIDE DEF rec, pair
  <2>6. ChannelShapes'
    BY <1>s, <1>p, <1>d, <2>3, <2>4, <2>5 DEF ChannelShapes
  <2>7. \A q \in Channels \ {c} : /\ promised'[q] = promised[q] /\ meta'[q] = meta[q] /\ index'[q] = index[q]
                                  /\ groups'[q] = groups[q]
    BY <1>p, <1>d, <2>4
  <2>8. \A q \in Channels \ {c} : StillOpen(q)' = StillOpen(q)
    BY <2>5, <2>7 DEF StillOpen, Due
  <2>9. promised'[c] = rec /\ meta'[c] = rec /\ index'[c] = rec /\ groups'[c] = pair
    BY <1>p, <1>d, <2>4
  <2>10. KeptAsPromised'
    BY <1>k, <2>3, <2>4, <2>7, <2>8, <2>9 DEF KeptAsPromised
  <2>11. NothingLeftBehind' /\ pipes' \subseteq Channels
    BY <1>n, <2>3, <2>4, <2>5, <2>7, <2>9 DEF NothingLeftBehind
  <2>12. QED BY <1>g, <2>6, <2>10, <2>11
<1>2. ASSUME NEW c \in Channels, NEW site \in Sites, Inspect(c, site) \/ InspectFails(c) PROVE ChannelInv'
  <2>1. UNCHANGED <<seconds, pipes, groups, meta, index, promised, closed, late>>
    BY <1>2 DEF Inspect, InspectFails
  <2>2. \A q \in Channels : StillOpen(q)' => StillOpen(q)
    BY <2>1 DEF StillOpen, Due
  <2>3. QED BY <1>s, <1>n, <1>w, <2>1, <2>2
<1>3. ASSUME NEW c \in Channels, InspectFails(c) PROVE ChannelInv'
  <2>1. UNCHANGED <<seconds, pipes, groups, meta, index, promised, closed, late>>
    BY <1>3 DEF InspectFails
  <2>2. \A q \in Channels : StillOpen(q)' => StillOpen(q)
    BY <2>1 DEF StillOpen, Due
  <2>3. QED BY <1>s, <1>n, <1>w, <2>1, <2>2
<1>4. ASSUME NEW c \in Channels, NEW site \in Sites, WriteTo(c, site) PROVE ChannelInv'
  <2>1. /\ UNCHANGED <<seconds, groups, meta, index, promised, closed>>
        /\ pipes' = pipes \cup {c} /\ late' = IF c \in pipes THEN late ELSE late \cup {c}
    BY <1>4 DEF WriteTo
  <2>2. \A q \in Channels : StillOpen(q)' => StillOpen(q)
    BY <2>1 DEF StillOpen, Due
  <2>3. QED BY <1>s, <1>n, <1>w, <2>1, <2>2
<1>5. ASSUME NEW c \in Channels, Close(c) PROVE ChannelInv'
  <2>1. UNCHANGED <<seconds, promised, late>>
    BY <1>5 DEF Close
  <2>2. CASE Found(c)
    <3>1. Ends({c}) /\ closed' = closed \cup {c}
      BY <1>5, <2>2 DEF Close
    <3>2. ~StillOpen(c)' /\ \A q \in Channels : StillOpen(q)' => StillOpen(q)
      BY <2>1, <3>1 DEF StillOpen, Due
    <3>3. QED BY <1>e, <2>1, <3>1, <3>2
  <2>3. CASE ~Found(c)
    <3>1. UNCHANGED <<pipes, groups, meta, index, closed>>
      BY <1>5, <2>3 DEF Close
    <3>2. \A q \in Channels : StillOpen(q)' => StillOpen(q)
      BY <2>1, <3>1 DEF StillOpen, Due
    <3>3. QED BY <1>s, <1>n, <1>w, <2>1, <3>1, <3>2
  <2>4. QED BY <2>2, <2>3
\* An expiry ends nothing that is not due.
<1>6. ASSUME CheckExpiry PROVE ChannelInv'
  <2>1. Ends(ToEnd) /\ UNCHANGED <<seconds, promised, closed, late>>
    BY <1>6 DEF CheckExpiry
  <2>2. ToEnd \in SUBSET Channels
    BY DEF ToEnd
  <2>3. \A q \in Channels : StillOpen(q)' = StillOpen(q)
    BY <2>1 DEF StillOpen, Due
  <2>4. ASSUME NEW c \in ToEnd, StillOpen(c) PROVE FALSE
    <3>1. c \in Channels /\ promised[c] # NoChannel
      BY <2>4 DEF ToEnd, StillOpen
    <3>2. promised[c].opened \in Nat /\ promised[c].expires \in Nat
      BY <1>r, <3>1
    <3>3. meta[c] = promised[c] /\ index[c] = promised[c]
      BY <1>k, <2>4, <3>1
    <3>4. /\ ~(promised[c].expires > 0 /\ seconds >= promised[c].expires)
          /\ ~(seconds - promised[c].opened > MaxIdle)
      BY <2>4 DEF StillOpen, Due
    <3>5. ~Expired(c)
      BY <1>s, <3>2, <3>3, <3>4 DEF Expired
    <3>6. Live(c)
      BY <1>s, <3>1, <3>2, <3>3, <3>4 DEF Live
    <3>7. ~IdleTooLong(c)
      BY <3>3, <3>4, <3>6 DEF IdleTooLong
    <3>8. QED BY <3>5, <3>7 DEF ToEnd
  <2>5. QED BY <1>e, <2>1, <2>2, <2>3, <2>4
<1>7. ASSUME ClockTick PROVE ChannelInv'
  <2>1. /\ seconds' = seconds + 1
        /\ UNCHANGED <<pipes, groups, meta, index, promised, closed, late>>
    BY <1>7 DEF ClockTick
  <2>2. ASSUME NEW q \in Channels, StillOpen(q)' PROVE StillOpen(q)
    <3>1. promised[q] # NoChannel /\ q \notin closed
      BY <2>1, <2>2 DEF StillOpen
    <3>2. promised[q].opened \in Nat /\ promised[q].expires \in Nat /\ MaxIdle \in Nat
      BY <1>r, <3>1, ChannelAssumption
    <3>3. /\ ~(promised[q].expires > 0 /\ seconds + 1 >= promised[q].expires)
          /\ ~(seconds + 1 - promised[q].opened > MaxIdle)
      <4>1. ~Due(q)'
        BY <2>2 DEF StillOpen
      <4>2. ~((promised[q].expires > 0 /\ seconds' >= promised[q].expires)
              \/ seconds' - promised[q].opened > MaxIdle)
        BY <2>1, <4>1 DEF Due
      <4>3. seconds' = seconds + 1 /\ seconds \in Nat
        BY <1>s, <2>1
      <4>4. QED BY <3>2, <4>2, <4>3
    <3>4. ~Due(q)
      BY <1>s, <3>2, <3>3 DEF Due
    <3>5. QED BY <3>1, <3>4 DEF StillOpen
  <2>3. QED BY <1>s, <1>n, <1>w, <2>1, <2>2
<1>8. CASE UNCHANGED channelVars
  <2>1. UNCHANGED <<seconds, pipes, groups, meta, index, promised, closed, late>>
    BY <1>8 DEF channelVars
  <2>2. \A q \in Channels : StillOpen(q)' => StillOpen(q)
    BY <2>1 DEF StillOpen, Due
  <2>3. QED BY <1>s, <1>n, <1>w, <2>1, <2>2
<1>9. QED BY <1>1, <1>2, <1>3, <1>4, <1>5, <1>6, <1>7, <1>8 DEF ChannelNext

\* An opened channel is there with the groups of both sites until it is closed, over or idle too
\* long, and no stream is left that the index does not know, but those written to when it was over.
THEOREM ChannelsAreKept == ChannelSpec => []ChannelsKept
<1>1. ChannelInv => ChannelsKept
  BY DEF ChannelInv, KeptAsPromised, StillOpen, ChannelsKept, OpenMeansUsable
<1>2. QED BY <1>1, ChannelInvInit, ChannelInvStep, PTL DEF ChannelSpec

-----------------------------------------------------------------------------
(* CommandBatch.  Two passes go through one batch and tasks run beside the  *)
(* second; an entry has its effects once its pass is beyond it and its task *)
(* is over, whichever lane it took.                                         *)

\* The second pass is beyond entry p.
Passed(p) == phase # "envelopes" /\ (phase = "commands" => p < at)

Done(p) == Passed(p) /\ p \notin tasks

\* Calls for the commands of an envelope.
InEnvelope(p) ==
    IF phase # "envelopes" \/ p < at THEN 2 ELSE IF p = at THEN sub - 1 ELSE 0

BatchShapes ==
    /\ owner \in BatchSites
    /\ Len(batch) \in Nat /\ at \in Nat \ {0} /\ sub \in Subs /\ failed \in Nat
    /\ phase \in {"envelopes", "commands", "respond", "singly", "ack", "done"}
    /\ sub = 1 \/ (phase = "envelopes" /\ at <= Len(batch) /\ batch[at].kind = Envelope)

\* A task is one of an entry the second pass has spawned.
TasksPassed == \A p \in tasks : p \in Positions /\ Passed(p) /\ ForUs(batch[p])

RunsSoFar ==
    failed = 0 =>
        /\ runs \in [Positions -> Nat]
        /\ \A p \in Positions :
              runs[p] = IF batch[p].kind = Envelope THEN InEnvelope(p)
                        ELSE IF Done(p) THEN AloneRuns(p) ELSE 0

AnswersSoFar ==
    failed = 0 =>
        /\ \A a : a \in keyed <=> \E p \in Positions : Done(p) /\ a \in AloneKeyed(p)
        /\ receipts = keyed

\* Whatever fails, what is written is written under the tenant of the stream.
UnderTheStream == owner # Served => \A a \in keyed \cup receipts : a.site = owner

LEMMA TwoSubs == Cardinality(Subs) = 2
<1>1. 1 \in Int /\ 2 \in Int
  OBVIOUS
<1>2. Cardinality(1 .. 2) = IF 1 > 2 THEN 0 ELSE 2 - 1 + 1
  BY <1>1, FS_Interval
<1> QED BY <1>2 DEF Subs

LEMMA BatchShapesInit == BatchInit => BatchShapes
<1> SUFFICES ASSUME BatchInit PROVE BatchShapes
  OBVIOUS
<1>1. PICK n \in 1 .. MaxBatch : batch \in [1 .. n -> Commands]
  BY DEF BatchInit
<1>2. n \in Nat
  BY <1>1, CommandsAssumption
<1>3. Len(batch) \in Nat
  BY <1>1, <1>2
<1> QED BY <1>3 DEF BatchInit, BatchShapes, Subs

LEMMA BatchShapesStep == BatchShapes /\ [BatchNext]_batchVars => BatchShapes'
<1> SUFFICES ASSUME BatchShapes, [BatchNext]_batchVars PROVE BatchShapes'
  OBVIOUS
<1>c. Cardinality(Subs) = 2
  BY TwoSubs
<1> USE DEF BatchShapes, given, Advance, Refuse, sending
<1>1. CASE NotAnEnvelope
  BY <1>1 DEF NotAnEnvelope, Working, Here, Subs
<1>2. CASE RunSub
  BY <1>2, <1>c DEF RunSub, Working, Subs, Here
<1>3. CASE StartCommands
  BY <1>3 DEF StartCommands
<1>4. CASE Skip
  BY <1>4 DEF Skip, Working
<1>5. CASE Spawn
  BY <1>5 DEF Spawn, Working
<1>6. CASE Inline
  BY <1>6 DEF Inline, Working, Answer
<1>7. CASE EndCommands
  BY <1>7 DEF EndCommands
<1>8. ASSUME NEW p \in tasks, Task(p) \/ TaskLost(p) PROVE BatchShapes'
  BY <1>8 DEF Task, TaskLost, Answer
<1>9. CASE SendBatch
  BY <1>9 DEF SendBatch
<1>10. CASE GiveUp
  BY <1>10 DEF GiveUp
<1>11. CASE SendSingle
  BY <1>11 DEF SendSingle
<1>12. CASE EndResponses
  BY <1>12 DEF EndResponses
<1>13. CASE AckBatch
  BY <1>13 DEF AckBatch
<1>14. CASE UNCHANGED batchVars
  BY <1>14 DEF batchVars
<1> QED
  BY <1>1, <1>2, <1>3, <1>4, <1>5, <1>6, <1>7, <1>8, <1>9, <1>10, <1>11, <1>12, <1>13, <1>14 DEF BatchNext

LEMMA TasksPassedStep ==
    ASSUME BatchShapes, TasksPassed, [BatchNext]_batchVars PROVE TasksPassed'
<1> USE DEF BatchShapes, TasksPassed, Passed, Positions, given, Advance, sending, effects
<1>1. CASE NotAnEnvelope
  BY <1>1 DEF NotAnEnvelope, Working
<1>2. CASE RunSub
  BY <1>2 DEF RunSub, Working
<1>3. CASE StartCommands
  BY <1>3 DEF StartCommands
<1>4. CASE Skip
  BY <1>4 DEF Skip, Working
<1>5. CASE Spawn
  <2>1. at \in Positions /\ ForUs(batch[at])
    BY <1>5 DEF Spawn, Working, Skipped, Spawnable, Elsewhere, ForUs, Here, Envelope
  <2> QED BY <1>5, <2>1 DEF Spawn, Working
<1>6. CASE Inline
  BY <1>6 DEF Inline, Working
<1>7. CASE EndCommands
  BY <1>7 DEF EndCommands
<1>8. ASSUME NEW p \in tasks, Task(p) \/ TaskLost(p) PROVE TasksPassed'
  BY <1>8 DEF Task, TaskLost
<1>9. CASE SendBatch
  BY <1>9 DEF SendBatch
<1>10. CASE GiveUp
  BY <1>10 DEF GiveUp
<1>11. CASE SendSingle
  BY <1>11 DEF SendSingle
<1>12. CASE EndResponses
  BY <1>12 DEF EndResponses
<1>13. CASE AckBatch
  BY <1>13 DEF AckBatch
<1>14. CASE UNCHANGED batchVars
  BY <1>14 DEF batchVars
<1> QED
  BY <1>1, <1>2, <1>3, <1>4, <1>5, <1>6, <1>7, <1>8, <1>9, <1>10, <1>11, <1>12, <1>13, <1>14 DEF BatchNext

\* Where a step leaves the effects alone, and what they should be so far.
LEMMA SameEffects ==
    ASSUME UNCHANGED <<batch, owner, runs, keyed, receipts>>, failed' = 0 => failed = 0,
           \A p \in Positions : Done(p)' = Done(p),
           \A p \in Positions : batch[p].kind = Envelope => InEnvelope(p)' = InEnvelope(p),
           RunsSoFar, AnswersSoFar
    PROVE  (RunsSoFar /\ AnswersSoFar)'
<1>1. Positions' = Positions
  BY DEF Positions
<1>2. \A p : AloneRuns(p)' = AloneRuns(p) /\ AloneKeyed(p)' = AloneKeyed(p)
  BY DEF AloneRuns, AloneKeyed
<1>4. RunsSoFar'
  BY <1>1, <1>2 DEF RunsSoFar
<1>5. AnswersSoFar'
  BY <1>1, <1>2 DEF AnswersSoFar
<1> QED BY <1>4, <1>5

\* Where an entry gets what it would have got alone, or nothing where it is an envelope.
LEMMA OneIsDone ==
    ASSUME UNCHANGED <<batch, owner>>, NEW e \in Positions, NEW n \in Nat,
           n = IF batch[e].kind = Envelope THEN 0 ELSE AloneRuns(e),
           failed' = 0 => /\ failed = 0
                          /\ runs' = [runs EXCEPT ![e] = @ + n]
                          /\ keyed' = keyed \cup AloneKeyed(e)
                          /\ receipts' = receipts \cup AloneKeyed(e),
           ~Done(e), Done(e)',
           \A p \in Positions : p # e => Done(p)' = Done(p),
           \A p \in Positions : batch[p].kind = Envelope => InEnvelope(p)' = InEnvelope(p),
           RunsSoFar, AnswersSoFar
    PROVE  (RunsSoFar /\ AnswersSoFar)'
<1>1. Positions' = Positions
  BY DEF Positions
<1>2. \A p : AloneRuns(p)' = AloneRuns(p) /\ AloneKeyed(p)' = AloneKeyed(p)
  BY DEF AloneRuns, AloneKeyed
<1>3. ASSUME failed' = 0 PROVE runs' \in [Positions -> Nat]
  BY <1>3 DEF RunsSoFar
<1>4. ASSUME failed' = 0, NEW p \in Positions
      PROVE  runs'[p] = IF batch[p].kind = Envelope THEN InEnvelope(p)'
                        ELSE IF Done(p)' THEN AloneRuns(p) ELSE 0
  <2>r. runs \in [Positions -> Nat] /\ runs' = [runs EXCEPT ![e] = @ + n]
    BY <1>4 DEF RunsSoFar
  <2>s. runs[p] = IF batch[p].kind = Envelope THEN InEnvelope(p)
                  ELSE IF Done(p) THEN AloneRuns(p) ELSE 0
    BY <1>4 DEF RunsSoFar
  <2>1. CASE p = e
    <3>1. runs'[p] = runs[p] + n /\ runs[p] \in Nat
      BY <2>r, <2>1
    <3> QED BY <3>1, <2>s, <2>1
  <2>2. CASE p # e
    <3>1. runs'[p] = runs[p]
      BY <2>r, <2>2
    <3> QED BY <3>1, <2>s, <2>2
  <2> QED BY <2>1, <2>2
<1>5. RunsSoFar'
  BY <1>1, <1>2, <1>3, <1>4 DEF RunsSoFar
<1>6. ASSUME failed' = 0, NEW a
      PROVE  a \in keyed' <=> \E p \in Positions : Done(p)' /\ a \in AloneKeyed(p)
  <2>1. a \in keyed <=> \E p \in Positions : Done(p) /\ a \in AloneKeyed(p)
    BY <1>6 DEF AnswersSoFar
  <2>2. a \in keyed' <=> a \in keyed \/ a \in AloneKeyed(e)
    BY <1>6
  <2> QED BY <2>1, <2>2
<1>7. AnswersSoFar'
  BY <1>1, <1>2, <1>6 DEF AnswersSoFar
<1> QED BY <1>5, <1>7

\* An entry that runs a handler of its own, or is refused one.
LEMMA OneAnswers ==
    ASSUME UNCHANGED <<batch, owner>>, failed \in Nat, NEW e \in Positions, ForUs(batch[e]), Call(e), Answer(e),
           ~Done(e), Done(e)',
           \A p \in Positions : p # e => Done(p)' = Done(p),
           \A p \in Positions : batch[p].kind = Envelope => InEnvelope(p)' = InEnvelope(p),
           RunsSoFar, AnswersSoFar
    PROVE  (RunsSoFar /\ AnswersSoFar)'
<1> DEFINE n == Called(owner, batch[e])
<1>1. n \in Nat
  BY DEF Called
<1>2. n = IF batch[e].kind = Envelope THEN 0 ELSE AloneRuns(e)
  BY DEF ForUs, AloneRuns
<1>3. AloneKeyed(e) = Answers(owner, e, batch[e])
  BY DEF AloneKeyed
<1>4. failed' = 0 => /\ failed = 0
                     /\ runs' = [runs EXCEPT ![e] = @ + n]
                     /\ keyed' = keyed \cup AloneKeyed(e)
                     /\ receipts' = receipts \cup AloneKeyed(e)
  BY <1>3 DEF Call, Answer, Refuse
<1> HIDE DEF n
<1> QED BY <1>1, <1>2, <1>4, OneIsDone

LEMMA SoFarStep ==
    ASSUME BatchShapes, TasksPassed, RunsSoFar, AnswersSoFar, [BatchNext]_batchVars
    PROVE  (RunsSoFar /\ AnswersSoFar)'
<1>c. Cardinality(Subs) = 2
  BY TwoSubs
<1>p. /\ \A p \in Positions : p \in Nat /\ 1 <= p /\ p <= Len(batch)
      /\ \A q \in Nat : 1 <= q /\ q <= Len(batch) => q \in Positions
      /\ at \in Nat /\ 1 <= at /\ Len(batch) \in Nat /\ failed \in Nat
  BY DEF Positions, BatchShapes
<1> USE DEF given, sending, effects
<1>1. CASE NotAnEnvelope
  <2>1. /\ phase = "envelopes" /\ phase' = "envelopes" /\ at' = at + 1 /\ sub' = sub /\ batch[at].kind # Envelope
        /\ UNCHANGED <<batch, owner, tasks, runs, keyed, receipts, failed>>
    BY <1>1 DEF NotAnEnvelope, Working, Here, Advance
  <2>2. sub = 1
    BY <2>1 DEF BatchShapes
  <2>3. \A p \in Positions : batch[p].kind = Envelope => InEnvelope(p)' = InEnvelope(p)
    <3>1. \A p \in Positions : batch[p].kind = Envelope => p # at
      BY <2>1
    <3> QED BY <2>1, <2>2, <1>p, <3>1 DEF InEnvelope
  <2>4. \A p \in Positions : Done(p)' = Done(p)
    BY <2>1 DEF Done, Passed
  <2> QED BY <2>1, <2>3, <2>4, SameEffects
<1>2. CASE RunSub
  <2>1. /\ phase = "envelopes" /\ phase' = "envelopes" /\ batch[at].kind = Envelope
        /\ at \in Positions /\ sub \in {1, 2}
        /\ runs' = [runs EXCEPT ![at] = @ + 1]
        /\ IF sub = 2 THEN sub' = 1 /\ at' = at + 1 ELSE sub' = sub + 1 /\ at' = at
        /\ UNCHANGED <<batch, owner, tasks, keyed, receipts, failed>>
    BY <1>2, <1>p, <1>c DEF RunSub, Working, Here, BatchShapes, Subs
  <2>2. \A p \in Positions : ~Done(p) /\ ~Done(p)'
    BY <2>1 DEF Done, Passed
  <2>3. Positions' = Positions /\ \A p : AloneRuns(p)' = AloneRuns(p) /\ AloneKeyed(p)' = AloneKeyed(p)
    BY <2>1 DEF Positions, AloneRuns, AloneKeyed
  <2>4. AnswersSoFar'
    BY <2>1, <2>2, <2>3 DEF AnswersSoFar
  <2>5. ASSUME NEW p \in Positions, p = at PROVE InEnvelope(p) \in Nat /\ InEnvelope(p)' = InEnvelope(p) + 1
    <3>1. InEnvelope(p) = sub - 1
      BY <2>1, <2>5, <1>p DEF InEnvelope
    <3>2. InEnvelope(p)' = sub
      BY <2>1, <2>5, <1>p DEF InEnvelope
    <3> QED BY <3>1, <3>2, <2>1
  <2>6. \A p \in Positions : p # at => InEnvelope(p)' = InEnvelope(p)
    BY <2>1, <1>p DEF InEnvelope
  <2>7. ASSUME failed' = 0 PROVE runs' \in [Positions -> Nat]
    BY <2>7, <2>1 DEF RunsSoFar
  <2>8. ASSUME failed' = 0, NEW p \in Positions
        PROVE  runs'[p] = IF batch[p].kind = Envelope THEN InEnvelope(p)' ELSE 0
    <3>1. /\ runs \in [Positions -> Nat]
          /\ runs[p] = IF batch[p].kind = Envelope THEN InEnvelope(p) ELSE 0
      BY <2>8, <2>1, <2>2 DEF RunsSoFar
    <3>2. CASE p = at
      <4>1. runs'[p] = runs[p] + 1
        BY <3>1, <3>2, <2>1
      <4>2. runs[p] = InEnvelope(p)
        BY <3>1, <3>2, <2>1
      <4> QED BY <4>1, <4>2, <3>2, <2>1, <2>5
    <3>3. CASE p # at
      <4>1. runs'[p] = runs[p]
        BY <3>1, <3>3, <2>1
      <4> QED BY <4>1, <3>1, <3>3, <2>6
    <3> QED BY <3>2, <3>3
  <2>9. RunsSoFar'
    BY <2>1, <2>2, <2>3, <2>7, <2>8 DEF RunsSoFar
  <2> QED BY <2>4, <2>9
<1>3. CASE StartCommands
  <2>1. /\ phase = "envelopes" /\ phase' = "commands" /\ at > Len(batch) /\ at' = 1
        /\ UNCHANGED <<batch, owner, tasks, runs, keyed, receipts, failed>>
    BY <1>3 DEF StartCommands
  <2>3. \A p \in Positions : InEnvelope(p)' = InEnvelope(p)
    BY <2>1, <1>p DEF InEnvelope
  <2>4. \A p \in Positions : Done(p)' = Done(p)
    BY <2>1, <1>p DEF Done, Passed
  <2> QED BY <2>1, <2>3, <2>4, SameEffects
<1>s. ASSUME phase = "commands", phase' = "commands" PROVE \A p \in Positions : InEnvelope(p)' = InEnvelope(p)
  BY <1>s DEF InEnvelope
<1>o. ASSUME phase = "commands", phase' = "commands", at' = at + 1, UNCHANGED batch
      PROVE  /\ \A p \in Positions : p # at => Passed(p)' = Passed(p)
             /\ \A p \in Positions : p = at => ~Passed(p) /\ Passed(p)'
  BY <1>o, <1>p DEF Passed
<1>4. CASE Skip
  <2>1. /\ phase = "commands" /\ phase' = "commands" /\ at \in Positions /\ at' = at + 1
        /\ Skipped(batch[at])
        /\ UNCHANGED <<batch, owner, tasks, runs, keyed, receipts, failed>>
    BY <1>4, <1>p DEF Skip, Working, Here, Advance
  <2>p. PICK e \in Positions : e = at
    BY <2>1
  <2>2. e \notin tasks
    BY <2>1, <2>p, <1>o DEF TasksPassed
  <2>3. /\ ~Done(e) /\ Done(e)'
        /\ \A p \in Positions : p # e => Done(p)' = Done(p)
    BY <2>1, <2>p, <2>2, <1>o DEF Done
  <2>4. ~ForUs(batch[e])
    BY <2>1, <2>p DEF ForUs, Skipped, Elsewhere
  <2>5. AloneKeyed(e) = {} /\ (batch[e].kind # Envelope => AloneRuns(e) = 0)
    BY <2>4 DEF AloneKeyed, AloneRuns
  <2>6. ASSUME failed' = 0 PROVE runs' = [runs EXCEPT ![e] = @ + 0]
    BY <2>1, <2>6 DEF RunsSoFar
  <2>7. failed' = 0 => /\ failed = 0
                       /\ runs' = [runs EXCEPT ![e] = @ + 0]
                       /\ keyed' = keyed \cup AloneKeyed(e)
                       /\ receipts' = receipts \cup AloneKeyed(e)
    BY <2>1, <2>5, <2>6
  <2>8. 0 = IF batch[e].kind = Envelope THEN 0 ELSE AloneRuns(e)
    BY <2>5
  <2> QED BY <2>1, <2>3, <2>7, <2>8, <1>s, OneIsDone
<1>5. CASE Spawn
  <2>1. /\ phase = "commands" /\ phase' = "commands" /\ at' = at + 1
        /\ tasks' = tasks \cup {at}
        /\ UNCHANGED <<batch, owner, runs, keyed, receipts, failed>>
    BY <1>5 DEF Spawn, Working, Advance
  <2>2. \A p \in Positions : Done(p)' = Done(p)
    <3>1. \A p \in Positions : p # at => Done(p)' = Done(p)
      BY <2>1, <1>o DEF Done
    <3>2. \A p \in Positions : p = at => Done(p)' = Done(p)
      BY <2>1, <1>o DEF Done
    <3> QED BY <3>1, <3>2
  <2> QED BY <2>1, <2>2, <1>s, SameEffects
<1>6. CASE Inline
  <2>1. /\ phase = "commands" /\ phase' = "commands" /\ at \in Positions /\ at' = at + 1
        /\ ~Skipped(batch[at]) /\ Call(at) /\ Answer(at)
        /\ UNCHANGED <<batch, owner, tasks>>
    BY <1>6, <1>p DEF Inline, Working, Here, Advance
  <2>p. PICK e \in Positions : e = at
    BY <2>1
  <2>2. e \notin tasks
    BY <2>1, <2>p, <1>o DEF TasksPassed
  <2>3. /\ ~Done(e) /\ Done(e)'
        /\ \A p \in Positions : p # e => Done(p)' = Done(p)
    BY <2>1, <2>p, <2>2, <1>o DEF Done
  <2>4. ForUs(batch[e]) /\ Call(e) /\ Answer(e)
    BY <2>1, <2>p DEF ForUs, Skipped, Elsewhere
  <2> QED BY <2>1, <2>3, <2>4, <1>s, <1>p, OneAnswers
<1>7. CASE EndCommands
  <2>1. /\ phase = "commands" /\ phase' \in {"respond", "singly", "ack"} /\ at > Len(batch) /\ at' = at
        /\ UNCHANGED <<batch, owner, tasks, runs, keyed, receipts, failed>>
    BY <1>7 DEF EndCommands
  <2>2. \A p \in Positions : Done(p)' = Done(p)
    BY <2>1, <1>p DEF Done, Passed
  <2>3. \A p \in Positions : InEnvelope(p)' = InEnvelope(p)
    BY <2>1, <1>p DEF InEnvelope
  <2> QED BY <2>1, <2>2, <2>3, SameEffects
<1>8. ASSUME NEW p \in tasks, Task(p) PROVE (RunsSoFar /\ AnswersSoFar)'
  <2>1. /\ tasks' = tasks \ {p} /\ Call(p) /\ Answer(p)
        /\ UNCHANGED <<batch, owner, at, sub, phase>>
    BY <1>8 DEF Task
  <2>2. p \in Positions /\ Passed(p) /\ ForUs(batch[p])
    BY DEF TasksPassed
  <2>3. /\ \A q \in Positions : Passed(q)' = Passed(q)
        /\ \A q \in Positions : InEnvelope(q)' = InEnvelope(q)
    BY <2>1 DEF Passed, InEnvelope
  <2>4. /\ ~Done(p) /\ Done(p)'
        /\ \A q \in Positions : q # p => Done(q)' = Done(q)
    BY <2>1, <2>2, <2>3 DEF Done
  <2> QED BY <2>1, <2>2, <2>3, <2>4, <1>p, OneAnswers
<1>9. ASSUME NEW p \in tasks, TaskLost(p) PROVE (RunsSoFar /\ AnswersSoFar)'
  <2>1. failed' # 0
    BY <1>9, <1>p DEF TaskLost, Refuse
  <2> QED BY <2>1 DEF RunsSoFar, AnswersSoFar
<1>l. ASSUME phase \notin {"envelopes", "commands"}, phase' \notin {"envelopes", "commands"}, failed' = 0 => failed = 0,
             UNCHANGED <<batch, owner, tasks, runs, keyed, receipts>>
      PROVE  (RunsSoFar /\ AnswersSoFar)'
  <2>1. \A p \in Positions : Done(p)' = Done(p) /\ InEnvelope(p)' = InEnvelope(p)
    BY <1>l DEF Done, Passed, InEnvelope
  <2> QED BY <1>l, <2>1, SameEffects
<1>10. CASE SendBatch
  BY <1>10, <1>l, <1>p DEF SendBatch, Refuse
<1>11. CASE GiveUp
  BY <1>11, <1>l DEF GiveUp
<1>12. CASE SendSingle
  BY <1>12, <1>l, <1>p DEF SendSingle, Refuse
<1>13. CASE EndResponses
  BY <1>13, <1>l DEF EndResponses
<1>14. CASE AckBatch
  BY <1>14, <1>l DEF AckBatch
<1>15. CASE UNCHANGED batchVars
  <2>1. \A p \in Positions : Done(p)' = Done(p) /\ InEnvelope(p)' = InEnvelope(p)
    BY <1>15 DEF batchVars, Done, Passed, InEnvelope
  <2> QED BY <1>15, <2>1, SameEffects DEF batchVars
<1> QED
  BY <1>1, <1>2, <1>3, <1>4, <1>5, <1>6, <1>7, <1>8, <1>9, <1>10, <1>11, <1>12, <1>13, <1>14, <1>15 DEF BatchNext

LEMMA UnderTheStreamStep ==
    ASSUME BatchShapes, UnderTheStream, [BatchNext]_batchVars
    PROVE  UnderTheStream'
<1>1. ASSUME NEW p, owner # Served PROVE \A a \in Answers(owner, p, batch[p]) : a.site = owner
  BY <1>1, CommandsAssumption DEF Answers, AnswerAt, Caller, TenantOf, BatchShapes
<1>2. ASSUME NEW p, Answer(p), UNCHANGED owner PROVE UnderTheStream'
  BY <1>1, <1>2 DEF Answer, UnderTheStream
<1>3. ASSUME UNCHANGED <<owner, keyed, receipts>> PROVE UnderTheStream'
  BY <1>3 DEF UnderTheStream
<1> USE DEF given, sending, effects
<1>4. CASE NotAnEnvelope \/ StartCommands \/ Skip \/ Spawn \/ EndCommands
  BY <1>4, <1>3 DEF NotAnEnvelope, StartCommands, Skip, Spawn, EndCommands
<1>5. CASE RunSub
  BY <1>5, <1>3 DEF RunSub
<1>6. CASE Inline
  BY <1>6, <1>2 DEF Inline
<1>7. ASSUME NEW p \in tasks, Task(p) \/ TaskLost(p) PROVE UnderTheStream'
  BY <1>7, <1>2, <1>3 DEF Task, TaskLost
<1>8. CASE SendBatch \/ GiveUp \/ SendSingle \/ EndResponses \/ AckBatch
  BY <1>8, <1>3 DEF SendBatch, GiveUp, SendSingle, EndResponses, AckBatch
<1>9. CASE UNCHANGED batchVars
  BY <1>9, <1>3 DEF batchVars
<1> QED BY <1>4, <1>5, <1>6, <1>7, <1>8, <1>9 DEF BatchNext

BatchInv == BatchShapes /\ TasksPassed /\ RunsSoFar /\ AnswersSoFar /\ UnderTheStream

LEMMA BatchInvInit == BatchInit => BatchInv
<1> SUFFICES ASSUME BatchInit PROVE BatchInv
  OBVIOUS
<1>1. BatchShapes
  BY BatchShapesInit
<1>2. \A p \in Positions : ~Done(p) /\ InEnvelope(p) = 0
  BY <1>1 DEF BatchInit, Done, Passed, InEnvelope, BatchShapes, Positions
<1>3. TasksPassed /\ UnderTheStream
  BY DEF BatchInit, TasksPassed, UnderTheStream
<1>4. RunsSoFar
  BY <1>2 DEF BatchInit, RunsSoFar
<1>5. AnswersSoFar
  BY <1>2 DEF BatchInit, AnswersSoFar
<1> QED BY <1>1, <1>3, <1>4, <1>5 DEF BatchInv

LEMMA BatchInvImplies == BatchInv => BatchAsSingles
<1> SUFFICES ASSUME BatchInv PROVE BatchAsSingles
  OBVIOUS
<1>c. Cardinality(Subs) = 2
  BY TwoSubs
<1>1. ASSUME phase = "done", tasks = {}, failed = 0
      PROVE  /\ runs = [p \in Positions |-> AloneRuns(p)]
             /\ keyed = UNION {AloneKeyed(p) : p \in Positions}
             /\ receipts = keyed
  <2>1. \A p \in Positions : Done(p) /\ InEnvelope(p) = 2
    BY <1>1 DEF Done, Passed, InEnvelope
  <2>2. runs \in [Positions -> Nat] /\ \A p \in Positions : runs[p] = AloneRuns(p)
    BY <1>1, <1>c, <2>1 DEF BatchInv, RunsSoFar, AloneRuns
  <2>3. \A a : a \in keyed <=> \E p \in Positions : a \in AloneKeyed(p)
    BY <1>1, <2>1 DEF BatchInv, AnswersSoFar
  <2>4. receipts = keyed
    BY <1>1 DEF BatchInv, AnswersSoFar
  <2> QED BY <2>2, <2>3, <2>4
<1> QED BY <1>1 DEF BatchInv, BatchAsSingles, UnderTheStream

\* Whichever lanes the entries of a batch take, in whatever order their tasks end, every
\* entry has the effects it would have had alone when all is done and nothing failed; and
\* whatever fails, nothing is written under another tenant than that of the stream
\* (process_command_batch, concurrent_lane.rs, tenant_guard.rs).
THEOREM BatchesAreSingles == BatchSpec => []BatchAsSingles
<1>1. BatchInit => BatchInv
  BY BatchInvInit
<1>2. BatchInv /\ [BatchNext]_batchVars => BatchInv'
  BY BatchShapesStep, TasksPassedStep, SoFarStep, UnderTheStreamStep DEF BatchInv
<1>3. BatchInv => BatchAsSingles
  BY BatchInvImplies
<1> QED BY <1>1, <1>2, <1>3, PTL DEF BatchSpec

=============================================================================
