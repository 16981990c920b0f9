---------------------------- MODULE Relay_proofs ----------------------------
(***************************************************************************)
(* Proofs about the way of a command to who is to answer it: the placement *)
(* of a service it is routed to (RouteRing), for any ring and any weights, *)
(* the relay there and back (Relay), for any sets of workers, origins,     *)
(* correlation ids and services, any bounds and any number of faults, and  *)
(* the fields the command and its answer are carried in (CommandJourney),  *)
(* for any command in any of the spellings the parsers accept, and the     *)
(* formats its parameters pass through (RelayTranslation), for any formats *)
(* that lose nothing and can be told apart.                                *)
(***************************************************************************)
EXTENDS RouteRing, Relay, CommandJourney, RelayTranslation, FiniteSetTheorems, SequenceTheorems, NaturalsInduction, WellFoundedInduction, TLAPS

-----------------------------------------------------------------------------
(* Relay: the inductive invariant.                                         *)

\* What a worker holds at each of its steps.
Held ==
    /\ \A w \in Carriers :
        /\ step[w] # "idle" => hand[w].req \in Reqs
        /\ step[w] \in {"grant", "send"} => hand[w].svc \in Services
        /\ step[w] \notin {"idle", "verdict", "grant", "send"} => hand[w] \in Job
        /\ step[w] \in {"arrive", "credit"} => trip[w] \in Job
    /\ \A i \in Cids : sent[i] \in Job \cup {Empty}
    /\ \A r \in Reqs : asked[r] <= sends

\* Whoever may answer, has been asked to answer or is about to be heard was entrusted
\* with the command.
Entitled ==
    /\ \A r \in Reqs : IF grant[r] = Nothing THEN entrusted[r] = {} ELSE grant[r] \in entrusted[r]
    /\ \A j \in jobs : j.svc \in entrusted[j.req]
    /\ \A w \in Carriers : step[w] \in {"send", "key", "claim", "copy", "unclaim"} =>
           hand[w].svc \in entrusted[hand[w].req]

\* Each life of a marker is good for one worker that copies, one copy made or one more claim.
Holding(r)  == {w \in Carriers : step[w] \in {"copy", "unclaim"} /\ hand[w].req = r}
FreeMark(r) == IF marker[r] THEN 0 ELSE 1
Guarded ==
    \A r \in Reqs :
        /\ IsFiniteSet(Holding(r))
        /\ copies[r] + Cardinality(Holding(r)) + FreeMark(r) <= lives[r]

RelayInv == RelayTypeOK /\ Held /\ Entitled /\ Guarded

\* ValKey numbers what it is given: a forward's number is its own.
Numbered ==
    /\ \A j \in jobs : j.at <= clock
    /\ \A j, k \in jobs : j.at = k.at => j = k
    /\ \A e \in Entries : e > clock => answers[e] = 0

\* A departure is about to be noted, kept, taken for a trip or credited: never two of these.
NotesAt(w, e) == step[w] = "note" /\ hand[w].at = e
KeptAt(i, e)  == sent[i].at = e
TakenAt(w, e) == step[w] \in {"arrive", "credit"} /\ trip[w].at = e
Once(e) ==
    /\ credited[e] <= 1
    /\ e > clock => credited[e] = 0
    /\ \A w \in Carriers : NotesAt(w, e) \/ TakenAt(w, e) => credited[e] = 0 /\ e <= clock
    /\ \A i \in Cids : KeptAt(i, e) => credited[e] = 0 /\ e <= clock
    /\ \A i, k \in Cids : KeptAt(i, e) /\ KeptAt(k, e) => i = k
    /\ \A i \in Cids, w \in Carriers : KeptAt(i, e) => ~NotesAt(w, e) /\ ~TakenAt(w, e)
    /\ \A v, w \in Carriers : NotesAt(v, e) => ~TakenAt(w, e) /\ (NotesAt(w, e) => v = w)
    /\ \A v, w \in Carriers : TakenAt(v, e) /\ TakenAt(w, e) => v = w
DepartsOnce == \A e \in Entries : Once(e)

\* Without faults: a marker stands for a copy made or about to be made, and an answer
\* that was written is still to be read, on its way, refused or copied.
Copying(r) == copies[r] > 0 \/ \E w \in Carriers : step[w] = "copy" /\ hand[w].req = r
OnTheWay(r) ==
    \/ Copying(r) \/ \E p \in refused \cup replies : p.req = r
    \/ \E w \in Carriers : step[w] \in {"key", "claim"} /\ hand[w].req = r
NotLost ==
    relayFaults = 0 =>
        /\ \A w \in Carriers : step[w] # "unclaim"
        /\ \A r \in Reqs : marker[r] => Copying(r)
        /\ \A j \in jobs : answers[j.at] > 0 => OnTheWay(j.req)

RelayIInv == RelayInv /\ Numbered /\ DepartsOnce /\ NotLost

-----------------------------------------------------------------------------
(* Types.                                                                  *)

LEMMA IdOfReq == \A r \in Reqs : Id(r) \in Cids
BY DEF Reqs, Id

LEMMA EntryNumbers == Entries \subseteq Nat \ {0}
BY RelayBounds DEF Entries

LEMMA EmptyHand == Empty \in Hand /\ Empty.at = 0 /\ Empty.svc = Nothing /\ Empty \notin Job
BY EntryNumbers DEF Empty, Hand, Job

LEMMA JobsAreHands == Job \subseteq Hand
BY DEF Hand, Job

LEMMA RelayTypeInit == RelayInit => RelayTypeOK /\ Held
BY RelayBounds, EmptyHand DEF RelayInit, RelayTypeOK, Held, Steps

LEMMA FaultCounted == RelayTypeOK /\ Fault => relayFaults' \in 0 .. MaxRelayFaults
BY RelayBounds DEF RelayTypeOK, Fault

LEMMA EntryCounted ==
    RelayTypeOK /\ clock + 1 \in Entries =>
        clock + 1 \in 0 .. MaxSends + MaxAnswers + MaxRelayFaults
BY RelayBounds DEF RelayTypeOK, Entries

LEMMA CountedUp ==
    ASSUME NEW S, NEW f \in [S -> Nat], NEW x \in S
    PROVE  [f EXCEPT ![x] = @ + 1] \in [S -> Nat]
OBVIOUS

LEMMA LivesUp ==
    ASSUME NEW S, NEW f \in [S -> Nat \ {0}], NEW x \in S
    PROVE  [f EXCEPT ![x] = @ + 1] \in [S -> Nat \ {0}]
OBVIOUS

LEMMA StampedIsJob ==
    ASSUME NEW h, NEW e \in Entries, h.req \in Reqs, h.svc \in Services
    PROVE  Stamped(h, e) \in Job /\ Stamped(h, e).req = h.req /\ Stamped(h, e).svc = h.svc
           /\ Stamped(h, e).at = e
BY DEF Stamped, Job

LEMMA RelayTypeStep == RelayTypeOK /\ Held /\ [RelayNext]_relayVars => RelayTypeOK' /\ Held'
<1> SUFFICES ASSUME RelayTypeOK, Held, [RelayNext]_relayVars PROVE RelayTypeOK' /\ Held'
  OBVIOUS
<1> USE PartiesAssumption, IdOfReq, EmptyHand, JobsAreHands, FaultCounted, EntryCounted
<1> USE DEF RelayTypeOK, Held, Steps, Go, Finish, Onward, Ready, Mine, streams, forward, timing, home, worker
<1>1. ASSUME NEW w \in Carriers, NEW r \in Reqs, Resolve(w, r) PROVE RelayTypeOK' /\ Held'
  <2> DEFINE less == [asked EXCEPT ![r] = @ - 1]
  <2>1. less \in [Reqs -> 0 .. MaxSends] /\ \A q \in Reqs : less[q] <= sends
    BY <1>1, RelayBounds DEF Resolve
  <2>2. asked' = less
    BY <1>1 DEF Resolve
  <2> HIDE DEF less
  <2>3. [req |-> r, svc |-> Nothing, at |-> 0] \in Hand
        /\ \A s \in Services : [req |-> r, svc |-> s, at |-> 0] \in Hand
    BY DEF Hand
  <2>4. RelayTypeOK'
    BY <1>1, <2>1, <2>2, <2>3 DEF Resolve
  <2>5. Held'
    BY <1>1, <2>1, <2>2 DEF Resolve
  <2>6. QED BY <2>4, <2>5
<1>2. ASSUME NEW w \in Carriers, Verdict(w) PROVE RelayTypeOK' /\ Held'
  BY <1>2 DEF Verdict
<1>3. ASSUME NEW w \in Carriers, Grant(w) PROVE RelayTypeOK' /\ Held'
  BY <1>3 DEF Grant
<1>4. ASSUME NEW w \in Carriers, Send(w) PROVE RelayTypeOK' /\ Held'
  <2>1. RelayTypeOK'
    BY <1>4, StampedIsJob DEF Send
  <2>2. Held'
    BY <1>4, StampedIsJob DEF Send
  <2>3. QED BY <2>1, <2>2
<1>5. ASSUME NEW w \in Carriers, Note(w) PROVE RelayTypeOK' /\ Held'
  BY <1>5 DEF Note
<1>6. ASSUME NEW w \in Carriers, Depart(w) PROVE RelayTypeOK' /\ Held'
  BY <1>6 DEF Depart, Job
<1>7. ASSUME NEW w \in Carriers, NEW p \in replies, Collect(w, p) PROVE RelayTypeOK' /\ Held'
  BY <1>7 DEF Collect, Job
<1>8. ASSUME NEW w \in Carriers, Key(w) PROVE RelayTypeOK' /\ Held'
  BY <1>8 DEF Key, Job
<1>9. ASSUME NEW w \in Carriers, Claim(w) PROVE RelayTypeOK' /\ Held'
  <2>1. RelayTypeOK'
    BY <1>9 DEF Claim
  <2>2. Held'
    BY <1>9 DEF Claim
  <2>3. QED BY <2>1, <2>2
<1>10. ASSUME NEW w \in Carriers, Copy(w) PROVE RelayTypeOK' /\ Held'
  <2>. [copies EXCEPT ![Mine(w)] = @ + 1] \in [Reqs -> Nat]
    BY <1>10, CountedUp DEF Copy
  <2>1. RelayTypeOK'
    BY <1>10 DEF Copy
  <2>2. Held'
    BY <1>10 DEF Copy
  <2> QED BY <2>1, <2>2
<1>11. ASSUME NEW w \in Carriers, Unclaim(w) PROVE RelayTypeOK' /\ Held'
  BY <1>11 DEF Unclaim
<1>12. ASSUME NEW w \in Carriers, Take(w) PROVE RelayTypeOK' /\ Held'
  BY <1>12 DEF Take
<1>13. ASSUME NEW w \in Carriers, Arrive(w) PROVE RelayTypeOK' /\ Held'
  BY <1>13 DEF Arrive
<1>14. ASSUME NEW w \in Carriers, Credit(w) PROVE RelayTypeOK' /\ Held'
  <2>. trip[w].at \in Entries
    BY <1>14 DEF Credit, Job
  <2>. [credited EXCEPT ![trip[w].at] = @ + 1] \in [Entries -> Nat]
    BY CountedUp
  <2>1. RelayTypeOK'
    BY <1>14 DEF Credit
  <2>2. Held'
    BY <1>14 DEF Credit
  <2> QED BY <2>1, <2>2
<1>15. ASSUME NEW w \in Carriers, Die(w) PROVE RelayTypeOK' /\ Held'
  BY <1>15 DEF Die
<1>16. ASSUME NEW r \in Reqs, Ask(r) PROVE RelayTypeOK' /\ Held'
  <2> DEFINE more == [asked EXCEPT ![r] = @ + 1]
  <2>1. more \in [Reqs -> 0 .. MaxSends] /\ (\A q \in Reqs : more[q] <= sends + 1) /\ sends + 1 \in 0 .. MaxSends
    BY <1>16, RelayBounds DEF Ask
  <2>2. asked' = more /\ sends' = sends + 1
    BY <1>16 DEF Ask
  <2> HIDE DEF more
  <2>3. QED BY <1>16, <2>1, <2>2 DEF Ask
<1>17. ASSUME NEW r \in Reqs, ForgetReply(r) \/ LapseMarker(r) PROVE RelayTypeOK' /\ Held'
  <2>1. CASE ForgetReply(r)
    BY <2>1 DEF ForgetReply
  <2>2. CASE LapseMarker(r)
    <3> DEFINE more == [lives EXCEPT ![r] = @ + 1]
    <3>1. more \in [Reqs -> Nat \ {0}]
      BY LivesUp
    <3>2. lives' = more /\ marker' \in [Reqs -> BOOLEAN]
      BY <2>2 DEF LapseMarker
    <3> HIDE DEF more
    <3>3. RelayTypeOK'
      BY <2>2, <3>1, <3>2 DEF LapseMarker
    <3>4. Held'
      BY <2>2 DEF LapseMarker
    <3>5. QED BY <3>3, <3>4
  <2>3. QED BY <1>17, <2>1, <2>2
<1>18. ASSUME NEW j \in jobs, Reply(j) PROVE RelayTypeOK' /\ Held'
  <2>. j.at \in Entries /\ j.req \in Reqs /\ j.svc \in Services
    BY DEF Job
  <2>. [answers EXCEPT ![j.at] = @ + 1] \in [Entries -> Nat]
    BY CountedUp
  <2>. clock + 1 \in Entries => Stamped(j, clock + 1) \in Job
    BY StampedIsJob
  <2>1. RelayTypeOK'
    BY <1>18 DEF Reply
  <2>2. Held'
    BY <1>18 DEF Reply
  <2> QED BY <2>1, <2>2
<1>19. ASSUME NEW s \in Services, NEW r \in Reqs, Misdirect(s, r) PROVE RelayTypeOK' /\ Held'
  <2>1. RelayTypeOK'
    BY <1>19 DEF Misdirect, Job
  <2>2. Held'
    BY <1>19 DEF Misdirect, Job
  <2>3. QED BY <2>1, <2>2
<1>20. CASE UNCHANGED relayVars
  BY <1>20 DEF relayVars
<1>21. QED
  BY <1>1, <1>2, <1>3, <1>4, <1>5, <1>6, <1>7, <1>8, <1>9, <1>10, <1>11, <1>12, <1>13, <1>14,
     <1>15, <1>16, <1>17, <1>18, <1>19, <1>20 DEF RelayNext, RelayStep

-----------------------------------------------------------------------------
(* Who is entitled to answer.                                              *)

LEMMA EntitledStep ==
    RelayTypeOK /\ Held /\ Entitled /\ [RelayNext]_relayVars => Entitled'
<1> SUFFICES ASSUME RelayTypeOK, Held, Entitled, [RelayNext]_relayVars PROVE Entitled'
  OBVIOUS
<1> USE PartiesAssumption, EmptyHand
<1> USE DEF RelayTypeOK, Held, Entitled, Steps, Go, Finish, Onward, Ready, Mine, streams, forward, worker
<1>1. ASSUME NEW w \in Carriers, NEW r \in Reqs, Resolve(w, r) PROVE Entitled'
  BY <1>1 DEF Resolve
<1>2. ASSUME NEW w \in Carriers, Grant(w) PROVE Entitled'
  BY <1>2 DEF Grant, Job
<1>3. ASSUME NEW w \in Carriers, Send(w) PROVE Entitled'
  BY <1>3 DEF Send, Stamped, Job
<1>4. ASSUME NEW w \in Carriers, NEW p \in replies, Collect(w, p) PROVE Entitled'
  BY <1>4 DEF Collect, Granted, Job
<1>5. ASSUME NEW w \in Carriers, Key(w) \/ Claim(w) \/ Copy(w) \/ Unclaim(w) PROVE Entitled'
  BY <1>5 DEF Key, Claim, Copy, Unclaim
<1>6. ASSUME NEW w \in Carriers, Take(w) \/ Arrive(w) \/ Credit(w) PROVE Entitled'
  BY <1>6 DEF Take, Arrive, Credit
<1>7. ASSUME NEW w \in Carriers, Verdict(w) \/ Note(w) \/ Depart(w) \/ Die(w) PROVE Entitled'
  BY <1>7 DEF Verdict, Note, Depart, Die
<1>8. ASSUME NEW r \in Reqs, Ask(r) \/ ForgetReply(r) \/ LapseMarker(r) PROVE Entitled'
  BY <1>8 DEF Ask, ForgetReply, LapseMarker
<1>9. ASSUME NEW j \in jobs, Reply(j) PROVE Entitled'
  BY <1>9 DEF Reply
<1>10. ASSUME NEW s \in Services, NEW r \in Reqs, Misdirect(s, r) PROVE Entitled'
  BY <1>10 DEF Misdirect
<1>11. CASE UNCHANGED relayVars
  BY <1>11 DEF relayVars
<1>12. QED
  BY <1>1, <1>2, <1>3, <1>4, <1>5, <1>6, <1>7, <1>8, <1>9, <1>10, <1>11 DEF RelayNext, RelayStep

-----------------------------------------------------------------------------
(* The lives of the markers.                                               *)

\* A step of one worker adds nobody else to the holders of a marker and removes nobody else.
LEMMA HoldersMove ==
    ASSUME RelayTypeOK, NEW w \in Carriers, NEW k, NEW r \in Reqs,
           step' = [step EXCEPT ![w] = k],
           \A v \in Carriers \ {w} : hand'[v] = hand[v]
    PROVE  Holding(r)' = IF k \in {"copy", "unclaim"} /\ hand'[w].req = r
                         THEN Holding(r) \cup {w} ELSE Holding(r) \ {w}
BY DEF RelayTypeOK, Holding

\* A worker that is neither copying nor releasing after its step holds no more than before.
LEMMA HoldersLeave ==
    ASSUME RelayTypeOK, Guarded, NEW w \in Carriers, NEW k,
           k \notin {"copy", "unclaim"},
           step' = [step EXCEPT ![w] = k],
           \A v \in Carriers \ {w} : hand'[v] = hand[v]
    PROVE  \A r \in Reqs :
              /\ IsFiniteSet(Holding(r)') /\ Cardinality(Holding(r)') \in Nat
              /\ Cardinality(Holding(r)') <= Cardinality(Holding(r))
              /\ w \in Holding(r) => Cardinality(Holding(r)') = Cardinality(Holding(r)) - 1
<1> TAKE r \in Reqs
<1>1. Holding(r)' = Holding(r) \ {w}
  BY HoldersMove
<1>2. IsFiniteSet(Holding(r)) /\ Cardinality(Holding(r)) \in Nat
  BY FS_CardinalityType DEF Guarded
<1>3. CASE w \in Holding(r)
  <2>1. IsFiniteSet(Holding(r) \ {w}) /\ Cardinality(Holding(r) \ {w}) = Cardinality(Holding(r)) - 1
    BY <1>2, <1>3, FS_RemoveElement
  <2>2. Cardinality(Holding(r) \ {w}) \in Nat
    BY <2>1, FS_CardinalityType
  <2>3. QED BY <1>1, <1>2, <1>3, <2>1, <2>2
<1>4. CASE w \notin Holding(r)
  <2>1. Holding(r)' = Holding(r)
    BY <1>1, <1>4
  <2>2. QED BY <2>1, <1>2, <1>4
<1>5. QED BY <1>3, <1>4

LEMMA GuardedInit == RelayInit => Guarded
<1> SUFFICES ASSUME RelayInit, NEW r \in Reqs
             PROVE  IsFiniteSet(Holding(r)) /\ copies[r] + Cardinality(Holding(r)) + FreeMark(r) <= lives[r]
  BY DEF Guarded
<1>1. Holding(r) = {}
  BY DEF RelayInit, Holding
<1>2. IsFiniteSet({}) /\ Cardinality({}) = 0
  BY FS_EmptySet
<1>3. QED BY <1>1, <1>2 DEF RelayInit, FreeMark

LEMMA GuardedStep ==
    RelayTypeOK /\ Held /\ Guarded /\ [RelayNext]_relayVars => Guarded'
<1> SUFFICES ASSUME RelayTypeOK, Held, Guarded, [RelayNext]_relayVars PROVE Guarded'
  OBVIOUS
<1>a. \A r \in Reqs : IsFiniteSet(Holding(r)) /\ Cardinality(Holding(r)) \in Nat
  BY FS_CardinalityType DEF Guarded
<1>b. \A r \in Reqs : copies[r] \in Nat /\ lives[r] \in Nat /\ marker[r] \in BOOLEAN
  BY DEF RelayTypeOK
<1>c. \A r \in Reqs : copies[r] + Cardinality(Holding(r)) + FreeMark(r) <= lives[r]
  BY DEF Guarded
\* A step of a worker that neither claims, copies nor releases.
<1>d. ASSUME NEW w \in Carriers, NEW k, k \notin {"copy", "unclaim"},
             step' = [step EXCEPT ![w] = k], \A v \in Carriers \ {w} : hand'[v] = hand[v],
             UNCHANGED <<marker, copies, lives>>
      PROVE  Guarded'
  <2> SUFFICES ASSUME NEW r \in Reqs
               PROVE  IsFiniteSet(Holding(r)') /\ copies[r] + Cardinality(Holding(r)') + FreeMark(r)' <= lives[r]
    BY <1>d DEF Guarded
  <2>1. IsFiniteSet(Holding(r)') /\ Cardinality(Holding(r)') \in Nat
        /\ Cardinality(Holding(r)') <= Cardinality(Holding(r))
    BY <1>d, HoldersLeave
  <2>2. QED BY <1>a, <1>b, <1>c, <1>d, <2>1 DEF FreeMark
<1>1. ASSUME NEW w \in Carriers, NEW r \in Reqs, Resolve(w, r) PROVE Guarded'
  BY <1>1, <1>d DEF Resolve, Go, home, RelayTypeOK
<1>2. ASSUME NEW w \in Carriers, Verdict(w) \/ Grant(w) \/ Send(w) \/ Note(w) \/ Depart(w) PROVE Guarded'
  BY <1>2, <1>d DEF Verdict, Grant, Send, Note, Depart, Go, Onward, Finish, home, RelayTypeOK
<1>3. ASSUME NEW w \in Carriers, NEW p \in replies, Collect(w, p) PROVE Guarded'
  BY <1>3, <1>d DEF Collect, Go, home, RelayTypeOK
<1>4. ASSUME NEW w \in Carriers, Key(w) \/ Take(w) \/ Arrive(w) \/ Credit(w) \/ Die(w) PROVE Guarded'
  BY <1>4, <1>d DEF Key, Take, Arrive, Credit, Die, Go, Onward, Finish, home, RelayTypeOK
<1>5. ASSUME NEW w \in Carriers, Claim(w) PROVE Guarded'
  <2>1. CASE marker[Mine(w)]
    BY <1>5, <2>1, <1>d DEF Claim, Go, Onward, RelayTypeOK
  <2>2. CASE ~marker[Mine(w)]
    <3> SUFFICES ASSUME NEW r \in Reqs
                 PROVE  IsFiniteSet(Holding(r)') /\ copies[r] + Cardinality(Holding(r)') + FreeMark(r)' <= lives[r]
      BY <1>5 DEF Guarded, Claim
    <3>1. step[w] = "claim" /\ step' = [step EXCEPT ![w] = "copy"] /\ hand' = hand
          /\ Mine(w) \in Reqs /\ marker' = [marker EXCEPT ![Mine(w)] = TRUE]
      BY <1>5, <2>2 DEF Claim, Ready, Go, Onward, Held, Mine
    <3>2. w \notin Holding(r)
      BY <3>1 DEF Holding
    <3>3. Holding(r)' = IF Mine(w) = r THEN Holding(r) \cup {w} ELSE Holding(r) \ {w}
      BY <3>1, HoldersMove DEF Mine
    <3>4. CASE Mine(w) = r
      <4>1. IsFiniteSet(Holding(r)') /\ Cardinality(Holding(r)') = Cardinality(Holding(r)) + 1
        BY <1>a, <3>2, <3>3, <3>4, FS_AddElement
      <4>2. FreeMark(r) = 1 /\ FreeMark(r)' = 0
        BY <2>2, <3>1, <3>4 DEF FreeMark, RelayTypeOK
      <4>3. QED BY <1>a, <1>b, <1>c, <4>1, <4>2
    <3>5. CASE Mine(w) # r
      <4>1. Holding(r)' = Holding(r)
        BY <3>2, <3>3, <3>5
      <4>2. FreeMark(r)' = FreeMark(r)
        BY <3>1, <3>5 DEF FreeMark, RelayTypeOK
      <4>3. QED BY <1>a, <1>c, <4>1, <4>2
    <3>6. QED BY <3>4, <3>5
  <2>3. QED BY <2>1, <2>2
<1>6. ASSUME NEW w \in Carriers, Copy(w) PROVE Guarded'
  <2> SUFFICES ASSUME NEW r \in Reqs
               PROVE  IsFiniteSet(Holding(r)') /\ copies'[r] + Cardinality(Holding(r)') + FreeMark(r) <= lives[r]
    BY <1>6 DEF Guarded, Copy, FreeMark
  <2>1. step[w] = "copy" /\ Mine(w) \in Reqs /\ hand' = hand
    BY <1>6 DEF Copy, Ready, Onward, Held, Mine
  <2>2. CASE copies' = [copies EXCEPT ![Mine(w)] = @ + 1] /\ step' = [step EXCEPT ![w] = "take"]
    <3>1. IsFiniteSet(Holding(r)') /\ Cardinality(Holding(r)') \in Nat
          /\ Cardinality(Holding(r)') <= Cardinality(Holding(r))
          /\ (w \in Holding(r) => Cardinality(Holding(r)') = Cardinality(Holding(r)) - 1)
      BY <2>1, <2>2, HoldersLeave
    <3>2. CASE Mine(w) = r
      <4>1. w \in Holding(r) /\ copies'[r] = copies[r] + 1
        BY <2>1, <2>2, <3>2 DEF Holding, Mine, RelayTypeOK
      <4>2. QED BY <1>a, <1>b, <1>c, <3>1, <4>1 DEF FreeMark
    <3>3. CASE Mine(w) # r
      <4>1. copies'[r] = copies[r]
        BY <2>1, <2>2, <3>3 DEF RelayTypeOK
      <4>2. QED BY <1>a, <1>b, <1>c, <3>1, <4>1 DEF FreeMark
    <3>4. QED BY <3>2, <3>3
  <2>3. CASE copies' = copies /\ step' = [step EXCEPT ![w] = "unclaim"]
    <3>1. Holding(r)' = Holding(r)
      BY <2>1, <2>3, HoldersMove DEF Holding, Mine
    <3>2. QED BY <1>a, <1>c, <2>3, <3>1
  <2>4. QED BY <1>6, <2>2, <2>3 DEF Copy, Onward, Go
<1>7. ASSUME NEW w \in Carriers, Unclaim(w) PROVE Guarded'
  <2> SUFFICES ASSUME NEW r \in Reqs
               PROVE  IsFiniteSet(Holding(r)') /\ copies[r] + Cardinality(Holding(r)') + FreeMark(r)' <= lives[r]
    BY <1>7 DEF Guarded, Unclaim
  <2>1. step[w] = "unclaim" /\ Mine(w) \in Reqs /\ hand' = hand /\ step' = [step EXCEPT ![w] = "take"]
        /\ marker' = [marker EXCEPT ![Mine(w)] = FALSE]
    BY <1>7 DEF Unclaim, Ready, Onward, Go, Held, Mine
  <2>2. IsFiniteSet(Holding(r)') /\ Cardinality(Holding(r)') \in Nat
        /\ Cardinality(Holding(r)') <= Cardinality(Holding(r))
        /\ (w \in Holding(r) => Cardinality(Holding(r)') = Cardinality(Holding(r)) - 1)
    BY <2>1, HoldersLeave
  <2>3. CASE Mine(w) = r
    <3>1. w \in Holding(r)
      BY <2>1, <2>3 DEF Holding, Mine
    <3>2. QED BY <1>a, <1>b, <1>c, <2>2, <3>1 DEF FreeMark
  <2>4. CASE Mine(w) # r
    <3>1. marker'[r] = marker[r]
      BY <2>1, <2>4 DEF RelayTypeOK
    <3>2. QED BY <1>a, <1>b, <1>c, <2>2, <3>1 DEF FreeMark
  <2>5. QED BY <2>3, <2>4
<1>8. ASSUME UNCHANGED <<step, hand, marker, copies, lives>> PROVE Guarded'
  BY <1>8 DEF Guarded, Holding, FreeMark
<1>9. ASSUME NEW r \in Reqs, LapseMarker(r) PROVE Guarded'
  <2> SUFFICES ASSUME NEW q \in Reqs
               PROVE  IsFiniteSet(Holding(q)') /\ copies[q] + Cardinality(Holding(q)') + FreeMark(q)' <= lives'[q]
    BY <1>9 DEF Guarded, LapseMarker
  <2>1. Holding(q)' = Holding(q)
    BY <1>9 DEF Holding, LapseMarker, worker
  <2>2. (q = r => lives'[q] = lives[q] + 1) /\ (q # r => lives'[q] = lives[q] /\ marker'[q] = marker[q])
    BY <1>9 DEF LapseMarker, RelayTypeOK
  <2>3. (q = r) => FreeMark(q) = 0
    BY <1>9 DEF LapseMarker, FreeMark
  <2>4. QED BY <1>a, <1>b, <1>c, <2>1, <2>2, <2>3 DEF FreeMark
<1>10. QED
  <2>1. CASE RelayNext
    <3>1. ASSUME NEW r \in Reqs, Ask(r) \/ ForgetReply(r) PROVE Guarded'
      BY <3>1, <1>8 DEF Ask, ForgetReply, home, worker
    <3>2. ASSUME NEW j \in jobs, Reply(j) PROVE Guarded'
      BY <3>2, <1>8 DEF Reply, home, worker
    <3>3. ASSUME NEW s \in Services, NEW r \in Reqs, Misdirect(s, r) PROVE Guarded'
      BY <3>3, <1>8 DEF Misdirect, home, worker
    <3>4. QED
      BY <2>1, <1>1, <1>2, <1>3, <1>4, <1>5, <1>6, <1>7, <1>9, <3>1, <3>2, <3>3 DEF RelayNext, RelayStep
  <2>2. QED BY <2>1, <1>8 DEF relayVars

-----------------------------------------------------------------------------
(* The invariant, the promise to the origin and the welcome of answers.    *)

LEMMA RelayInvInit == RelayInit => RelayInv
<1>1. RelayInit => Entitled
  BY PartiesAssumption DEF RelayInit, Entitled
<1>2. QED BY <1>1, RelayTypeInit, GuardedInit DEF RelayInv

LEMMA RelayInvStep == RelayInv /\ [RelayNext]_relayVars => RelayInv'
BY RelayTypeStep, EntitledStep, GuardedStep DEF RelayInv

LEMMA RelayInvariance == RelaySpec => []RelayInv
BY RelayInvInit, RelayInvStep, PTL DEF RelaySpec

\* Every variable of the relay keeps its type, whatever is sent, answered and lost.
THEOREM RelayTypeCorrect == RelaySpec => []RelayTypeOK
<1>1. RelayInv => RelayTypeOK
  BY DEF RelayInv
<1>2. QED BY <1>1, RelayInvariance, PTL

LEMMA PromiseInit == RelayInit => Carrier!Init
BY DEF RelayInit, Carrier!Init

\* Each of the relay's steps is one of its promise's, or none of them.
LEMMA PromiseStep == RelayInv /\ [RelayNext]_relayVars => [Carrier!Next]_Carrier!carried
<1> SUFFICES ASSUME RelayInv, [RelayNext]_relayVars PROVE [Carrier!Next]_Carrier!carried
  OBVIOUS
<1> USE DEF forward, home, Mine, Ready
<1>a. ASSUME UNCHANGED <<entrusted, res, copies, lives>> PROVE [Carrier!Next]_Carrier!carried
  BY <1>a DEF Carrier!carried
<1>1. ASSUME NEW w \in Carriers, NEW r \in Reqs, Resolve(w, r) PROVE [Carrier!Next]_Carrier!carried
  BY <1>1, <1>a DEF Resolve
<1>2. ASSUME NEW w \in Carriers, Verdict(w) PROVE [Carrier!Next]_Carrier!carried
  <2>1. hand[w].req \in Reqs
    BY <1>2 DEF Verdict, RelayInv, Held
  <2>2. Carrier!Refuse(hand[w].req)
    BY <1>2 DEF Verdict, Carrier!Refuse
  <2>3. QED BY <2>1, <2>2 DEF Carrier!Next
<1>3. ASSUME NEW w \in Carriers, Grant(w) PROVE [Carrier!Next]_Carrier!carried
  <2>1. hand[w].req \in Reqs /\ hand[w].svc \in Services
    BY <1>3 DEF Grant, RelayInv, Held
  <2>2. Carrier!Entrust(hand[w].req, hand[w].svc)
    BY <1>3 DEF Grant, Carrier!Entrust
  <2>3. QED BY <2>1, <2>2 DEF Carrier!Next
<1>4. ASSUME NEW w \in Carriers, Send(w) \/ Note(w) \/ Depart(w) PROVE [Carrier!Next]_Carrier!carried
  BY <1>4, <1>a DEF Send, Note, Depart
<1>5. ASSUME NEW w \in Carriers, NEW p \in replies, Collect(w, p) PROVE [Carrier!Next]_Carrier!carried
  BY <1>5, <1>a DEF Collect
<1>6. ASSUME NEW w \in Carriers, Key(w) PROVE [Carrier!Next]_Carrier!carried
  <2>1. hand[w].req \in Reqs /\ hand[w].svc \in Services /\ hand[w].svc \in entrusted[hand[w].req]
    BY <1>6 DEF Key, RelayInv, Held, Entitled, Job
  <2>2. Carrier!Answer(hand[w].req, hand[w].svc)
    BY <1>6, <2>1 DEF Key, Carrier!Answer
  <2>3. QED BY <2>1, <2>2 DEF Carrier!Next
<1>7. ASSUME NEW w \in Carriers, Claim(w) \/ Unclaim(w) \/ Take(w) \/ Arrive(w) \/ Credit(w) \/ Die(w)
      PROVE  [Carrier!Next]_Carrier!carried
  BY <1>7, <1>a DEF Claim, Unclaim, Take, Arrive, Credit, Die
<1>8. ASSUME NEW w \in Carriers, Copy(w) PROVE [Carrier!Next]_Carrier!carried
  <2>1. CASE UNCHANGED copies
    BY <1>8, <2>1, <1>a DEF Copy
  <2>2. CASE copies' = [copies EXCEPT ![Mine(w)] = @ + 1]
    <3> DEFINE r == hand[w].req
    <3>1. r \in Reqs /\ entrusted[r] # {}
      BY <1>8 DEF Copy, RelayInv, Held, Entitled
    <3>2. copies[r] < lives[r]
      <4>1. w \in Holding(r) /\ IsFiniteSet(Holding(r))
        BY <1>8, <3>1 DEF Copy, Holding, RelayInv, Guarded
      <4>2. Cardinality(Holding(r)) \in Nat /\ Cardinality(Holding(r)) # 0
        BY <4>1, FS_CardinalityType, FS_EmptySet
      <4>3. copies[r] + Cardinality(Holding(r)) + FreeMark(r) <= lives[r]
            /\ copies[r] \in Nat /\ lives[r] \in Nat /\ FreeMark(r) \in Nat
        BY <3>1 DEF RelayInv, Guarded, RelayTypeOK, FreeMark
      <4>4. QED BY <4>2, <4>3
    <3>3. Carrier!Copy(r)
      BY <1>8, <2>2, <3>1, <3>2 DEF Copy, Carrier!Copy
    <3>4. QED BY <3>1, <3>3 DEF Carrier!Next
  <2>3. QED BY <1>8, <2>1, <2>2 DEF Copy
<1>9. ASSUME NEW r \in Reqs, Ask(r) PROVE [Carrier!Next]_Carrier!carried
  BY <1>9, <1>a DEF Ask
<1>10. ASSUME NEW r \in Reqs, ForgetReply(r) PROVE [Carrier!Next]_Carrier!carried
  <2>1. Carrier!Forget(r)
    BY <1>10 DEF ForgetReply, Carrier!Forget
  <2>2. QED BY <2>1 DEF Carrier!Next
<1>11. ASSUME NEW r \in Reqs, LapseMarker(r) PROVE [Carrier!Next]_Carrier!carried
  <2>1. Carrier!Lapse(r)
    BY <1>11 DEF LapseMarker, Carrier!Lapse
  <2>2. QED BY <2>1 DEF Carrier!Next
<1>12. ASSUME NEW j \in jobs, Reply(j) PROVE [Carrier!Next]_Carrier!carried
  BY <1>12, <1>a DEF Reply
<1>13. ASSUME NEW s \in Services, NEW r \in Reqs, Misdirect(s, r) PROVE [Carrier!Next]_Carrier!carried
  BY <1>13, <1>a DEF Misdirect
<1>14. CASE UNCHANGED relayVars
  BY <1>14, <1>a DEF relayVars
<1>15. QED
  BY <1>1, <1>2, <1>3, <1>4, <1>5, <1>6, <1>7, <1>8, <1>9, <1>10, <1>11, <1>12, <1>13, <1>14
  DEF RelayNext, RelayStep

\* The relay keeps its promise to every origin: the key it polls holds a verdict or the
\* answer of a service its command was entrusted to, and its stream gets one copy of such
\* an answer for each life of the marker.
THEOREM RelayKeepsItsPromise == RelaySpec => KeepsItsPromise
<1> QED
  BY PromiseInit, PromiseStep, RelayInvariance, PTL DEF RelaySpec, KeepsItsPromise, Carrier!Spec

\* An answer is refused only where the service was never given the command, or was not
\* the last one it was given to.
THEOREM PromptAnswersAreWelcome == RelaySpec => PromptAnswerWelcome
<1> DEFINE Welcome ==
      \A p \in refused' \ refused :
          (\E j \in jobs : j.req = p.req /\ j.svc = p.svc) => entrusted[p.req] # {p.svc}
<1>1. RelayInv /\ [RelayNext]_relayVars => [Welcome]_relayVars
  <2> SUFFICES ASSUME RelayInv, [RelayNext]_relayVars, NEW p \in refused' \ refused,
                      NEW j \in jobs, j.req = p.req, j.svc = p.svc
               PROVE  entrusted[p.req] # {p.svc}
    OBVIOUS
  <2>1. PICK w \in Carriers, q \in replies : Collect(w, q)
    BY DEF RelayNext, RelayStep, relayVars, Resolve, Verdict, Grant, Send, Note, Depart, Key, Claim, Copy,
           Unclaim, Take, Arrive, Credit, Die, Ask, ForgetReply, LapseMarker, Reply, Misdirect
  <2>2. p = q /\ ~Granted(p)
    BY <2>1 DEF Collect
  <2>3. p.req \in Reqs /\ p.svc \in entrusted[p.req]
    BY DEF RelayInv, Entitled, RelayTypeOK, Job
  <2>4. grant[p.req] \in entrusted[p.req]
    BY <2>3 DEF RelayInv, Entitled
  <2>5. QED BY <2>2, <2>3, <2>4 DEF Granted
<1>2. QED
  BY <1>1, RelayInvariance, PTL DEF RelaySpec, PromptAnswerWelcome

-----------------------------------------------------------------------------
(* Trips and answers.                                                      *)

LEMMA NumberedStep ==
    RelayInv /\ Numbered /\ [RelayNext]_relayVars => Numbered'
<1> SUFFICES ASSUME RelayInv, Numbered, [RelayNext]_relayVars PROVE Numbered'
  OBVIOUS
<1>1. clock \in Nat /\ jobs \subseteq Job /\ answers \in [Entries -> Nat]
  BY DEF RelayInv, RelayTypeOK
<1>2. ASSUME NEW w \in Carriers, Send(w) PROVE Numbered'
  <2>1. CASE jobs' = jobs \cup {Stamped(hand[w], clock + 1)} /\ clock' = clock + 1 /\ answers' = answers
    <3>1. Stamped(hand[w], clock + 1).at = clock + 1
      BY DEF Stamped
    <3>2. \A j \in jobs : j.at \in Nat /\ j.at <= clock
      BY <1>1, EntryNumbers DEF Job, Numbered
    <3>3. \A j \in jobs' : j.at <= clock'
      BY <1>1, <2>1, <3>1, <3>2
    <3>4. \A j, k \in jobs' : j.at = k.at => j = k
      BY <1>1, <2>1, <3>1, <3>2 DEF Numbered
    <3>5. \A e \in Entries : e > clock' => answers'[e] = 0
      BY <1>1, <2>1, EntryNumbers DEF Numbered
    <3>6. QED BY <3>3, <3>4, <3>5 DEF Numbered
  <2>2. CASE UNCHANGED <<jobs, clock, answers>>
    BY <2>2 DEF Numbered
  <2>3. QED BY <1>2, <2>1, <2>2 DEF Send
<1>3. ASSUME NEW j \in jobs, Reply(j) PROVE Numbered'
  <2>1. jobs' = jobs /\ clock' = clock + 1 /\ answers' = [answers EXCEPT ![j.at] = @ + 1]
    BY <1>3 DEF Reply
  <2>2. \A k \in jobs : k.at \in Entries /\ k.at \in Nat
    BY <1>1, EntryNumbers DEF Job
  <2>3. \A e \in Entries : e > clock' => answers'[e] = 0
    BY <1>1, <2>1, <2>2, EntryNumbers DEF Numbered
  <2>4. QED BY <1>1, <2>1, <2>2, <2>3 DEF Numbered
<1>4. ASSUME NEW s \in Services, NEW r \in Reqs, Misdirect(s, r) PROVE Numbered'
  <2>1. jobs' = jobs /\ clock' = clock + 1 /\ answers' = answers
    BY <1>4 DEF Misdirect
  <2>2. \A k \in jobs : k.at \in Nat
    BY <1>1, EntryNumbers DEF Job
  <2>3. QED BY <1>1, <2>1, <2>2, EntryNumbers DEF Numbered
<1>5. ASSUME UNCHANGED <<jobs, clock, answers>> PROVE Numbered'
  BY <1>5 DEF Numbered
<1>6. QED
  BY <1>2, <1>3, <1>4, <1>5 DEF RelayNext, RelayStep, relayVars, streams, Resolve, Verdict, Grant, Note, Depart,
     Collect, Key, Claim, Copy, Unclaim, Take, Arrive, Credit, Die, Ask, ForgetReply, LapseMarker

LEMMA DepartsOnceStep ==
    RelayInv /\ DepartsOnce /\ [RelayNext]_relayVars => DepartsOnce'
<1> SUFFICES ASSUME RelayInv, DepartsOnce, [RelayNext]_relayVars, NEW e \in Entries PROVE Once(e)'
  BY DEF DepartsOnce
<1> USE DEF NotesAt, KeptAt, TakenAt, Go, Finish, Onward, Ready, Mine
<1>a. Once(e) /\ e \in Nat /\ e # 0 /\ clock \in Nat /\ credited[e] \in Nat
  BY EntryNumbers DEF DepartsOnce, RelayInv, RelayTypeOK
<1>b. /\ step \in [Carriers -> Steps] /\ hand \in [Carriers -> Hand] /\ trip \in [Carriers -> Hand]
      /\ sent \in [Cids -> Hand] /\ credited \in [Entries -> Nat]
  BY DEF RelayInv, RelayTypeOK
\* Nothing that counts for this entry changes, but that places are left.
<1>c. ASSUME credited'[e] = credited[e], clock' \in Nat, clock' >= clock,
             \A w \in Carriers : (NotesAt(w, e)' => NotesAt(w, e)) /\ (TakenAt(w, e)' => TakenAt(w, e)),
             \A i \in Cids : KeptAt(i, e)' => KeptAt(i, e)
      PROVE  Once(e)'
  BY <1>a, <1>c DEF Once
<1>1. ASSUME NEW w \in Carriers, NEW r \in Reqs, Resolve(w, r) PROVE Once(e)'
  BY <1>1, <1>a, <1>b, <1>c DEF Resolve, timing
<1>2. ASSUME NEW w \in Carriers, Verdict(w) \/ Grant(w) \/ Depart(w) \/ Die(w) PROVE Once(e)'
  BY <1>2, <1>a, <1>b, <1>c DEF Verdict, Grant, Depart, Die, timing, streams
<1>3. ASSUME NEW w \in Carriers, Send(w) PROVE Once(e)'
  <2>1. CASE step' = [step EXCEPT ![w] = "note"] /\ hand' = [hand EXCEPT ![w] = Stamped(@, clock + 1)]
             /\ clock' = clock + 1 /\ UNCHANGED <<sent, credited, trip>>
    <3>1. hand'[w].at = clock + 1 /\ step'[w] = "note" /\ step[w] = "send"
      BY <1>3, <1>b, <2>1 DEF Send, Stamped
    <3>2. CASE e = clock + 1
      <4>1. credited[e] = 0 /\ \A v \in Carriers : ~NotesAt(v, e) /\ ~TakenAt(v, e)
        BY <1>a, <3>2 DEF Once
      <4>2. \A i \in Cids : ~KeptAt(i, e)
        BY <1>a, <3>2 DEF Once
      <4>3. \A v \in Carriers : ~TakenAt(v, e)' /\ (NotesAt(v, e)' => v = w)
        BY <1>b, <2>1, <3>1, <4>1
      <4>4. QED BY <1>a, <2>1, <3>2, <4>1, <4>2, <4>3 DEF Once
    <3>3. CASE e # clock + 1
      BY <1>a, <1>b, <1>c, <2>1, <3>1, <3>3
    <3>4. QED BY <3>2, <3>3
  <2>2. CASE step' = [step EXCEPT ![w] = "idle"] /\ UNCHANGED <<clock, sent, credited>>
             /\ hand' = [hand EXCEPT ![w] = Empty] /\ trip' = [trip EXCEPT ![w] = Empty]
    BY <1>a, <1>b, <1>c, <2>2
  <2>3. QED BY <1>3, <2>1, <2>2 DEF Send, timing
<1>4. ASSUME NEW w \in Carriers, Note(w) PROVE Once(e)'
  <2>1. /\ step[w] = "note" /\ step' = [step EXCEPT ![w] = "depart"]
        /\ sent' = [sent EXCEPT ![Id(hand[w].req)] = hand[w]] /\ Id(hand[w].req) \in Cids
        /\ UNCHANGED <<clock, hand, trip, credited>>
    BY <1>4, IdOfReq DEF Note, RelayInv, Held, streams
  <2>2. CASE hand[w].at = e
    <3>1. NotesAt(w, e) /\ \A i \in Cids : ~KeptAt(i, e)
      BY <1>a, <2>1, <2>2 DEF Once
    <3>2. \A i \in Cids : KeptAt(i, e)' => i = Id(hand[w].req)
      BY <1>b, <2>1, <3>1
    <3>3. \A v \in Carriers : ~NotesAt(v, e)' /\ ~TakenAt(v, e)'
      BY <1>a, <1>b, <2>1, <3>1 DEF Once
    <3>4. QED BY <1>a, <2>1, <3>1, <3>2, <3>3 DEF Once
  <2>3. CASE hand[w].at # e
    BY <1>a, <1>b, <1>c, <2>1, <2>3
  <2>4. QED BY <2>2, <2>3
<1>5. ASSUME NEW w \in Carriers, NEW p \in replies, Collect(w, p) PROVE Once(e)'
  BY <1>5, <1>a, <1>b, <1>c DEF Collect, timing
<1>6. ASSUME NEW w \in Carriers, Key(w) \/ Claim(w) \/ Copy(w) \/ Unclaim(w) PROVE Once(e)'
  BY <1>6, <1>a, <1>b, <1>c DEF Key, Claim, Copy, Unclaim, timing, streams
<1>7. ASSUME NEW w \in Carriers, Take(w) PROVE Once(e)'
  <2> DEFINE i == Id(hand[w].req)
  <2>1. /\ step[w] = "take" /\ i \in Cids /\ sent' = [sent EXCEPT ![i] = Empty]
        /\ UNCHANGED <<clock, credited>>
    BY <1>7, IdOfReq DEF Take, RelayInv, Held, streams
  <2>2. \A k \in Cids : KeptAt(k, e)' => KeptAt(k, e) /\ k # i
    BY <1>a, <1>b, <2>1, EmptyHand
  <2>3. CASE sent[i] = Empty
    BY <1>7, <1>a, <1>b, <1>c, <2>1, <2>2, <2>3 DEF Take
  <2>4. CASE sent[i] # Empty
    <3>1. step' = [step EXCEPT ![w] = "arrive"] /\ trip' = [trip EXCEPT ![w] = sent[i]] /\ hand' = hand
      BY <1>7, <2>4 DEF Take
    <3>2. CASE sent[i].at = e
      <4>1. KeptAt(i, e) /\ credited[e] = 0 /\ e <= clock
            /\ \A v \in Carriers : ~NotesAt(v, e) /\ ~TakenAt(v, e)
        BY <1>a, <2>1, <3>2 DEF Once
      <4>2. \A k \in Cids : ~KeptAt(k, e)'
        BY <1>a, <2>1, <2>2, <4>1 DEF Once
      <4>3. \A v \in Carriers : ~NotesAt(v, e)' /\ (TakenAt(v, e)' => v = w)
        BY <1>b, <3>1, <4>1
      <4>4. QED BY <1>a, <2>1, <4>1, <4>2, <4>3 DEF Once
    <3>3. CASE sent[i].at # e
      BY <1>a, <1>b, <1>c, <2>1, <2>2, <3>1, <3>3
    <3>4. QED BY <3>2, <3>3
  <2>5. QED BY <2>3, <2>4
<1>8. ASSUME NEW w \in Carriers, Arrive(w) PROVE Once(e)'
  BY <1>8, <1>a, <1>b, <1>c DEF Arrive, streams
<1>9. ASSUME NEW w \in Carriers, Credit(w) PROVE Once(e)'
  <2>1. /\ step[w] = "credit" /\ step' = [step EXCEPT ![w] = "idle"]
        /\ credited' = [credited EXCEPT ![trip[w].at] = @ + 1] /\ trip[w].at \in Entries
        /\ trip' = [trip EXCEPT ![w] = Empty] /\ hand' = [hand EXCEPT ![w] = Empty]
        /\ UNCHANGED <<clock, sent>>
    BY <1>9 DEF Credit, RelayInv, Held, Job, streams
  <2>2. CASE trip[w].at = e
    <3>1. TakenAt(w, e)
      BY <2>1, <2>2
    <3>2. /\ credited[e] = 0 /\ e <= clock
          /\ \A v \in Carriers : ~NotesAt(v, e) /\ (TakenAt(v, e) => v = w)
          /\ \A k \in Cids : ~KeptAt(k, e)
      BY <1>a, <3>1 DEF Once
    <3>3. credited'[e] = 1 /\ \A v \in Carriers : ~NotesAt(v, e)' /\ ~TakenAt(v, e)'
      BY <1>b, <2>1, <2>2, <3>2
    <3>4. QED BY <1>a, <2>1, <3>2, <3>3 DEF Once
  <2>3. CASE trip[w].at # e
    BY <1>a, <1>b, <1>c, <2>1, <2>3
  <2>4. QED BY <2>2, <2>3
<1>10. ASSUME NEW r \in Reqs, Ask(r) \/ ForgetReply(r) \/ LapseMarker(r) PROVE Once(e)'
  BY <1>10, <1>a, <1>c DEF Ask, ForgetReply, LapseMarker, timing, worker, streams
<1>11. ASSUME NEW j \in jobs, Reply(j) PROVE Once(e)'
  <2>1. clock' = clock + 1 /\ UNCHANGED <<sent, credited, step, hand, trip>>
    BY <1>11 DEF Reply, timing, worker
  <2>2. QED BY <1>a, <1>c, <2>1
<1>12. ASSUME NEW s \in Services, NEW r \in Reqs, Misdirect(s, r) PROVE Once(e)'
  BY <1>12, <1>a, <1>c DEF Misdirect, timing, worker
<1>13. CASE UNCHANGED relayVars
  BY <1>13, <1>a, <1>c DEF relayVars
<1>14. QED
  BY <1>1, <1>2, <1>3, <1>4, <1>5, <1>6, <1>7, <1>8, <1>9, <1>10, <1>11, <1>12, <1>13 DEF RelayNext, RelayStep

\* Without a fault behind it, an answer that was written is found somewhere on its way.
LEMMA NotLostStep ==
    RelayInv /\ Numbered /\ NotLost /\ [RelayNext]_relayVars => NotLost'
<1> SUFFICES ASSUME RelayInv, Numbered, NotLost, [RelayNext]_relayVars, relayFaults' = 0
             PROVE  /\ \A w \in Carriers : step'[w] # "unclaim"
                    /\ \A r \in Reqs : marker'[r] => Copying(r)'
                    /\ \A j \in jobs' : answers'[j.at] > 0 => OnTheWay(j.req)'
  BY DEF NotLost
<1> DEFINE Goal == /\ \A w \in Carriers : step'[w] # "unclaim"
                   /\ \A r \in Reqs : marker'[r] => Copying(r)'
                   /\ \A j \in jobs' : answers'[j.at] > 0 => OnTheWay(j.req)'
<1>a. /\ step \in [Carriers -> Steps] /\ hand \in [Carriers -> Hand] /\ marker \in [Reqs -> BOOLEAN]
      /\ copies \in [Reqs -> Nat] /\ jobs \subseteq Job /\ replies \subseteq Job
      /\ answers \in [Entries -> Nat] /\ relayFaults \in Nat /\ clock \in Nat
  BY RelayBounds DEF RelayInv, RelayTypeOK
<1>b. ~Fault /\ relayFaults = 0
  <2>1. relayFaults' = relayFaults \/ Fault
    BY DEF RelayNext, RelayStep, relayVars, Resolve, Verdict, Grant, Send, Note, Depart, Collect, Key, Claim,
       Copy, Unclaim, Take, Arrive, Credit, Die, Ask, ForgetReply, LapseMarker, Reply, Misdirect
  <2>2. ~Fault
    BY <1>a DEF Fault
  <2>3. QED BY <2>1, <2>2
<1>c. /\ \A w \in Carriers : step[w] # "unclaim"
      /\ \A r \in Reqs : marker[r] => Copying(r)
      /\ \A j \in jobs : answers[j.at] > 0 => OnTheWay(j.req)
  BY <1>b DEF NotLost
<1>d. \A j \in jobs : j.req \in Reqs /\ j.at \in Entries
  BY <1>a DEF Job
<1> USE DEF Go, Finish, Onward, Ready, Mine
\* A step that takes nothing off the way, and claims nothing.
<1>e. ASSUME UNCHANGED <<jobs, answers>>,
             \A w \in Carriers : step'[w] # "unclaim",
             \A r \in Reqs : marker'[r] => Copying(r)',
             \A r \in Reqs : OnTheWay(r) => OnTheWay(r)'
      PROVE  Goal
  BY <1>c, <1>d, <1>e
<1>f. ASSUME \A r \in Reqs : copies'[r] = copies[r], UNCHANGED <<marker, refused, replies>>,
             \A w \in Carriers : step'[w] # "unclaim",
             \A w \in Carriers : step[w] = "copy" => step'[w] = "copy" /\ hand'[w] = hand[w],
             \A w \in Carriers : step[w] \in {"key", "claim"} =>
                 step'[w] \in {"key", "claim"} /\ hand'[w] = hand[w]
      PROVE  /\ \A r \in Reqs : marker'[r] => Copying(r)'
             /\ \A r \in Reqs : OnTheWay(r) => OnTheWay(r)'
  <2>1. \A r \in Reqs : Copying(r) => Copying(r)'
    BY <1>f DEF Copying
  <2>2. QED BY <1>c, <1>f, <2>1 DEF OnTheWay
<1>1. ASSUME NEW w \in Carriers, NEW r \in Reqs, Resolve(w, r) PROVE Goal
  <2>1. UNCHANGED <<jobs, answers, copies, marker, refused, replies>>
    BY <1>1 DEF Resolve, home
  <2>2. \A v \in Carriers : step'[v] # "unclaim" /\ (step[v] \in {"key", "claim", "copy"} => step'[v] = step[v] /\ hand'[v] = hand[v])
    BY <1>1, <1>a, <1>c DEF Resolve
  <2>3. QED BY <1>e, <1>f, <2>1, <2>2
<1>2. ASSUME NEW w \in Carriers, Verdict(w) \/ Grant(w) \/ Note(w) \/ Depart(w) \/ Take(w) \/ Arrive(w) \/ Credit(w)
      PROVE  Goal
  <2>1. UNCHANGED <<jobs, answers, copies, marker, refused, replies>>
    BY <1>2 DEF Verdict, Grant, Note, Depart, Take, Arrive, Credit, home, streams
  <2>2. \A v \in Carriers : step'[v] # "unclaim" /\ (step[v] \in {"key", "claim", "copy"} => step'[v] = step[v] /\ hand'[v] = hand[v])
    BY <1>2, <1>a, <1>c DEF Verdict, Grant, Note, Depart, Take, Arrive, Credit
  <2>3. QED BY <1>e, <1>f, <2>1, <2>2
<1>3. ASSUME NEW w \in Carriers, Send(w) PROVE Goal
  <2>1. /\ step[w] = "send" /\ step' = [step EXCEPT ![w] = "note"]
        /\ hand' = [hand EXCEPT ![w] = Stamped(@, clock + 1)]
        /\ jobs' = jobs \cup {Stamped(hand[w], clock + 1)} /\ clock + 1 \in Entries
        /\ UNCHANGED <<answers, copies, marker, refused, replies>>
    BY <1>3, <1>b DEF Send, home
  <2>2. \A v \in Carriers : step'[v] # "unclaim" /\ (step[v] \in {"key", "claim", "copy"} => step'[v] = step[v] /\ hand'[v] = hand[v])
    BY <1>a, <1>c, <2>1
  <2>3. /\ \A r \in Reqs : marker'[r] => Copying(r)'
        /\ \A r \in Reqs : OnTheWay(r) => OnTheWay(r)'
    BY <1>f, <2>1, <2>2
  <2>4. Stamped(hand[w], clock + 1).at = clock + 1 /\ answers[clock + 1] = 0
    BY <1>a, <2>1 DEF Stamped, Numbered
  <2>5. \A j \in jobs' : answers'[j.at] > 0 => OnTheWay(j.req)'
    BY <1>c, <1>d, <2>1, <2>3, <2>4
  <2>6. QED BY <2>2, <2>3, <2>5
<1>4. ASSUME NEW w \in Carriers, NEW p \in replies, Collect(w, p) PROVE Goal
  <2>1. /\ step[w] = "idle" /\ replies' = replies \ {p} /\ hand' = [hand EXCEPT ![w] = p]
        /\ UNCHANGED <<jobs, answers, copies, marker>>
        /\ \/ step' = [step EXCEPT ![w] = "key"] /\ refused' = refused
           \/ step' = [step EXCEPT ![w] = "take"] /\ refused' = refused \cup {p}
    BY <1>4 DEF Collect, home
  <2>2. \A v \in Carriers : step'[v] # "unclaim" /\ (step[v] \in {"key", "claim", "copy"} => step'[v] = step[v] /\ hand'[v] = hand[v])
    BY <1>a, <1>c, <2>1
  <2>3. \A r \in Reqs : Copying(r) => Copying(r)'
    BY <2>1, <2>2 DEF Copying
  <2>4. \/ p \in refused'
        \/ step'[w] = "key" /\ hand'[w] = p
    BY <1>a, <2>1
  <2>5. \A r \in Reqs : OnTheWay(r) => OnTheWay(r)'
    BY <2>1, <2>2, <2>3, <2>4 DEF OnTheWay
  <2>6. QED BY <1>c, <1>e, <2>1, <2>2, <2>3, <2>5
<1>5. ASSUME NEW w \in Carriers, Key(w) PROVE Goal
  <2>1. /\ step[w] = "key" /\ step' = [step EXCEPT ![w] = "claim"]
        /\ UNCHANGED <<jobs, answers, copies, marker, refused, replies, hand>>
    BY <1>5 DEF Key, streams
  <2>2. \A v \in Carriers : step'[v] # "unclaim" /\ (step[v] = "copy" => step'[v] = step[v])
            /\ (step[v] \in {"key", "claim"} => step'[v] \in {"key", "claim"})
    BY <1>a, <1>c, <2>1
  <2>3. QED BY <1>e, <1>f, <2>1, <2>2
<1>6. ASSUME NEW w \in Carriers, Claim(w) PROVE Goal
  <2> DEFINE r == hand[w].req
  <2>1. /\ step[w] = "claim" /\ r \in Reqs
        /\ UNCHANGED <<jobs, answers, copies, refused, replies, hand>>
    BY <1>6 DEF Claim, streams, RelayInv, Held
  <2>2. CASE marker[r]
    <3>1. step' = [step EXCEPT ![w] = "take"] /\ marker' = marker
      BY <1>6, <2>2 DEF Claim
    <3>2. \A v \in Carriers : step'[v] # "unclaim" /\ (v # w => step'[v] = step[v])
      BY <1>a, <1>c, <3>1
    <3>3. \A q \in Reqs : Copying(q) => Copying(q)'
      BY <2>1, <3>2 DEF Copying
    <3>4. Copying(r)'
      BY <1>c, <2>1, <2>2, <3>3
    <3>5. \A q \in Reqs : OnTheWay(q) => OnTheWay(q)'
      BY <2>1, <3>2, <3>3, <3>4 DEF OnTheWay
    <3>6. QED BY <1>c, <1>e, <2>1, <3>1, <3>2, <3>3, <3>5
  <2>3. CASE ~marker[r]
    <3>1. step' = [step EXCEPT ![w] = "copy"] /\ marker' = [marker EXCEPT ![r] = TRUE]
      BY <1>6, <2>3 DEF Claim
    <3>2. step'[w] = "copy" /\ \A v \in Carriers : step'[v] # "unclaim" /\ (v # w => step'[v] = step[v])
      BY <1>a, <1>c, <3>1
    <3>3. \A q \in Reqs : (Copying(q) => Copying(q)') /\ Copying(r)'
      BY <2>1, <3>2 DEF Copying
    <3>4. \A q \in Reqs : marker'[q] => Copying(q)'
      BY <1>a, <1>c, <2>1, <3>1, <3>3
    <3>5. \A q \in Reqs : OnTheWay(q) => OnTheWay(q)'
      BY <2>1, <3>2, <3>3 DEF OnTheWay
    <3>6. QED BY <1>e, <2>1, <3>2, <3>4, <3>5
  <2>4. QED BY <2>2, <2>3
<1>7. ASSUME NEW w \in Carriers, Copy(w) PROVE Goal
  <2> DEFINE r == hand[w].req
  <2>1. /\ step[w] = "copy" /\ r \in Reqs /\ copies' = [copies EXCEPT ![r] = @ + 1]
        /\ step' = [step EXCEPT ![w] = "take"]
        /\ UNCHANGED <<jobs, answers, marker, refused, replies, hand>>
    BY <1>7, <1>b DEF Copy, streams, RelayInv, Held
  <2>2. \A v \in Carriers : step'[v] # "unclaim" /\ (v # w => step'[v] = step[v])
    BY <1>a, <1>c, <2>1
  <2>3. copies'[r] > 0 /\ \A q \in Reqs : copies[q] > 0 => copies'[q] > 0
    BY <1>a, <2>1
  <2>4. \A q \in Reqs : Copying(q) => Copying(q)'
    BY <2>1, <2>2, <2>3 DEF Copying
  <2>5. \A q \in Reqs : OnTheWay(q) => OnTheWay(q)'
    BY <2>1, <2>2, <2>4 DEF OnTheWay
  <2>6. QED BY <1>c, <1>e, <2>1, <2>2, <2>4, <2>5
<1>8. ASSUME NEW w \in Carriers, Unclaim(w) PROVE Goal
  BY <1>8, <1>c DEF Unclaim
<1>9. ASSUME NEW j \in jobs, Reply(j) PROVE Goal
  <2>1. /\ UNCHANGED <<jobs, copies, marker, refused, step, hand>>
        /\ answers' = [answers EXCEPT ![j.at] = @ + 1]
        /\ replies' = replies \cup {Stamped(j, clock + 1)}
    BY <1>9 DEF Reply, home, worker
  <2>2. \A q \in Reqs : Copying(q) => Copying(q)'
    BY <2>1 DEF Copying
  <2>3. \A q \in Reqs : OnTheWay(q) => OnTheWay(q)'
    BY <2>1, <2>2 DEF OnTheWay
  <2>4. OnTheWay(j.req)'
    <3>1. Stamped(j, clock + 1) \in replies' /\ Stamped(j, clock + 1).req = j.req
      BY <2>1 DEF Stamped
    <3>2. QED BY <3>1 DEF OnTheWay
  <2>5. \A k \in jobs : answers'[k.at] > 0 => OnTheWay(k.req)'
    <3> SUFFICES ASSUME NEW k \in jobs, answers'[k.at] > 0 PROVE OnTheWay(k.req)'
      OBVIOUS
    <3>1. CASE k.at = j.at
      BY <2>4, <3>1 DEF Numbered
    <3>2. CASE k.at # j.at
      BY <1>a, <1>c, <1>d, <2>1, <2>3, <3>2
    <3>3. QED BY <3>1, <3>2
  <2>6. QED BY <1>c, <2>1, <2>2, <2>5
<1>10. ASSUME NEW r \in Reqs, Ask(r) PROVE Goal
  BY <1>10, <1>c, <1>e, <1>f DEF Ask, home, worker
<1>11. CASE UNCHANGED relayVars
  BY <1>11, <1>c, <1>e, <1>f DEF relayVars
<1>12. QED
  <2>1. ASSUME NEW w \in Carriers, Die(w) PROVE Goal
    BY <2>1, <1>b DEF Die
  <2>2. ASSUME NEW r \in Reqs, ForgetReply(r) \/ LapseMarker(r) PROVE Goal
    BY <2>2, <1>b DEF ForgetReply, LapseMarker
  <2>3. ASSUME NEW s \in Services, NEW r \in Reqs, Misdirect(s, r) PROVE Goal
    BY <2>3, <1>b DEF Misdirect
  <2>4. Goal
    BY <1>1, <1>2, <1>3, <1>4, <1>5, <1>6, <1>7, <1>8, <1>9, <1>10, <1>11, <2>1, <2>2, <2>3
    DEF RelayNext, RelayStep
  <2>5. QED BY <2>4

LEMMA RelayIInvInit == RelayInit => RelayIInv
<1> SUFFICES ASSUME RelayInit PROVE Numbered /\ DepartsOnce /\ NotLost
  BY RelayInvInit DEF RelayIInv
<1>1. Numbered
  BY DEF RelayInit, Numbered
<1>2. DepartsOnce
  BY EntryNumbers, EmptyHand DEF RelayInit, DepartsOnce, Once, NotesAt, KeptAt, TakenAt
<1>3. NotLost
  BY DEF RelayInit, NotLost
<1>4. QED BY <1>1, <1>2, <1>3

LEMMA RelayIInvStep == RelayIInv /\ [RelayNext]_relayVars => RelayIInv'
BY RelayInvStep, NumberedStep, DepartsOnceStep, NotLostStep DEF RelayIInv

\* When everything is at rest and nothing failed, an answered command has its answer on its
\* origin's stream, or an answer to it was refused; and the trip of a forward is credited at
\* most once, whatever died or was answered twice.
THEOREM AnswersComeHome == RelaySpec => []AnswerIsHome
<1>1. RelayIInv => AnswerIsHome
  <2> SUFFICES ASSUME RelayIInv PROVE AnswerIsHome
    OBVIOUS
  <2>1. \A e \in Entries : credited[e] <= 1
    BY DEF RelayIInv, DepartsOnce, Once
  <2>2. ASSUME AtRest, relayFaults = 0, NEW j \in jobs, answers[j.at] > 0
        PROVE  copies[j.req] > 0 \/ \E p \in refused : p.req = j.req
    <3>1. OnTheWay(j.req)
      BY <2>2 DEF RelayIInv, NotLost
    <3>2. QED BY <2>2, <3>1 DEF OnTheWay, Copying, AtRest
  <2>3. QED BY <2>1, <2>2 DEF AnswerIsHome
<1>2. QED BY <1>1, RelayIInvInit, RelayIInvStep, PTL DEF RelaySpec

-----------------------------------------------------------------------------
(* Numbers: induction, recursion, remainders.                              *)

LEMMA AllNumbers ==
    ASSUME NEW S, 0 \in S, \A n \in Nat : n \in S => n + 1 \in S
    PROVE  Nat \subseteq S
<1> SUFFICES ASSUME Nat \ S # {} PROVE FALSE
  OBVIOUS
<1> DEFINE T == Nat \ S
<1>1. PICK x \in T : \A y \in T : ~(<<y, x>> \in OpToRel(<, Nat))
  BY NatLessThanWellFounded, WFMin
<1>2. \A y \in T : ~(y < x)
  BY <1>1 DEF OpToRel
<1>3. x - 1 \in Nat /\ x - 1 < x /\ (x - 1) + 1 = x
  BY DEF T
<1>4. x - 1 \in S
  BY <1>2, <1>3
<1> QED BY <1>3, <1>4 DEF T

(* The same up to a bound. *)
LEMMA UpTo ==
    ASSUME NEW m \in Nat, NEW S, 0 \in S, \A n \in 0 .. (m - 1) : n \in S => n + 1 \in S
    PROVE  0 .. m \subseteq S
<1> DEFINE R == S \cup {n \in Nat : n > m}
<1>1. 0 \in R
  OBVIOUS
<1>2. ASSUME NEW n \in Nat, n \in R PROVE n + 1 \in R
  <2>1. CASE n >= m
    BY <2>1
  <2>2. CASE n < m
    <3>1. n \in 0 .. (m - 1) /\ n \in S
      BY <1>2, <2>2
    <3> QED BY <3>1
  <2> QED BY <2>1, <2>2
<1> HIDE DEF R
<1>3. Nat \subseteq R
  BY <1>1, <1>2, AllNumbers
<1> QED BY <1>3 DEF R

(* What begins with base and goes on by move is a function. *)
Moves(move, V) == move \in [Nat -> [V -> V]]
GoesOn(f, V, base, move) == f \in [Nat -> V] /\ f[0] = base /\ \A n \in Nat : f[n + 1] = move[n][f[n]]

LEMMA StepByStep ==
    ASSUME NEW V, NEW base \in V, NEW move, Moves(move, V)
    PROVE  \E f : GoesOn(f, V, base, move)
<1> DEFINE Begins(k, g) == g \in [0 .. k -> V] /\ g[0] = base /\ \A n \in 0 .. (k - 1) : g[n + 1] = move[n][g[n]]
<1> USE DEF Moves
<1>1. ASSUME NEW k \in Nat, NEW m \in Nat, NEW g, NEW h, k <= m, Begins(k, g), Begins(m, h)
      PROVE  \A n \in 0 .. k : g[n] = h[n]
  <2> DEFINE S == {n \in 0 .. k : g[n] = h[n]}
  <2>1. 0 \in S
    BY <1>1
  <2>2. ASSUME NEW n \in 0 .. (k - 1), n \in S PROVE n + 1 \in S
    BY <1>1, <2>2
  <2> HIDE DEF S
  <2>3. 0 .. k \subseteq S
    BY <2>1, <2>2, UpTo
  <2> QED BY <2>3 DEF S
<1>2. \A k \in Nat : \E g : Begins(k, g)
  <2> DEFINE S == {k \in Nat : \E g : Begins(k, g)}
  <2>1. 0 \in S
    <3>1. Begins(0, [n \in 0 .. 0 |-> base])
      OBVIOUS
    <3> QED BY <3>1
  <2>2. ASSUME NEW k \in Nat, k \in S PROVE k + 1 \in S
    <3>1. PICK g : Begins(k, g)
      BY <2>2
    <3> DEFINE h == [n \in 0 .. (k + 1) |-> IF n = k + 1 THEN move[k][g[k]] ELSE g[n]]
    <3>2. move[k][g[k]] \in V
      BY <3>1
    <3>3. h \in [0 .. (k + 1) -> V] /\ h[0] = base
      BY <3>1, <3>2
    <3>4. \A n \in 0 .. ((k + 1) - 1) : h[n + 1] = move[n][h[n]]
      <4> TAKE n \in 0 .. ((k + 1) - 1)
      <4>1. CASE n = k
        BY <4>1
      <4>2. CASE n # k
        BY <4>2, <3>1
      <4> QED BY <4>1, <4>2
    <3> HIDE DEF h
    <3>5. Begins(k + 1, h)
      BY <3>3, <3>4 DEF Begins
    <3> QED BY <3>5
  <2> HIDE DEF S
  <2>3. Nat \subseteq S
    BY <2>1, <2>2, AllNumbers
  <2> QED BY <2>3 DEF S
<1> DEFINE G(k) == CHOOSE g : Begins(k, g)
           f == [n \in Nat |-> G(n)[n]]
<1>3. \A k \in Nat : Begins(k, G(k))
  BY <1>2
<1> HIDE DEF G
<1>4. f \in [Nat -> V] /\ f[0] = base
  BY <1>3
<1>5. ASSUME NEW n \in Nat PROVE f[n + 1] = move[n][f[n]]
  <2>1. G(n + 1)[n] = G(n)[n]
    <3>1. n + 1 \in Nat /\ n <= n + 1 /\ n \in 0 .. n /\ Begins(n, G(n)) /\ Begins(n + 1, G(n + 1))
      BY <1>3
    <3> HIDE DEF Begins
    <3> QED BY <3>1, <1>1
  <2>2. G(n + 1)[n + 1] = move[n][G(n + 1)[n]]
    BY <1>3
  <2> QED BY <2>1, <2>2
<1> HIDE DEF f
<1> QED BY <1>4, <1>5 DEF GoesOn

(* The remainder of the next number. *)
LEMMA NextRemainder ==
    ASSUME NEW T \in Nat, T > 0, NEW x \in Nat
    PROVE  /\ x % T \in 0 .. (T - 1)
           /\ (x + 1) % T = IF (x % T) + 1 = T THEN 0 ELSE (x % T) + 1
<1> DEFINE q == x \div T
           r == x % T
           p == (x + 1) \div T
           s == (x + 1) % T
<1>1. q \in Int /\ r \in 0 .. (T - 1) /\ x = T * q + r
  OBVIOUS
<1>2. p \in Int /\ s \in 0 .. (T - 1) /\ x + 1 = T * p + s
  OBVIOUS
<1> HIDE DEF q, r, p, s
<1>3. PICK d \in Int : d = p - q
  BY <1>1, <1>2
<1>4. T * d = r + 1 - s
  <2>1. p = q + d
    BY <1>1, <1>2, <1>3
  <2>2. T * p = T * q + T * d
    BY <1>1, <2>1
  <2>3. T * p \in Int /\ T * q \in Int /\ T * d \in Int
    BY <1>1, <1>2
  <2> QED BY <1>1, <1>2, <2>2, <2>3
<1>5. CASE d < 0
  <2>1. T * d <= -T
    BY <1>5
  <2> QED BY <2>1, <1>4, <1>1, <1>2
<1>6. CASE d = 0
  BY <1>6, <1>4, <1>1, <1>2 DEF r, s
<1>7. CASE d = 1
  BY <1>7, <1>4, <1>1, <1>2 DEF r, s
<1>8. CASE d > 1
  <2>1. T * d >= T + T
    <3>1. PICK e \in Nat : d = e + 2
      BY <1>8
    <3>2. T * d = T * e + T + T /\ T * e >= 0
      BY <3>1
    <3> QED BY <3>2
  <2> QED BY <2>1, <1>4, <1>1, <1>2
<1> QED BY <1>5, <1>6, <1>7, <1>8 DEF r, s

-----------------------------------------------------------------------------
(* RouteRing: sums along the ring.                                         *)

RingType == ws \in Seq(Nat) /\ ws # <<>>

\* What placement i of a ring has in c, a function on the weighted ones, and the sums of it.
HasIn(c, i) == IF i \in Weighted THEN c[i] ELSE 0
SumsOf(S, c) ==
    /\ S \in [0 .. Len(ws) -> Int] /\ S[0] = 0
    /\ \A n \in 1 .. Len(ws) : S[n] = S[n - 1] + HasIn(c, n)
Amounts(c, x) == \E S : SumsOf(S, c) /\ S[Len(ws)] = x

LEMMA TotalSums ==
    ASSUME RingType
    PROVE  /\ Total \in [0 .. Len(ws) -> Int]
           /\ Total[0] = 0 /\ \A k \in 1 .. Len(ws) : Total[k] = Total[k - 1] + ws[k]
<1> DEFINE more == [n \in Nat |-> [x \in Int |-> IF n + 1 \in 1 .. Len(ws) THEN x + ws[n + 1] ELSE x]]
<1>1. Len(ws) \in Nat /\ \A n \in 1 .. Len(ws) : ws[n] \in Nat
  BY DEF RingType
<1>2. Moves(more, Int)
  BY <1>1 DEF Moves
<1> HIDE DEF more
<1>3. PICK f : GoesOn(f, Int, 0, more)
  <2>1. 0 \in Int
    OBVIOUS
  <2> QED BY <1>2, <2>1, StepByStep, Zenon
<1>4. ASSUME NEW k \in 1 .. Len(ws) PROVE f[k] = f[k - 1] + ws[k]
  <2>1. k - 1 \in Nat /\ (k - 1) + 1 = k /\ k \in Nat
    BY <1>1
  <2>2. f[k] = more[k - 1][f[k - 1]] /\ f[k - 1] \in Int
    BY <2>1, <1>3 DEF GoesOn
  <2> QED BY <2>1, <2>2 DEF more
<1> DEFINE g == [k \in 0 .. Len(ws) |-> f[k]]
<1>5. g = [k \in 0 .. Len(ws) |-> IF k = 0 THEN 0 ELSE g[k - 1] + ws[k]]
  <2>1. ASSUME NEW k \in 0 .. Len(ws) PROVE f[k] = IF k = 0 THEN 0 ELSE g[k - 1] + ws[k]
    <3>1. CASE k = 0
      BY <3>1, <1>3 DEF GoesOn
    <3>2. CASE k # 0
      <4>1. k \in 1 .. Len(ws) /\ k - 1 \in 0 .. Len(ws)
        BY <3>2, <1>1
      <4> QED BY <4>1, <3>2, <1>4
    <3> QED BY <3>1, <3>2
  <2> QED BY <2>1
<1> HIDE DEF g
<1>6. Total = [k \in 0 .. Len(ws) |-> IF k = 0 THEN 0 ELSE Total[k - 1] + ws[k]]
  BY <1>5, Zenon DEF Total
<1>7. 0 \in 0 .. Len(ws) /\ Total[0] = 0
  BY <1>6, <1>1
<1>8. ASSUME NEW k \in 1 .. Len(ws) PROVE Total[k] = Total[k - 1] + ws[k]
  <2>1. k \in 0 .. Len(ws) /\ k # 0
    BY <1>1
  <2> QED BY <2>1, <1>6
<1> DEFINE I == {k \in 0 .. Len(ws) : Total[k] \in Int}
<1>9. 0 .. Len(ws) \subseteq I
  <2>1. 0 \in I
    BY <1>7
  <2>2. ASSUME NEW n \in 0 .. (Len(ws) - 1), n \in I PROVE n + 1 \in I
    <3>1. n + 1 \in 1 .. Len(ws) /\ (n + 1) - 1 = n
      BY <1>1
    <3>2. Total[n + 1] = Total[n] + ws[n + 1]
      BY <3>1, <1>8
    <3> QED BY <3>1, <3>2, <2>2, <1>1
  <2> HIDE DEF I
  <2> QED BY <2>1, <2>2, <1>1, UpTo
<1>10. \A k \in 0 .. Len(ws) : Total[k] \in Int
  BY <1>9
<1>11. Total \in [0 .. Len(ws) -> Int]
  BY <1>6, <1>10
<1> QED BY <1>7, <1>8, <1>11

LEMMA WeightedPlaces ==
    ASSUME RingType
    PROVE  /\ Len(ws) \in Nat /\ DOMAIN ws = 1 .. Len(ws) /\ Weighted \subseteq 1 .. Len(ws)
           /\ \A i \in 1 .. Len(ws) : ws[i] \in Nat /\ (i \in Weighted <=> ws[i] > 0)
           /\ IsFiniteSet(Weighted) /\ Cardinality(Weighted) \in Nat
           /\ TotalWeight \in Int
<1>1. Len(ws) \in Nat /\ DOMAIN ws = 1 .. Len(ws) /\ \A i \in 1 .. Len(ws) : ws[i] \in Nat
  BY DEF RingType
<1>2. Weighted \subseteq 1 .. Len(ws) /\ \A i \in 1 .. Len(ws) : i \in Weighted <=> ws[i] > 0
  BY <1>1 DEF Weighted
<1>3. IsFiniteSet(1 .. Len(ws))
  BY <1>1, FS_Interval
<1>4. IsFiniteSet(Weighted)
  BY <1>2, <1>3, FS_Subset
<1>5. Cardinality(Weighted) \in Nat
  BY <1>4, FS_CardinalityType
<1>6. TotalWeight \in Int
  BY <1>1, TotalSums DEF TotalWeight
<1> QED BY <1>1, <1>2, <1>4, <1>5, <1>6

LEMMA AmountsOfTotal ==
    ASSUME RingType PROVE SumsOf(Total, ws) /\ Total[Len(ws)] = TotalWeight
<1>1. \A n \in 1 .. Len(ws) : HasIn(ws, n) = ws[n]
  BY WeightedPlaces DEF HasIn
<1> QED BY <1>1, TotalSums DEF SumsOf, TotalWeight

\* Sums have the sign of what they sum up.
LEMMA SumsSign ==
    ASSUME RingType, NEW c \in [Weighted -> Int], NEW S, SumsOf(S, c)
    PROVE  /\ (\A i \in Weighted : c[i] <= 0) => S[Len(ws)] <= 0
           /\ (\A i \in Weighted : c[i] >= 0) => \A i \in Weighted : c[i] <= S[Len(ws)]
<1>1. Len(ws) \in Nat /\ Weighted \subseteq 1 .. Len(ws)
  BY WeightedPlaces
<1>2. \A n \in 1 .. Len(ws) : HasIn(c, n) \in Int
  BY DEF HasIn
<1>3. ASSUME \A i \in Weighted : c[i] <= 0 PROVE S[Len(ws)] <= 0
  <2> DEFINE I == {n \in 0 .. Len(ws) : S[n] <= 0}
  <2>1. 0 \in I
    BY <1>1 DEF SumsOf
  <2>2. ASSUME NEW n \in 0 .. (Len(ws) - 1), n \in I PROVE n + 1 \in I
    <3>1. n + 1 \in 1 .. Len(ws) /\ (n + 1) - 1 = n /\ n \in 0 .. Len(ws)
      BY <1>1
    <3>2. HasIn(c, n + 1) <= 0
      BY <1>3 DEF HasIn
    <3> QED BY <3>1, <3>2, <2>2, <1>2 DEF SumsOf
  <2> HIDE DEF I
  <2>3. 0 .. Len(ws) \subseteq I
    BY <2>1, <2>2, <1>1, UpTo
  <2> QED BY <2>3, <1>1 DEF I
<1>4. ASSUME \A i \in Weighted : c[i] >= 0 PROVE \A i \in Weighted : c[i] <= S[Len(ws)]
  <2> DEFINE I == {n \in 0 .. Len(ws) : S[n] >= 0 /\ \A i \in Weighted : i <= n => c[i] <= S[n]}
  <2>1. 0 \in I
    BY <1>1 DEF SumsOf
  <2>2. ASSUME NEW n \in 0 .. (Len(ws) - 1), n \in I PROVE n + 1 \in I
    <3>1. n + 1 \in 1 .. Len(ws) /\ (n + 1) - 1 = n /\ n \in 0 .. Len(ws)
      BY <1>1
    <3>2. HasIn(c, n + 1) >= 0 /\ S[n + 1] = S[n] + HasIn(c, n + 1) /\ S[n] >= 0 /\ S[n] \in Int
      BY <1>4, <3>1, <2>2 DEF HasIn, SumsOf
    <3>3. ASSUME NEW i \in Weighted, i <= n + 1 PROVE c[i] <= S[n + 1]
      <4>1. CASE i = n + 1
        BY <4>1, <3>2, <1>4 DEF HasIn
      <4>2. CASE i # n + 1
        <5>1. i <= n /\ c[i] <= S[n]
          BY <4>2, <3>3, <1>1, <2>2
        <5> QED BY <5>1, <3>1, <3>2, <1>2
      <4> QED BY <4>1, <4>2
    <3> QED BY <3>1, <3>2, <3>3, <1>2
  <2> HIDE DEF I
  <2>3. 0 .. Len(ws) \subseteq I
    BY <2>1, <2>2, <1>1, UpTo
  <2> QED BY <2>3, <1>1 DEF I
<1> QED BY <1>3, <1>4

\* The weighted placements up to n, without a and b.
Others(a, b, n) == {i \in Weighted \ {a, b} : i <= n}

LEMMA OthersGrow ==
    ASSUME RingType, NEW a \in Weighted, NEW b \in Weighted, a # b
    PROVE  /\ Cardinality(Others(a, b, 0)) = 0
           /\ \A n \in 0 .. Len(ws) : Cardinality(Others(a, b, n)) \in Nat
           /\ \A n \in 0 .. (Len(ws) - 1) :
                  Cardinality(Others(a, b, n + 1)) =
                      Cardinality(Others(a, b, n)) + (IF n + 1 \in Weighted \ {a, b} THEN 1 ELSE 0)
           /\ Cardinality(Others(a, b, Len(ws))) = Cardinality(Weighted) - 2
<1>1. Len(ws) \in Nat /\ Weighted \subseteq 1 .. Len(ws) /\ IsFiniteSet(Weighted) /\ Cardinality(Weighted) \in Nat
  BY WeightedPlaces
<1>2. ASSUME NEW n \in 0 .. Len(ws) PROVE IsFiniteSet(Others(a, b, n)) /\ Cardinality(Others(a, b, n)) \in Nat
  <2>1. Others(a, b, n) \subseteq Weighted
    BY DEF Others
  <2>2. IsFiniteSet(Others(a, b, n))
    BY <1>1, <2>1, FS_Subset
  <2> QED BY <2>2, FS_CardinalityType
<1>3. Cardinality(Others(a, b, 0)) = 0
  <2>1. Others(a, b, 0) = {}
    <3>1. \A i \in Weighted : ~(i <= 0)
      BY <1>1
    <3> QED BY <3>1 DEF Others
  <2> QED BY <2>1, FS_EmptySet
<1>4. ASSUME NEW n \in 0 .. (Len(ws) - 1)
      PROVE  Cardinality(Others(a, b, n + 1)) =
                 Cardinality(Others(a, b, n)) + (IF n + 1 \in Weighted \ {a, b} THEN 1 ELSE 0)
  <2>1. n \in 0 .. Len(ws) /\ n \in Nat
    BY <1>1
  <2>2. \A i \in Weighted : i \in Nat /\ (i <= n + 1 <=> i <= n \/ i = n + 1)
    BY <1>1, <2>1
  <2>3. CASE n + 1 \in Weighted \ {a, b}
    <3>1. Others(a, b, n + 1) = Others(a, b, n) \cup {n + 1} /\ n + 1 \notin Others(a, b, n)
      BY <2>1, <2>2, <2>3 DEF Others
    <3>2. Cardinality(Others(a, b, n) \cup {n + 1}) = Cardinality(Others(a, b, n)) + 1
      BY <1>2, <2>1, <3>1, FS_AddElement
    <3> QED BY <2>3, <3>1, <3>2
  <2>4. CASE n + 1 \notin Weighted \ {a, b}
    <3>1. Others(a, b, n + 1) = Others(a, b, n)
      BY <2>2, <2>4 DEF Others
    <3> QED BY <1>2, <2>1, <2>4, <3>1
  <2> QED BY <2>3, <2>4
<1>5. Cardinality(Others(a, b, Len(ws))) = Cardinality(Weighted) - 2
  <2>1. \A i \in Weighted : i <= Len(ws)
    BY <1>1
  <2>2. Others(a, b, Len(ws)) = (Weighted \ {a}) \ {b}
    <3>1. \A i : i \in Others(a, b, Len(ws)) <=> i \in Weighted /\ i # a /\ i # b
      BY <2>1 DEF Others
    <3> QED BY <3>1
  <2>3. IsFiniteSet(Weighted \ {a}) /\ Cardinality(Weighted \ {a}) = Cardinality(Weighted) - 1
    BY <1>1, FS_RemoveElement
  <2>4. Cardinality((Weighted \ {a}) \ {b}) = Cardinality(Weighted \ {a}) - 1
    BY <2>3, FS_RemoveElement
  <2> QED BY <1>1, <2>2, <2>3, <2>4
<1> QED BY <1>2, <1>3, <1>4, <1>5

\* If all but two have at least -T, the two have not much more than the rest leaves them.
LEMMA PairBound ==
    ASSUME RingType, NEW c \in [Weighted -> Int], NEW S, SumsOf(S, c), NEW T \in Nat,
           NEW a \in Weighted, NEW b \in Weighted, a # b,
           \A i \in Weighted \ {a, b} : c[i] >= -T
    PROVE  c[a] + c[b] <= S[Len(ws)] + T * (Cardinality(Weighted) - 2)
<1> DEFINE Have(n) == (IF a <= n THEN c[a] ELSE 0) + (IF b <= n THEN c[b] ELSE 0)
           Debt(n) == T * Cardinality(Others(a, b, n))
           I == {n \in 0 .. Len(ws) : Have(n) <= S[n] + Debt(n)}
<1>1. Len(ws) \in Nat /\ Weighted \subseteq 1 .. Len(ws)
  BY WeightedPlaces
<1>2. c[a] \in Int /\ c[b] \in Int /\ a \in Nat /\ b \in Nat
  BY <1>1
<1>3. \A n \in 0 .. Len(ws) : Debt(n) \in Int /\ Have(n) \in Int /\ S[n] \in Int
  <2> TAKE n \in 0 .. Len(ws)
  <2>1. Cardinality(Others(a, b, n)) \in Nat
    BY OthersGrow
  <2>2. Debt(n) \in Int
    BY <2>1
  <2>3. Have(n) \in Int
    BY <1>2
  <2> QED BY <2>2, <2>3 DEF SumsOf
<1>4. ASSUME NEW n \in 0 .. (Len(ws) - 1)
      PROVE  /\ S[n + 1] = S[n] + HasIn(c, n + 1)
             /\ Have(n + 1) = Have(n) + (IF n + 1 \in {a, b} THEN HasIn(c, n + 1) ELSE 0)
             /\ Debt(n + 1) = Debt(n) + (IF n + 1 \in Weighted \ {a, b} THEN T ELSE 0)
  <2>1. n + 1 \in 1 .. Len(ws) /\ (n + 1) - 1 = n /\ n \in Nat /\ n \in 0 .. Len(ws)
    BY <1>1
  <2>2. S[n + 1] = S[n] + HasIn(c, n + 1)
    BY <2>1 DEF SumsOf
  <2>3. Have(n + 1) = Have(n) + (IF n + 1 \in {a, b} THEN HasIn(c, n + 1) ELSE 0)
    <3>1. CASE n + 1 = a
      BY <3>1, <1>2, <2>1 DEF HasIn
    <3>2. CASE n + 1 = b
      BY <3>2, <1>2, <2>1 DEF HasIn
    <3>3. CASE n + 1 \notin {a, b}
      BY <3>3, <1>2, <2>1
    <3> QED BY <3>1, <3>2, <3>3
  <2>4. Debt(n + 1) = Debt(n) + (IF n + 1 \in Weighted \ {a, b} THEN T ELSE 0)
    <3>1. Cardinality(Others(a, b, n)) \in Nat
      BY <2>1, OthersGrow
    <3>2. Cardinality(Others(a, b, n + 1)) =
              Cardinality(Others(a, b, n)) + (IF n + 1 \in Weighted \ {a, b} THEN 1 ELSE 0)
      BY OthersGrow
    <3>3. CASE n + 1 \in Weighted \ {a, b}
      BY <3>1, <3>2, <3>3
    <3>4. CASE n + 1 \notin Weighted \ {a, b}
      BY <3>1, <3>2, <3>4
    <3> QED BY <3>3, <3>4
  <2> QED BY <2>2, <2>3, <2>4
<1>5. 0 \in I
  <2>1. ~(a <= 0) /\ ~(b <= 0)
    BY <1>1
  <2>2. Debt(0) = 0
    BY OthersGrow
  <2> QED BY <1>1, <2>1, <2>2 DEF SumsOf
<1>6. Have(Len(ws)) = c[a] + c[b] /\ Debt(Len(ws)) = T * (Cardinality(Weighted) - 2)
  BY <1>1, OthersGrow
<1> HIDE DEF Have, Debt
<1>7. ASSUME NEW n \in 0 .. (Len(ws) - 1), n \in I PROVE n + 1 \in I
  <2>1. n + 1 \in 0 .. Len(ws) /\ n \in 0 .. Len(ws)
    BY <1>1
  <2>2. HasIn(c, n + 1) \in Int
    BY DEF HasIn
  <2>3. PICK h, s, d, x : h = Have(n) /\ s = S[n] /\ d = Debt(n) /\ x = HasIn(c, n + 1)
    OBVIOUS
  <2>4. h \in Int /\ s \in Int /\ d \in Int /\ x \in Int /\ h <= s + d
    BY <2>1, <2>2, <2>3, <1>3, <1>7
  <2>5. /\ S[n + 1] = s + x
        /\ Have(n + 1) = h + (IF n + 1 \in {a, b} THEN x ELSE 0)
        /\ Debt(n + 1) = d + (IF n + 1 \in Weighted \ {a, b} THEN T ELSE 0)
    BY <2>3, <1>4
  <2>6. (n + 1 \in I) <=> Have(n + 1) <= S[n + 1] + Debt(n + 1)
    BY <2>1
  <2>7. CASE n + 1 \in {a, b}
    <3>1. Have(n + 1) = h + x /\ Debt(n + 1) = d
      BY <2>4, <2>5, <2>7
    <3> QED BY <3>1, <2>4, <2>5, <2>6
  <2>8. CASE n + 1 \in Weighted \ {a, b}
    <3>1. x >= -T
      BY <2>3, <2>8 DEF HasIn
    <3>2. Have(n + 1) = h /\ Debt(n + 1) = d + T
      BY <2>4, <2>5, <2>8
    <3> QED BY <3>1, <3>2, <2>4, <2>5, <2>6
  <2>9. CASE n + 1 \notin Weighted
    <3>1. x = 0
      BY <2>3, <2>9 DEF HasIn
    <3>2. Have(n + 1) = h /\ Debt(n + 1) = d
      BY <2>4, <2>5, <2>9
    <3> QED BY <3>1, <3>2, <2>4, <2>5, <2>6
  <2> QED BY <2>7, <2>8, <2>9
<1>8. Len(ws) \in I
  <2> HIDE DEF I
  <2>1. 0 .. Len(ws) \subseteq I
    BY <1>1, <1>5, <1>7, UpTo
  <2> QED BY <2>1, <1>1
<1> QED BY <1>6, <1>8

-----------------------------------------------------------------------------
(* RouteRing: the credits.                                                 *)

LEMMA CreditsStep ==
    ASSUME RingType
    PROVE  /\ Credits[0] = [i \in Weighted |-> 0]
           /\ \A n \in Nat : Credits[n] \in [Weighted -> Int] /\ Credits[n + 1] = Charged(Raised(Credits[n]))
<1> DEFINE V == [Weighted -> Int]
           base == [i \in Weighted |-> 0]
           more == [n \in Nat |-> [c \in V |-> Charged(Raised(c))]]
<1>1. TotalWeight \in Int /\ \A i \in Weighted : ws[i] \in Int
  BY WeightedPlaces
<1>2. ASSUME NEW c \in V PROVE Raised(c) \in V /\ Charged(Raised(c)) \in V
  <2>1. Raised(c) \in V
    BY <1>1 DEF Raised
  <2>2. ASSUME NEW d \in V PROVE Charged(d) \in V
    <3>1. PICK r, t : r = Richest(d) /\ t = TotalWeight
      OBVIOUS
    <3>2. Charged(d) = [d EXCEPT ![r] = @ - t]
      BY <3>1, Zenon DEF Charged
    <3>3. t \in Int
      BY <1>1, <3>1
    <3>4. [d EXCEPT ![r] = @ - t] = [i \in Weighted |-> IF i = r THEN d[i] - t ELSE d[i]]
      OBVIOUS
    <3>5. [i \in Weighted |-> IF i = r THEN d[i] - t ELSE d[i]] \in [Weighted -> Int]
      BY <3>3
    <3> QED BY <3>2, <3>4, <3>5
  <2> QED BY <2>1, <2>2
<1>3. base \in V
  OBVIOUS
<1>4. Moves(more, V)
  BY <1>2 DEF Moves
<1> HIDE DEF more, V, base
<1>5. PICK f : GoesOn(f, V, base, more)
  BY <1>3, <1>4, StepByStep, Zenon
<1>6. \A n \in Nat : f[n] \in V /\ f[n + 1] = Charged(Raised(f[n]))
  BY <1>5 DEF GoesOn, more
<1>7. f = [k \in Nat |-> IF k = 0 THEN [i \in Weighted |-> 0] ELSE Charged(Raised(f[k - 1]))]
  <2>1. f = [k \in Nat |-> f[k]]
    BY <1>5 DEF GoesOn
  <2>2. ASSUME NEW k \in Nat PROVE f[k] = IF k = 0 THEN [i \in Weighted |-> 0] ELSE Charged(Raised(f[k - 1]))
    <3>1. CASE k = 0
      BY <3>1, <1>5 DEF GoesOn, base
    <3>2. CASE k # 0
      <4>1. k - 1 \in Nat /\ (k - 1) + 1 = k
        BY <3>2
      <4>2. f[(k - 1) + 1] = Charged(Raised(f[k - 1]))
        BY <4>1, <1>6
      <4> QED BY <3>2, <4>1, <4>2
    <3> QED BY <3>1, <3>2
  <2> QED BY <2>1, <2>2, Zenon
<1>8. Credits = [k \in Nat |-> IF k = 0 THEN [i \in Weighted |-> 0] ELSE Charged(Raised(Credits[k - 1]))]
  BY <1>7, Zenon DEF Credits
<1>9. Credits[0] = [i \in Weighted |-> 0]
  BY <1>8
<1>10. \A n \in Nat : Credits[n + 1] = Charged(Raised(Credits[n]))
  <2> TAKE n \in Nat
  <2>1. n + 1 \in Nat /\ n + 1 # 0 /\ (n + 1) - 1 = n
    OBVIOUS
  <2> QED BY <1>8, <2>1
<1>11. \A n \in Nat : Credits[n] \in V
  <2> DEFINE I == {n \in Nat : Credits[n] \in V}
  <2>1. 0 \in I
    BY <1>3, <1>9 DEF base
  <2>2. ASSUME NEW n \in Nat, n \in I PROVE n + 1 \in I
    BY <1>2, <1>10, <2>2
  <2> HIDE DEF I
  <2>3. Nat \subseteq I
    BY <2>1, <2>2, AllNumbers
  <2> QED BY <2>3 DEF I
<1> QED BY <1>9, <1>10, <1>11 DEF V

\* There is a richest, and it is one of the weighted.
LEMMA RichestIs ==
    ASSUME RingType, Weighted # {}, NEW c \in [Weighted -> Int]
    PROVE  Richest(c) \in Weighted /\ \A i \in Weighted : c[i] <= c[Richest(c)]
<1> DEFINE Best(i, n) == /\ i \in Weighted /\ i <= n
                         /\ \A j \in Weighted : j <= n => c[j] < c[i] \/ (c[j] = c[i] /\ i <= j)
           I == {n \in 0 .. Len(ws) : (\E i \in Weighted : i <= n) => \E i : Best(i, n)}
<1>1. Len(ws) \in Nat /\ Weighted \subseteq 1 .. Len(ws) /\ Weighted \subseteq Nat
  BY WeightedPlaces
<1>2. 0 \in I
  <2>1. \A i \in Weighted : ~(i <= 0)
    BY <1>1
  <2> QED BY <1>1, <2>1
<1>3. ASSUME NEW n \in 0 .. (Len(ws) - 1), n \in I PROVE n + 1 \in I
  <2>1. n \in Nat /\ n + 1 \in 0 .. Len(ws) /\ \A i \in Weighted : i <= n + 1 <=> i <= n \/ i = n + 1
    BY <1>1
  <2>2. CASE n + 1 \notin Weighted
    <3>1. \A i \in Weighted : i <= n + 1 <=> i <= n
      BY <2>1, <2>2
    <3>2. \A i : Best(i, n) => Best(i, n + 1)
      BY <3>1
    <3> QED BY <1>3, <2>1, <3>1, <3>2
  <2>3. CASE n + 1 \in Weighted
    <3>1. CASE ~\E i \in Weighted : i <= n
      <4>1. Best(n + 1, n + 1)
        BY <2>1, <2>3, <3>1
      <4> QED BY <2>1, <4>1
    <3>2. ASSUME NEW i, Best(i, n) PROVE \E k : Best(k, n + 1)
      <4>1. CASE c[n + 1] > c[i]
        <5>1. \A j \in Weighted : j <= n => c[j] < c[n + 1]
          BY <3>2, <4>1, <2>3
        <5>2. Best(n + 1, n + 1)
          BY <2>1, <2>3, <5>1
        <5> QED BY <5>2
      <4>2. CASE ~(c[n + 1] > c[i])
        <5>1. i \in Weighted /\ i <= n + 1
          BY <3>2, <2>1
        <5>2. c[n + 1] < c[i] \/ c[n + 1] = c[i]
          BY <4>2, <2>3, <5>1
        <5>3. Best(i, n + 1)
          BY <2>1, <3>2, <5>1, <5>2
        <5> QED BY <5>3
      <4> QED BY <4>1, <4>2
    <3>3. (\E i \in Weighted : i <= n) => \E i : Best(i, n)
      BY <1>3
    <3> HIDE DEF Best
    <3>4. \E k : Best(k, n + 1)
      <4>1. CASE ~\E i \in Weighted : i <= n
        BY <3>1, <4>1, <2>3, <2>1 DEF Best
      <4>2. CASE \E i \in Weighted : i <= n
        BY <4>2, <3>2, <3>3
      <4> QED BY <4>1, <4>2
    <3> QED BY <2>1, <3>4
  <2> QED BY <2>2, <2>3
<1>4. Len(ws) \in I
  <2> HIDE DEF I
  <2>1. 0 .. Len(ws) \subseteq I
    BY <1>1, <1>2, <1>3, UpTo
  <2> QED BY <2>1, <1>1
<1>5. PICK b : Best(b, Len(ws))
  BY <1>1, <1>4
<1>6. DOMAIN c = Weighted /\ b \in Weighted
      /\ \A j \in Weighted : c[j] < c[b] \/ (c[j] = c[b] /\ b <= j)
  BY <1>1, <1>5
<1>7. Richest(c) \in Weighted /\ \A j \in Weighted : c[j] < c[Richest(c)] \/ (c[j] = c[Richest(c)] /\ Richest(c) <= j)
  BY <1>6 DEF Richest
<1> QED BY <1>7

\* What one step of the loop does.
LEMMA OneStep ==
    ASSUME RingType, Weighted # {}, NEW c \in [Weighted -> Int]
    PROVE  /\ Richest(Raised(c)) \in Weighted
           /\ \A i \in Weighted : c[i] + ws[i] <= c[Richest(Raised(c))] + ws[Richest(Raised(c))]
           /\ \A i \in Weighted : Charged(Raised(c))[i] =
                  c[i] + ws[i] - (IF i = Richest(Raised(c)) THEN TotalWeight ELSE 0)
<1>1. TotalWeight \in Int /\ \A i \in Weighted : ws[i] \in Int
  BY WeightedPlaces
<1>2. Raised(c) \in [Weighted -> Int] /\ \A i \in Weighted : Raised(c)[i] = c[i] + ws[i]
  BY <1>1 DEF Raised
<1>3. Richest(Raised(c)) \in Weighted /\ \A i \in Weighted : Raised(c)[i] <= Raised(c)[Richest(Raised(c))]
  BY <1>2, RichestIs
<1>4. ASSUME NEW i \in Weighted
      PROVE  Charged(Raised(c))[i] = c[i] + ws[i] - (IF i = Richest(Raised(c)) THEN TotalWeight ELSE 0)
  BY <1>1, <1>2, <1>3 DEF Charged
<1> QED BY <1>2, <1>3, <1>4

\* The credits: they sum up to nothing, nobody owes a whole cycle, nobody is owed more than
\* half of what the others may owe.
CreditsBounded(k) ==
    /\ Amounts(Credits[k], 0)
    /\ \A i \in Weighted : -TotalWeight < Credits[k][i]
                          /\ 2 * Credits[k][i] <= (Cardinality(Weighted) - 1) * TotalWeight

LEMMA TotalPositive ==
    ASSUME RingType, Weighted # {}
    PROVE  TotalWeight \in Nat /\ TotalWeight > 0 /\ \A i \in Weighted : ws[i] <= TotalWeight
<1>1. Weighted \subseteq 1 .. Len(ws) /\ \A i \in Weighted : ws[i] \in Nat /\ ws[i] > 0
  BY WeightedPlaces
<1> DEFINE w == [i \in Weighted |-> ws[i]]
<1>2. w \in [Weighted -> Int] /\ \A i \in Weighted : w[i] >= 0
  BY <1>1
<1>3. SumsOf(Total, w)
  <2>1. \A i : HasIn(w, i) = HasIn(ws, i)
    BY DEF HasIn
  <2> QED BY <2>1, AmountsOfTotal DEF SumsOf
<1>4. \A i \in Weighted : w[i] <= Total[Len(ws)]
  BY <1>2, <1>3, SumsSign
<1>5. \A i \in Weighted : ws[i] <= TotalWeight
  BY <1>4, AmountsOfTotal
<1>6. TotalWeight \in Int
  BY WeightedPlaces
<1>7. PICK i \in Weighted : TRUE
  OBVIOUS
<1>8. ws[i] \in Nat /\ ws[i] > 0 /\ ws[i] <= TotalWeight
  BY <1>1, <1>5
<1> QED BY <1>5, <1>6, <1>8

\* A step takes away as much as it gives.
LEMMA StepBalances ==
    ASSUME RingType, Weighted # {}, NEW c \in [Weighted -> Int], NEW S, SumsOf(S, c), S[Len(ws)] = 0
    PROVE  /\ SumsOf([n \in 0 .. Len(ws) |-> S[n] + Total[n]], Raised(c))
           /\ Amounts(Charged(Raised(c)), 0)
<1>1. /\ Len(ws) \in Nat /\ Weighted \subseteq 1 .. Len(ws) /\ TotalWeight \in Int
      /\ \A i \in 1 .. Len(ws) : ws[i] \in Nat
  BY WeightedPlaces
<1>2. SumsOf(Total, ws) /\ Total[Len(ws)] = TotalWeight
  BY AmountsOfTotal
<1> DEFINE R == [n \in 0 .. Len(ws) |-> S[n] + Total[n]]
           v == Raised(c)
           p == Richest(v)
           U == [n \in 0 .. Len(ws) |-> R[n] - (IF p <= n THEN TotalWeight ELSE 0)]
<1>3. p \in Weighted /\ p \in 1 .. Len(ws)
  BY <1>1, OneStep
<1>4. \A n \in 0 .. Len(ws) : S[n] \in Int /\ Total[n] \in Int
  BY <1>2 DEF SumsOf
<1>5. \A i : /\ HasIn(v, i) = HasIn(c, i) + HasIn(ws, i)
             /\ HasIn(Charged(v), i) = HasIn(v, i) - (IF i = p THEN TotalWeight ELSE 0)
             /\ HasIn(c, i) \in Int /\ HasIn(ws, i) \in Int
  <2> TAKE i
  <2>1. CASE i \in Weighted
    <3>1. v[i] = c[i] + ws[i] /\ ws[i] \in Int /\ c[i] \in Int
      BY <2>1, <1>1 DEF Raised
    <3>2. Charged(v)[i] = c[i] + ws[i] - (IF i = p THEN TotalWeight ELSE 0)
      BY <2>1, OneStep
    <3> HIDE DEF p, v
    <3> QED BY <2>1, <3>1, <3>2, <1>1 DEF HasIn
  <2>2. CASE i \notin Weighted
    BY <2>2, <1>3 DEF HasIn
  <2> QED BY <2>1, <2>2
<1>6. SumsOf(R, v)
  <2>1. R \in [0 .. Len(ws) -> Int] /\ R[0] = 0
    BY <1>1, <1>2, <1>4 DEF SumsOf
  <2>2. ASSUME NEW n \in 1 .. Len(ws) PROVE R[n] = R[n - 1] + HasIn(v, n)
    <3>1. n \in 0 .. Len(ws) /\ n - 1 \in 0 .. Len(ws)
      BY <1>1
    <3>2. S[n] = S[n - 1] + HasIn(c, n) /\ Total[n] = Total[n - 1] + HasIn(ws, n)
      BY <1>2 DEF SumsOf
    <3>3. HasIn(v, n) = HasIn(c, n) + HasIn(ws, n) /\ HasIn(c, n) \in Int /\ HasIn(ws, n) \in Int
      BY <1>5
    <3> QED BY <3>1, <3>2, <3>3, <1>4
  <2> HIDE DEF R
  <2> QED BY <2>1, <2>2 DEF SumsOf
<1>7. R[Len(ws)] = TotalWeight
  BY <1>1, <1>2
<1>8. \A n \in 0 .. Len(ws) : R[n] \in Int
  BY <1>6 DEF SumsOf
<1> HIDE DEF R, p, v
<1>9. SumsOf(U, Charged(v))
  <2>1. U \in [0 .. Len(ws) -> Int] /\ U[0] = 0
    <3>1. R[0] = 0 /\ ~(p <= 0) /\ 0 \in 0 .. Len(ws)
      BY <1>1, <1>3, <1>6 DEF SumsOf
    <3> QED BY <3>1, <1>1, <1>3, <1>8
  <2>2. ASSUME NEW n \in 1 .. Len(ws) PROVE U[n] = U[n - 1] + HasIn(Charged(v), n)
    <3>1. n \in 0 .. Len(ws) /\ n - 1 \in 0 .. Len(ws)
      BY <1>1
    <3>2. R[n] = R[n - 1] + HasIn(v, n) /\ HasIn(v, n) \in Int
      BY <1>6, <1>5 DEF SumsOf
    <3>3. HasIn(Charged(v), n) = HasIn(v, n) - (IF n = p THEN TotalWeight ELSE 0)
      BY <1>5
    <3>4. p <= n <=> p <= n - 1 \/ n = p
      BY <1>1, <1>3
    <3>5. ~(n = p /\ p <= n - 1)
      BY <1>1, <1>3
    <3> QED BY <3>1, <3>2, <3>3, <3>4, <3>5, <1>8, <1>1
  <2> HIDE DEF U
  <2> QED BY <2>1, <2>2 DEF SumsOf
<1>10. U[Len(ws)] = 0
  BY <1>1, <1>3, <1>7
<1> QED BY <1>6, <1>9, <1>10 DEF Amounts, R, v

LEMMA CreditsBound ==
    ASSUME RingType, Weighted # {}
    PROVE  \A k \in Nat : CreditsBounded(k)
<1> DEFINE T == TotalWeight
           N == Cardinality(Weighted)
           I == {k \in Nat : CreditsBounded(k)}
<1>1. /\ Len(ws) \in Nat /\ Weighted \subseteq 1 .. Len(ws) /\ T \in Nat /\ T > 0
      /\ \A i \in Weighted : ws[i] \in Nat /\ ws[i] > 0 /\ ws[i] <= T
  BY WeightedPlaces, TotalPositive
<1>2. N \in Nat /\ N >= 1
  <2>1. IsFiniteSet(Weighted) /\ N \in Nat
    BY WeightedPlaces
  <2>2. N # 0
    BY <2>1, FS_EmptySet
  <2> QED BY <2>1, <2>2
<1>3. 0 \in I
  <2>1. Credits[0] = [i \in Weighted |-> 0]
    BY CreditsStep
  <2>2. SumsOf([n \in 0 .. Len(ws) |-> 0], Credits[0])
    <3>1. \A i : HasIn(Credits[0], i) = 0
      BY <2>1 DEF HasIn
    <3> QED BY <1>1, <3>1 DEF SumsOf
  <2>3. Amounts(Credits[0], 0)
    BY <1>1, <2>2 DEF Amounts
  <2>4. 0 <= (N - 1) * T
    <3>1. PICK m \in Nat : m = N - 1
      BY <1>2
    <3>2. m * T >= 0
      BY <1>1
    <3> QED BY <3>1, <3>2
  <2> QED BY <2>1, <2>3, <2>4, <1>1 DEF CreditsBounded
<1>4. ASSUME NEW k \in Nat, k \in I PROVE k + 1 \in I
  <2> DEFINE c == Credits[k]
             v == Raised(c)
             p == Richest(v)
  <2>1. c \in [Weighted -> Int] /\ Credits[k + 1] = Charged(v)
    BY CreditsStep
  <2>2. PICK S : SumsOf(S, c) /\ S[Len(ws)] = 0
    BY <1>4 DEF CreditsBounded, Amounts
  <2> DEFINE R == [n \in 0 .. Len(ws) |-> S[n] + Total[n]]
  <2>3. SumsOf(R, v) /\ Amounts(Charged(v), 0)
    BY <2>1, <2>2, StepBalances
  <2>4. R[Len(ws)] = T
    BY <1>1, <2>2, AmountsOfTotal DEF SumsOf
  <2>5. v \in [Weighted -> Int] /\ \A i \in Weighted : v[i] = c[i] + ws[i]
    BY <1>1, <2>1 DEF Raised
  <2>6. /\ p \in Weighted /\ \A i \in Weighted : c[i] + ws[i] <= c[p] + ws[p]
        /\ \A i \in Weighted : Charged(v)[i] = c[i] + ws[i] - (IF i = p THEN T ELSE 0)
    BY <2>1, OneStep
  <2>7. \A i \in Weighted : -T < c[i] /\ 2 * c[i] <= (N - 1) * T
    BY <1>4 DEF CreditsBounded
  <2> HIDE DEF R, v, p, c, T, N
  <2>11. \A i \in Weighted : v[i] <= v[p]
    BY <2>5, <2>6
  <2>8. v[p] > 0
    <3>1. ASSUME \A i \in Weighted : v[i] <= 0 PROVE FALSE
      BY <3>1, <2>3, <2>4, <2>5, <1>1, SumsSign
    <3>2. \A i \in Weighted : v[i] \in Int
      BY <2>5
    <3> QED BY <3>1, <3>2, <2>6, <2>11
  <2>9. PICK M \in Int : M = (N - 1) * T
    BY <1>1, <1>2
  <2>10. ASSUME NEW i \in Weighted PROVE -T < Charged(v)[i] /\ 2 * Charged(v)[i] <= M
    <3>1. CASE i = p
      <4>1. Charged(v)[i] = c[i] + ws[i] - T /\ Charged(v)[i] = v[p] - T
        <5>1. Charged(v)[i] = c[i] + ws[i] - T
          BY <3>1, <2>6
        <5>2. c[i] \in Int /\ ws[i] \in Int /\ T \in Int
          BY <1>1, <2>1
        <5> QED BY <5>1, <5>2, <3>1, <2>5
      <4>2. c[i] \in Int /\ ws[i] \in Nat /\ ws[i] <= T /\ 2 * c[i] <= M /\ v[p] \in Int
        BY <1>1, <2>1, <2>5, <2>6, <2>7, <2>9
      <4> QED BY <4>1, <4>2, <2>8, <1>1
    <3>2. CASE i # p
      <4>1. Charged(v)[i] = v[i] /\ v[i] = c[i] + ws[i]
        <5>1. Charged(v)[i] = c[i] + ws[i] /\ v[i] = c[i] + ws[i]
          BY <3>2, <2>1, <2>5, <2>6, <1>1
        <5> QED BY <5>1
      <4>2. \A j \in Weighted \ {i, p} : v[j] >= -T
        <5> TAKE j \in Weighted \ {i, p}
        <5>1. v[j] = c[j] + ws[j] /\ c[j] \in Int /\ ws[j] \in Nat /\ -T < c[j]
          BY <1>1, <2>1, <2>5, <2>7
        <5> QED BY <5>1, <1>1
      <4>3. v[i] + v[p] <= T + T * (N - 2)
        BY <3>2, <4>2, <2>3, <2>4, <2>5, <2>6, <1>1, PairBound DEF N
      <4>4. T + T * (N - 2) = M
        <5>1. PICK m \in Int : m = N - 2
          BY <1>2
        <5>2. M = (m + 1) * T
          BY <5>1, <2>9, <1>2
        <5>3. (m + 1) * T = T + T * m
          BY <1>1
        <5> QED BY <5>1, <5>2, <5>3
      <4>5. v[i] <= v[p] /\ v[i] \in Int /\ v[p] \in Int /\ c[i] \in Int /\ ws[i] \in Nat /\ -T < c[i]
        BY <1>1, <2>1, <2>5, <2>6, <2>7, <2>11
      <4> QED BY <4>1, <4>3, <4>4, <4>5, <1>1
    <3> QED BY <3>1, <3>2
  <2> QED BY <2>1, <2>3, <2>9, <2>10 DEF CreditsBounded, T, N
<1> HIDE DEF I
<1>5. Nat \subseteq I
  BY <1>3, <1>4, AllNumbers
<1> QED BY <1>5 DEF I

\* After k steps placement i was given k times its weight and has paid for whole turns.
LEMMA CreditsCount ==
    ASSUME RingType, Weighted # {}
    PROVE  \A k \in Nat : \E q \in [Weighted -> Nat] :
               \A i \in Weighted : Credits[k][i] = k * ws[i] - TotalWeight * q[i]
<1> DEFINE T == TotalWeight
           Counted(k, q) == q \in [Weighted -> Nat] /\ \A i \in Weighted : Credits[k][i] = k * ws[i] - T * q[i]
           I == {k \in Nat : \E q : Counted(k, q)}
<1>1. T \in Nat /\ \A i \in Weighted : ws[i] \in Nat
  BY WeightedPlaces, TotalPositive
<1>2. 0 \in I
  <2> DEFINE q == [i \in Weighted |-> 0]
  <2>1. ASSUME NEW i \in Weighted PROVE Credits[0][i] = 0 * ws[i] - T * q[i]
    <3>1. Credits[0][i] = 0 /\ q[i] = 0 /\ 0 * ws[i] = 0 /\ T * 0 = 0
      BY <1>1, CreditsStep
    <3> QED BY <3>1
  <2>2. Counted(0, q)
    BY <2>1
  <2> QED BY <2>2
<1>3. ASSUME NEW k \in Nat, k \in I PROVE k + 1 \in I
  <2>1. PICK q : Counted(k, q)
    BY <1>3
  <2> DEFINE c == Credits[k]
             p == Richest(Raised(c))
             r == [i \in Weighted |-> q[i] + (IF i = p THEN 1 ELSE 0)]
  <2>2. c \in [Weighted -> Int] /\ Credits[k + 1] = Charged(Raised(c))
    BY CreditsStep
  <2>3. \A i \in Weighted : Charged(Raised(c))[i] = c[i] + ws[i] - (IF i = p THEN T ELSE 0)
    BY <2>2, OneStep
  <2> HIDE DEF p, T
  <2>4. r \in [Weighted -> Nat]
    BY <2>1
  <2>5. ASSUME NEW i \in Weighted PROVE Credits[k + 1][i] = (k + 1) * ws[i] - T * r[i]
    <3>1. Credits[k + 1][i] = c[i] + ws[i] - (IF i = p THEN T ELSE 0)
      BY <2>2, <2>3
    <3>2. c[i] = k * ws[i] - T * q[i] /\ q[i] \in Nat /\ ws[i] \in Nat
      BY <2>1, <1>1
    <3>3. PICK u \in Int, z \in Int : u = k * ws[i] /\ z = T * q[i]
      BY <3>2, <1>1
    <3>4. (k + 1) * ws[i] = u + ws[i]
      BY <3>2, <3>3
    <3>5. T * r[i] = z + (IF i = p THEN T ELSE 0)
      <4>1. CASE i = p
        <5>1. r[i] = q[i] + 1
          BY <4>1
        <5>2. T * (q[i] + 1) = z + T
          BY <3>2, <3>3, <1>1
        <5> QED BY <4>1, <5>1, <5>2
      <4>2. CASE i # p
        <5>1. r[i] = q[i]
          BY <4>2, <3>2
        <5> QED BY <4>2, <5>1, <3>3
      <4> QED BY <4>1, <4>2
    <3>6. c[i] = u - z
      BY <3>2, <3>3
    <3> HIDE DEF c, r
    <3> QED BY <3>1, <3>2, <3>4, <3>5, <3>6, <1>1
  <2>6. Counted(k + 1, r)
    BY <2>4, <2>5
  <2> HIDE DEF Counted, r, c
  <2> QED BY <2>6
<1> HIDE DEF I
<1>4. Nat \subseteq I
  BY <1>2, <1>3, AllNumbers
<1> QED BY <1>4 DEF I

\* After a whole cycle nobody owes anything.
LEMMA CreditsReturn ==
    ASSUME RingType, Weighted # {}
    PROVE  Credits[TotalWeight] = Credits[0]
<1> DEFINE T == TotalWeight
           c == Credits[T]
<1>1. T \in Nat /\ T > 0 /\ \A i \in Weighted : ws[i] \in Nat
  BY WeightedPlaces, TotalPositive
<1>2. PICK q \in [Weighted -> Nat] : \A i \in Weighted : c[i] = T * ws[i] - T * q[i]
  BY <1>1, CreditsCount
<1>3. c \in [Weighted -> Int]
  BY <1>1, CreditsStep
<1>4. CreditsBounded(T)
  BY <1>1, CreditsBound
<1>5. \A i \in Weighted : -T < c[i]
  BY <1>4 DEF CreditsBounded
<1>6. PICK S : SumsOf(S, c) /\ S[Len(ws)] = 0
  BY <1>4 DEF CreditsBounded, Amounts
<1>9. Credits[0] = [i \in Weighted |-> 0]
  BY CreditsStep
<1> HIDE DEF T, c
<1>7. \A i \in Weighted : c[i] >= 0
  <2> TAKE i \in Weighted
  <2>1. PICK d \in Int : d = ws[i] - q[i]
    BY <1>1
  <2>2. c[i] = T * d
    <3>1. T * d = T * ws[i] - T * q[i]
      BY <2>1, <1>1
    <3> QED BY <3>1, <1>2
  <2>3. CASE d >= 0
    <3>1. T * d >= 0
      BY <2>3, <1>1
    <3> QED BY <3>1, <2>2
  <2>4. CASE d < 0
    <3>1. T * d <= -T
      BY <2>4, <1>1
    <3> QED BY <3>1, <2>2, <1>1, <1>3, <1>5
  <2> QED BY <2>3, <2>4
<1>8. \A i \in Weighted : c[i] = 0
  <2>1. \A i \in Weighted : c[i] <= S[Len(ws)]
    BY <1>3, <1>6, <1>7, SumsSign
  <2> QED BY <2>1, <1>3, <1>6, <1>7
<1> QED BY <1>3, <1>8, <1>9 DEF T, c

-----------------------------------------------------------------------------
(* RouteRing: the inductive invariant.                                     *)

\* How far placement i is from a, where the ring of standbys stood.
Ahead(a, i) == IF i - 1 >= a THEN i - 1 - a ELSE i - 1 - a + Len(ws)

\* What was taken since the counter was at a, of a cycle: standbys in turn, the others what
\* their credits have changed by.
TakenSince(a) ==
    \A i \in DOMAIN ws :
        IF Weighted = {} THEN took[i] = IF Ahead(a, i) < since THEN 1 ELSE 0
        ELSE IF i \in Weighted
             THEN took[i] * TotalWeight - since * ws[i] = Credits[a][i] - Credits[rr % TotalWeight][i]
             ELSE took[i] = 0

RingInv ==
    /\ RingType /\ rr \in Nat /\ since \in 0 .. Cycle /\ took \in [DOMAIN ws -> Nat]
    /\ \E a \in 0 .. (Cycle - 1) :
          /\ rr % Cycle = IF a + since < Cycle THEN a + since ELSE a + since - Cycle
          /\ TakenSince(a)

LEMMA CycleType == RingType => Cycle \in Nat /\ Cycle > 0
<1> SUFFICES ASSUME RingType PROVE Cycle \in Nat /\ Cycle > 0
  OBVIOUS
<1>1. Len(ws) \in Nat /\ Len(ws) > 0
  BY DEF RingType
<1> QED BY <1>1, TotalPositive DEF Cycle

LEMMA FreshRing == RingType /\ rr \in Nat /\ since = 0 /\ took = [i \in DOMAIN ws |-> 0] => RingInv
<1> SUFFICES ASSUME RingType, rr \in Nat, since = 0, took = [i \in DOMAIN ws |-> 0] PROVE RingInv
  OBVIOUS
<1>1. Cycle \in Nat /\ Cycle > 0
  BY CycleType
<1>2. PICK a \in 0 .. (Cycle - 1) : a = rr % Cycle
  BY <1>1, NextRemainder
<1>3. TakenSince(a)
  <2> SUFFICES ASSUME NEW i \in DOMAIN ws
               PROVE  IF Weighted = {} THEN took[i] = IF Ahead(a, i) < since THEN 1 ELSE 0
                      ELSE IF i \in Weighted
                           THEN took[i] * TotalWeight - since * ws[i] = Credits[a][i] - Credits[rr % TotalWeight][i]
                           ELSE took[i] = 0
    BY DEF TakenSince
  <2>1. took[i] = 0 /\ i \in Nat /\ i > 0 /\ i <= Len(ws) /\ Len(ws) \in Nat
    BY DEF RingType
  <2>2. CASE Weighted = {}
    <3>1. Cycle = Len(ws)
      BY <2>2 DEF Cycle
    <3>2. ~(Ahead(a, i) < since)
      BY <1>2, <2>1, <3>1 DEF Ahead
    <3> QED BY <2>1, <2>2, <3>2
  <2>3. CASE i \in Weighted
    <3>1. Cycle = TotalWeight
      BY <2>3 DEF Cycle
    <3>2. a \in Nat /\ Credits[a][i] \in Int
      BY <2>3, <1>1, CreditsStep
    <3>3. ws[i] \in Int /\ TotalWeight \in Int
      BY <2>1, WeightedPlaces
    <3>4. 0 * TotalWeight = 0 /\ 0 * ws[i] = 0
      BY <3>3
    <3> QED BY <1>2, <2>1, <2>3, <3>1, <3>2, <3>4
  <2> QED BY <2>1, <2>2, <2>3
<1>4. rr % Cycle = IF a + since < Cycle THEN a + since ELSE a + since - Cycle
  BY <1>1, <1>2
<1> QED BY <1>1, <1>3, <1>4 DEF RingInv

\* One request, the rest of the ring's shape as it was.
LEMMA RouteStep == RingInv /\ Route => RingInv'
<1> SUFFICES ASSUME RingInv, Route PROVE RingInv'
  OBVIOUS
<1> DEFINE C == Cycle
           p == Pick(rr + 1)
           full == since = C
           had == [i \in DOMAIN ws |-> IF full THEN 0 ELSE took[i]]
<1>1. RingType /\ rr \in Nat /\ since \in 0 .. C /\ took \in [DOMAIN ws -> Nat]
  BY DEF RingInv
<1>2. PICK b \in 0 .. (C - 1) : rr % C = (IF b + since < C THEN b + since ELSE b + since - C) /\ TakenSince(b)
  BY DEF RingInv
<1>3. ws' = ws /\ rr' = rr + 1 /\ since' = (IF full THEN 0 ELSE since) + 1 /\ took' = [had EXCEPT ![p] = @ + 1]
  BY DEF Route
<1>4. C \in Nat /\ C > 0 /\ Len(ws) \in Nat /\ DOMAIN ws = 1 .. Len(ws) /\ Weighted \subseteq DOMAIN ws
  BY <1>1, CycleType, WeightedPlaces
<1>5. C' = C /\ Weighted' = Weighted /\ TotalWeight' = TotalWeight /\ Credits' = Credits /\ RingType'
  BY <1>1, <1>3 DEF Cycle, Weighted, TotalWeight, Total, Credits, Raised, Charged, Richest, RingType
<1>6. rr % C \in 0 .. (C - 1) /\ (rr + 1) % C = IF (rr % C) + 1 = C THEN 0 ELSE (rr % C) + 1
  BY <1>1, <1>4, NextRemainder
<1>7. PICK a \in 0 .. (C - 1) : a = IF full THEN rr % C ELSE b
  BY <1>6
<1>8. PICK s \in 0 .. (C - 1) : s = IF full THEN 0 ELSE since
  BY <1>1, <1>4
<1>9. rr % C = IF a + s < C THEN a + s ELSE a + s - C
  BY <1>2, <1>4, <1>6, <1>7, <1>8
<1>10. since' = s + 1
  BY <1>3, <1>8
<1>11. (rr + 1) - 1 = rr
  BY <1>1
<1> HIDE DEF C, p, full
<1>12. rr' % C' = IF a + since' < C' THEN a + since' ELSE a + since' - C'
  BY <1>3, <1>4, <1>5, <1>6, <1>9, <1>10
<1>13. \A i \in DOMAIN ws : took'[i] = had[i] + (IF i = p THEN 1 ELSE 0) /\ had[i] \in Nat
  <2> TAKE i \in DOMAIN ws
  <2>1. had[i] \in Nat
    BY <1>1
  <2>2. took'[i] = had[i] + (IF i = p THEN 1 ELSE 0)
    BY <1>3, <2>1
  <2> QED BY <2>1, <2>2
<1>14. took' \in [DOMAIN ws' -> Nat]
  <2>1. took' = [i \in DOMAIN ws |-> took'[i]]
    BY <1>3
  <2>2. \A i \in DOMAIN ws : took'[i] \in Nat
    BY <1>13
  <2> QED BY <1>3, <2>1, <2>2
<1>15. CASE Weighted = {}
  <2>1. C = Len(ws)
    BY <1>15 DEF C, Cycle
  <2>2. p = (rr % C) + 1
    BY <1>11, <1>15, <2>1 DEF p, Pick
  <2>3. ASSUME NEW i \in DOMAIN ws PROVE took'[i] = IF Ahead(a, i) < since' THEN 1 ELSE 0
    <3>1. i \in 1 .. Len(ws)
      BY <1>4
    <3>2. had[i] = IF Ahead(a, i) < s THEN 1 ELSE 0
      <4>1. CASE full
        <5>1. had[i] = 0 /\ s = 0
          BY <4>1, <1>8
        <5>2. ~(Ahead(a, i) < 0)
          BY <1>4, <2>1, <3>1, <1>7 DEF Ahead
        <5> QED BY <5>1, <5>2
      <4>2. CASE ~full
        <5>1. had[i] = took[i] /\ s = since /\ a = b
          BY <4>2, <1>7, <1>8
        <5> QED BY <5>1, <1>2, <1>15 DEF TakenSince
      <4> QED BY <4>1, <4>2
    <3>3. i = p <=> Ahead(a, i) = s
      BY <1>4, <1>9, <2>1, <2>2, <3>1 DEF Ahead
    <3>4. Ahead(a, i) \in Int
      BY <1>4, <3>1 DEF Ahead
    <3>5. took'[i] = had[i] + (IF i = p THEN 1 ELSE 0)
      BY <1>13
    <3> HIDE DEF had
    <3> QED BY <1>10, <3>2, <3>3, <3>4, <3>5
  <2>4. TakenSince(a)'
    <3>1. \A i : Ahead(a, i)' = Ahead(a, i)
      BY <1>3 DEF Ahead
    <3> QED BY <1>3, <1>5, <1>15, <2>3, <3>1 DEF TakenSince
  <2> QED BY <2>4, <1>3, <1>1, <1>4, <1>5, <1>10, <1>12, <1>14 DEF RingInv, C
<1>16. CASE Weighted # {}
  <2>1. C = TotalWeight
    BY <1>16 DEF C, Cycle
  <2> DEFINE r == rr % TotalWeight
             c == Credits[r]
  <2>2. p = Richest(Raised(c))
    BY <1>11, <1>16 DEF p, Pick
  <2>3. r \in Nat /\ a \in Nat
    BY <1>4, <1>6, <2>1
  <2>4. c \in [Weighted -> Int] /\ Credits[r + 1] = Charged(Raised(c)) /\ Credits[a] \in [Weighted -> Int]
    BY <1>1, <2>3, CreditsStep
  <2>5. Credits[(rr + 1) % TotalWeight] = Credits[r + 1]
    <3>1. CASE r + 1 = TotalWeight
      <4>1. (rr + 1) % TotalWeight = 0
        BY <3>1, <1>6, <2>1
      <4> QED BY <3>1, <4>1, <1>1, <1>16, CreditsReturn
    <3>2. CASE r + 1 # TotalWeight
      BY <3>2, <1>6, <2>1
    <3> QED BY <3>1, <3>2
  <2>6. /\ p \in Weighted
        /\ \A i \in Weighted : Credits[(rr + 1) % TotalWeight][i] =
               c[i] + ws[i] - (IF i = p THEN TotalWeight ELSE 0)
    BY <1>1, <1>16, <2>2, <2>4, <2>5, OneStep
  <2>7. TotalWeight \in Nat /\ \A i \in DOMAIN ws : ws[i] \in Nat
    BY <1>4, <2>1, <1>1, WeightedPlaces
  <2> HIDE DEF c, r
  <2>8. ASSUME NEW i \in Weighted
        PROVE  took'[i] * TotalWeight - since' * ws[i] = Credits[a][i] - Credits[(rr + 1) % TotalWeight][i]
    <3>1. had[i] * TotalWeight - s * ws[i] = Credits[a][i] - c[i]
      <4>1. CASE full
        <5>1. had[i] = 0 /\ s = 0 /\ a = r
          BY <4>1, <1>4, <1>7, <1>8, <2>1 DEF r
        <5>2. 0 * TotalWeight = 0 /\ 0 * ws[i] = 0
          BY <1>4, <2>7
        <5>3. Credits[a][i] = c[i] /\ c[i] \in Int
          BY <5>1, <2>4 DEF c
        <5> QED BY <5>1, <5>2, <5>3
      <4>2. CASE ~full
        <5>1. had[i] = took[i] /\ s = since /\ a = b
          BY <4>2, <1>4, <1>7, <1>8
        <5> QED BY <5>1, <1>2, <1>4, <1>16 DEF TakenSince, c, r
      <4> QED BY <4>1, <4>2
    <3>2. took'[i] = had[i] + (IF i = p THEN 1 ELSE 0) /\ had[i] \in Nat
      BY <1>4, <1>13
    <3> HIDE DEF had
    <3>3. PICK u \in Int, z \in Int : u = had[i] * TotalWeight /\ z = s * ws[i]
      BY <3>2, <1>4, <2>7
    <3>4. since' * ws[i] = z + ws[i]
      <4>1. (s + 1) * ws[i] = s * ws[i] + ws[i]
        BY <1>4, <2>7
      <4> QED BY <4>1, <1>10, <3>3
    <3>5. took'[i] * TotalWeight = u + (IF i = p THEN TotalWeight ELSE 0)
      <4>1. CASE i = p
        <5>1. (had[i] + 1) * TotalWeight = had[i] * TotalWeight + TotalWeight
          BY <3>2, <2>7
        <5> QED BY <4>1, <5>1, <3>2, <3>3
      <4>2. CASE i # p
        BY <4>2, <3>2, <3>3
      <4> QED BY <4>1, <4>2
    <3>6. Credits[(rr + 1) % TotalWeight][i] = c[i] + ws[i] - (IF i = p THEN TotalWeight ELSE 0)
      BY <2>6
    <3>7. u - z = Credits[a][i] - c[i] /\ c[i] \in Int /\ Credits[a][i] \in Int /\ ws[i] \in Int
      BY <3>1, <3>3, <2>4, <2>7, <1>4
    <3>8. PICK v, w, x, y : /\ v = took'[i] * TotalWeight /\ w = since' * ws[i]
                            /\ x = Credits[a][i] /\ y = Credits[(rr + 1) % TotalWeight][i]
      OBVIOUS
    <3>9. PICK k, e, t : k = c[i] /\ e = ws[i] /\ t = (IF i = p THEN TotalWeight ELSE 0)
      OBVIOUS
    <3>10. k \in Int /\ e \in Int /\ t \in Int /\ x \in Int
      BY <3>7, <3>8, <3>9, <2>7
    <3>11. v = u + t /\ w = z + e
      BY <3>4, <3>5, <3>8, <3>9
    <3>12. y = k + e - t
      BY <3>6, <3>8, <3>9
    <3>13. u - z = x - k
      BY <3>7, <3>8, <3>9
    <3>14. v - w = x - y
      BY <3>3, <3>10, <3>11, <3>12, <3>13
    <3> QED BY <3>8, <3>14
  <2>9. ASSUME NEW i \in DOMAIN ws, i \notin Weighted PROVE took'[i] = 0
    <3>1. took[i] = 0
      BY <2>9, <1>2, <1>16 DEF TakenSince
    <3>2. had[i] = 0 /\ i # p
      BY <3>1, <2>9, <2>6
    <3> QED BY <3>2, <1>13
  <2>10. TakenSince(a)'
    BY <1>3, <1>5, <1>16, <2>8, <2>9 DEF TakenSince
  <2> QED BY <2>10, <1>3, <1>1, <1>4, <1>5, <1>10, <1>12, <1>14 DEF RingInv, C
<1> QED BY <1>15, <1>16

\* A ring of another shape: the counts begin anew.
LEMMA ChangeStep == RingInv /\ RingChange => RingInv'
<1> SUFFICES ASSUME RingInv, RingChange PROVE RingInv'
  OBVIOUS
<1>1. RingType /\ rr \in Nat /\ rr' = rr
  BY DEF RingInv, RingChange
<1>2. ASSUME NEW w, w \in Seq(Nat), w # <<>>, Reshaped(w) PROVE RingInv'
  <2>1. RingType' /\ (rr \in Nat)' /\ (since = 0)' /\ (took = [i \in DOMAIN ws |-> 0])'
    BY <1>1, <1>2 DEF Reshaped, RingType
  <2> QED BY <2>1, FreshRing, PTL
<1>3. CASE Join
  <2>1. PICK w \in 0 .. MaxRingWeight : Reshaped(Append(ws, w))
    BY <1>3 DEF Join
  <2>2. Append(ws, w) \in Seq(Nat) /\ Append(ws, w) # <<>>
    BY <1>1, RingBounds DEF RingType
  <2> QED BY <2>1, <2>2, <1>2
<1>4. CASE Leave
  <2>1. PICK k \in DOMAIN ws : Reshaped(SubSeq(ws, 1, k - 1) \o SubSeq(ws, k + 1, Len(ws)))
    BY <1>4 DEF Leave
  <2>2. k \in 1 .. Len(ws) /\ Len(ws) \in Nat /\ Len(ws) > 1
    BY <1>1, <1>4 DEF RingType, Leave
  <2> DEFINE x == SubSeq(ws, 1, k - 1)
             y == SubSeq(ws, k + 1, Len(ws))
  <2>3. x \in Seq(Nat) /\ y \in Seq(Nat) /\ Len(x) = k - 1 /\ Len(y) = Len(ws) - k
    <3>1. ws \in Seq(Nat)
      BY <1>1 DEF RingType
    <3>2. 1 \in 1 .. (Len(ws) + 1) /\ k - 1 \in (1 - 1) .. Len(ws)
      BY <2>2
    <3>3. k + 1 \in 1 .. (Len(ws) + 1) /\ Len(ws) \in ((k + 1) - 1) .. Len(ws)
      BY <2>2
    <3>4. x \in Seq(Nat) /\ Len(x) = (k - 1) - 1 + 1
      BY <3>1, <3>2, SubSeqProperties
    <3>5. y \in Seq(Nat) /\ Len(y) = Len(ws) - (k + 1) + 1
      BY <3>1, <3>3, SubSeqProperties
    <3> HIDE DEF x, y
    <3> QED BY <3>4, <3>5, <2>2
  <2> HIDE DEF x, y
  <2>4. x \o y \in Seq(Nat) /\ Len(x \o y) = Len(ws) - 1
    BY <2>2, <2>3
  <2>5. x \o y # <<>>
    BY <2>2, <2>4
  <2> QED BY <2>1, <2>4, <2>5, <1>2 DEF x, y
<1>5. CASE Weigh
  <2>1. PICK k \in DOMAIN ws : \E w \in 0 .. MaxRingWeight \ {ws[k]} : Reshaped([ws EXCEPT ![k] = w])
    BY <1>5 DEF Weigh
  <2>2. PICK w \in 0 .. MaxRingWeight \ {ws[k]} : Reshaped([ws EXCEPT ![k] = w])
    BY <2>1
  <2>3. w \in Nat
    BY RingBounds
  <2>4. [ws EXCEPT ![k] = w] \in Seq(Nat) /\ [ws EXCEPT ![k] = w] # <<>>
    BY <1>1, <2>3 DEF RingType
  <2> QED BY <2>2, <2>4, <1>2
<1> QED BY <1>3, <1>4, <1>5 DEF RingChange

LEMMA RingInvariant == RingSpec => []RingInv
<1>1. RingInit => RingInv
  <2> SUFFICES ASSUME RingInit PROVE RingInv
    OBVIOUS
  <2>1. PICK k \in 1 .. MaxRing : ws \in [1 .. k -> 0 .. MaxRingWeight]
    BY DEF RingInit, Rings
  <2>2. ws \in Seq(Nat) /\ ws # <<>>
    BY <2>1, RingBounds
  <2> QED BY <2>2, FreshRing DEF RingInit, RingType
<1>2. RingInv /\ UNCHANGED ringVars => RingInv'
  <2> SUFFICES ASSUME RingInv, UNCHANGED ringVars PROVE RingInv'
    OBVIOUS
  <2>1. ws' = ws /\ rr' = rr /\ since' = since /\ took' = took
    BY DEF ringVars
  <2>2. Cycle' = Cycle /\ Weighted' = Weighted /\ TotalWeight' = TotalWeight /\ Credits' = Credits /\ RingType'
    BY <2>1 DEF RingInv, Cycle, Weighted, TotalWeight, Total, Credits, Raised, Charged, Richest, RingType
  <2>3. \A a : TakenSince(a)' = TakenSince(a)
    BY <2>1, <2>2 DEF TakenSince, Ahead
  <2> QED BY <2>1, <2>2, <2>3 DEF RingInv
<1>3. RingInv /\ [RingNext]_ringVars => RingInv'
  BY <1>2, RouteStep, ChangeStep DEF RingNext
<1> QED BY <1>1, <1>3, PTL DEF RingSpec

(* Whatever placements a ring has and whatever weights they have and come to have, a whole   *)
(* cycle gives each of them exactly its share, wherever the shared counter stood when the    *)
(* ring took its shape; and within the cycle each of n weighted ones is always less than     *)
(* (n + 1) / 2 requests away from its share.                                                 *)
THEOREM RingFair == RingSpec => []RouteFair
<1>1. ASSUME RingInv PROVE RouteExact
  <2> SUFFICES ASSUME since = Cycle, NEW i \in DOMAIN ws
               PROVE  took[i] = IF Weighted = {} THEN 1 ELSE ws[i]
    BY DEF RouteExact
  <2>1. RingType /\ took \in [DOMAIN ws -> Nat]
    BY <1>1 DEF RingInv
  <2>2. PICK a \in 0 .. (Cycle - 1) :
          rr % Cycle = (IF a + since < Cycle THEN a + since ELSE a + since - Cycle) /\ TakenSince(a)
    BY <1>1 DEF RingInv
  <2>3. Cycle \in Nat /\ Cycle > 0 /\ i \in 1 .. Len(ws) /\ Len(ws) \in Nat /\ ws[i] \in Nat
    BY <2>1, CycleType DEF RingType
  <2>4. CASE Weighted = {}
    <3>1. Cycle = Len(ws)
      BY <2>4 DEF Cycle
    <3>2. Ahead(a, i) < since
      BY <2>3, <3>1 DEF Ahead
    <3> QED BY <2>2, <2>4, <3>2 DEF TakenSince
  <2>5. CASE i \in Weighted
    <3>1. Cycle = TotalWeight /\ rr % TotalWeight = a
      <4>1. Cycle = TotalWeight
        BY <2>5 DEF Cycle
      <4>2. rr % Cycle = a
        BY <2>2, <2>3
      <4> QED BY <4>1, <4>2
    <3>2. took[i] * TotalWeight - since * ws[i] = Credits[a][i] - Credits[rr % TotalWeight][i]
      BY <2>2, <2>5 DEF TakenSince
    <3>3. Credits[a][i] \in Int
      <4>1. a \in Nat
        BY <2>3
      <4>2. Credits[a] \in [Weighted -> Int]
        BY <2>1, <4>1, CreditsStep
      <4> QED BY <2>5, <4>2
    <3>4. took[i] * TotalWeight - TotalWeight * ws[i] = 0
      BY <3>1, <3>2, <3>3
    <3>5. PICK d \in Int : d = took[i] - ws[i]
      BY <2>1, <2>3
    <3>6. TotalWeight * d = 0
      <4>1. TotalWeight * d = took[i] * TotalWeight - TotalWeight * ws[i]
        BY <2>1, <2>3, <3>1, <3>5
      <4> QED BY <4>1, <3>4
    <3>7. d = 0
      BY <2>3, <3>1, <3>6
    <3>8. took[i] \in Nat
      BY <2>1
    <3> QED BY <2>3, <2>5, <3>5, <3>7, <3>8
  <2>6. CASE Weighted # {} /\ i \notin Weighted
    <3>1. took[i] = 0 /\ ws[i] = 0
      BY <2>1, <2>2, <2>3, <2>6, WeightedPlaces DEF TakenSince
    <3> QED BY <2>6, <3>1
  <2> QED BY <2>4, <2>5, <2>6
<1>2. ASSUME RingInv PROVE RouteSmooth
  <2> DEFINE most == (Cardinality(Weighted) + 1) * TotalWeight
             gap(i) == took[i] * TotalWeight - since * ws[i]
  <2> SUFFICES ASSUME Weighted # {}, NEW i \in DOMAIN ws
               PROVE  -most < 2 * gap(i) /\ 2 * gap(i) < most
    BY DEF RouteSmooth
  <2>1. RingType /\ took \in [DOMAIN ws -> Nat] /\ rr \in Nat /\ since \in Nat
    <3>1. RingType /\ took \in [DOMAIN ws -> Nat] /\ rr \in Nat /\ since \in 0 .. Cycle
      BY <1>2 DEF RingInv
    <3> QED BY <3>1, CycleType
  <2>2. PICK a \in 0 .. (Cycle - 1) : TakenSince(a)
    <3>1. PICK a \in 0 .. (Cycle - 1) :
            rr % Cycle = (IF a + since < Cycle THEN a + since ELSE a + since - Cycle) /\ TakenSince(a)
      BY <1>2 DEF RingInv
    <3> QED BY <3>1
  <2>3. /\ TotalWeight \in Nat /\ TotalWeight > 0 /\ Cardinality(Weighted) \in Nat /\ ws[i] \in Nat
        /\ (i \in Weighted <=> ws[i] > 0)
    BY <2>1, WeightedPlaces, TotalPositive
  <2>4. PICK n \in Nat : n = Cardinality(Weighted)
    BY <2>3
  <2>5. PICK x \in Int : x = n * TotalWeight
    BY <2>3, <2>4
  <2>6. most = x + TotalWeight /\ (n - 1) * TotalWeight = x - TotalWeight /\ x >= 0
    <3>1. (n + 1) * TotalWeight = x + TotalWeight
      BY <2>3, <2>5
    <3>2. (n - 1) * TotalWeight = x - TotalWeight
      BY <2>3, <2>5
    <3>3. n * TotalWeight >= 0
      BY <2>3
    <3> QED BY <2>4, <2>5, <3>1, <3>2, <3>3
  <2> HIDE DEF most
  <2>7. CASE i \in Weighted
    <3> DEFINE b == rr % TotalWeight
    <3>1. a \in Nat /\ b \in Nat
      BY <2>1, <2>3, CycleType, NextRemainder
    <3>2. gap(i) = Credits[a][i] - Credits[b][i]
      BY <2>2, <2>7 DEF TakenSince
    <3> HIDE DEF b, gap
    <3>3. Credits[a][i] \in Int /\ Credits[b][i] \in Int
      BY <2>1, <2>7, <3>1, CreditsStep
    <3>4. /\ -TotalWeight < Credits[a][i] /\ 2 * Credits[a][i] <= x - TotalWeight
          /\ -TotalWeight < Credits[b][i] /\ 2 * Credits[b][i] <= x - TotalWeight
      BY <2>1, <2>4, <2>6, <2>7, <3>1, CreditsBound DEF CreditsBounded
    <3> QED BY <2>3, <2>6, <3>2, <3>3, <3>4
  <2>8. CASE i \notin Weighted
    <3>1. took[i] = 0 /\ ws[i] = 0
      BY <2>2, <2>3, <2>8 DEF TakenSince
    <3>2. gap(i) = 0
      <4>1. 0 * TotalWeight = 0 /\ since * 0 = 0
        BY <2>1, <2>3
      <4> QED BY <3>1, <4>1
    <3> HIDE DEF gap
    <3> QED BY <2>3, <2>6, <3>2
  <2> QED BY <2>7, <2>8
<1>3. RingInv => RouteFair
  BY <1>1, <1>2 DEF RouteFair
<1> QED BY <1>3, RingInvariant, PTL

-----------------------------------------------------------------------------
(* CommandJourney: entries and how they are read.                          *)

\* The value there is under one of several names, or none.
LEMMA FirstIs ==
    ASSUME NEW f, NEW names, DOMAIN names \subseteq Nat, NEW i \in DOMAIN names,
           \A j \in DOMAIN names \ {i} : f[names[j]] = Absent
    PROVE  First(f, names) = f[names[i]]
<1> DEFINE there == {j \in DOMAIN names : f[names[j]] # Absent}
<1>1. CASE f[names[i]] = Absent
  <2>1. there = {}
    BY <1>1
  <2> QED BY <2>1, <1>1 DEF First
<1>2. CASE f[names[i]] # Absent
  <2>1. there = {i}
    BY <1>2
  <2> DEFINE k == CHOOSE k \in there : \A j \in there : k <= j
  <2>2. i \in there /\ \A j \in there : i <= j
    BY <2>1
  <2>3. k \in there
    BY <2>2
  <2>4. First(f, names) = f[names[k]]
    BY <2>1 DEF First
  <2> QED BY <2>1, <2>3, <2>4
<1> QED BY <1>1, <1>2

LEMMA NamesAre ==
    /\ DOMAIN TypeNames = 1 .. 2 /\ TypeNames[1] = "t" /\ TypeNames[2] = "type"
    /\ DOMAIN SiteNames = 1 .. 5 /\ SiteNames[1] = "ss" /\ SiteNames[2] = "source_site"
    /\ SiteNames[3] = "service_id" /\ SiteNames[4] = "site_id" /\ SiteNames[5] = "st"
    /\ DOMAIN NameNames = 1 .. 4 /\ NameNames[1] = "c" /\ NameNames[2] = "cmd"
    /\ NameNames[3] = "command" /\ NameNames[4] = "command_name"
    /\ DOMAIN BodyNames = 1 .. 3 /\ BodyNames[1] = "p" /\ BodyNames[2] = "params" /\ BodyNames[3] = "parameters"
    /\ DOMAIN IdNames = 1 .. 2 /\ IdNames[1] = "id" /\ IdNames[2] = "request_id"
BY DEF TypeNames, SiteNames, NameNames, BodyNames, IdNames

IsMessage(m) ==
    m = [id |-> m.id, type |-> m.type, site |-> m.site, to |-> m.to, name |-> m.name, params |-> m.params,
         request |-> m.request, batch |-> m.batch, sequence |-> m.sequence, status |-> m.status,
         result |-> m.result, parts |-> m.parts, ext |-> m.ext, hint |-> m.hint, target |-> m.target,
         back |-> m.back]

\* The message of an entry with a command.
LEMMA ParsedCommand ==
    ASSUME NEW at, NEW f, First(f, TypeNames) = "c", First(f, NameNames) # Absent
    PROVE  LET m == Parse(at, f)
           IN  /\ IsMessage(m) /\ m.id = at /\ m.type = "c" /\ m.name = First(f, NameNames)
               /\ m.site = IF First(f, SiteNames) = Absent THEN EmptyText ELSE First(f, SiteNames)
               /\ m.params = Parsed(First(f, BodyNames)) /\ m.request = First(f, IdNames)
               /\ m.batch = f["bi"] /\ m.sequence = f["sq"] /\ m.ext = {n \in ExtNames : f[n] # Absent}
               /\ m.hint = f["_gh"] /\ m.target = f["_rt"] /\ m.back = f["_rr"]
BY DEF Parse, NoMessage, IsMessage

\* The fields of an encoded command.
LEMMA CommandFieldsRead ==
    ASSUME NEW m, m.type = "c", m.ext \subseteq ExtNames
    PROVE  LET f == Encode(m)
           IN  /\ f["t"] = "c" /\ f["type"] = Absent /\ f["ss"] = m.site
               /\ \A n \in {"source_site", "service_id", "site_id", "st"} : f[n] = Absent
               /\ f["c"] = m.name /\ \A n \in {"cmd", "command", "command_name"} : f[n] = Absent
               /\ f["p"] = m.params /\ \A n \in {"params", "parameters"} : f[n] = Absent
               /\ f["id"] = m.id /\ f["request_id"] = Absent
               /\ f["bi"] = m.batch /\ f["sq"] = m.sequence /\ f["_gh"] = Absent
               /\ f["_rt"] = m.target /\ f["_rr"] = m.back
               /\ \A n \in ExtNames : f[n] = IF n \in m.ext THEN Given ELSE Absent
<1> DEFINE f == Encode(m)
<1>1. \A n \in FieldNames :
        f[n] = IF n \in m.ext THEN Given
               ELSE IF n = "c" THEN m.name ELSE IF n = "p" THEN m.params ELSE Common(m)[n]
  BY DEF Encode, Common, Fields
<1>2. \A n \in FieldNames \ ExtNames :
        f[n] = IF n = "c" THEN m.name ELSE IF n = "p" THEN m.params ELSE Common(m)[n]
  BY <1>1
<1>3. FieldNames \ ExtNames =
        {"t", "type", "ss", "source_site", "service_id", "site_id", "st", "c", "cmd", "command", "command_name",
         "p", "params", "parameters", "id", "request_id", "ds", "bi", "sq", "m", "ri", "r", "status", "result",
         "_gh", "_rt", "_rr", "_rf"}
  BY DEF FieldNames, ExtNames
<1>4. \A n \in ExtNames : Common(m)[n] = Absent
  BY DEF Common, Fields, FieldNames, ExtNames
<1>5. \A n \in ExtNames : f[n] = IF n \in m.ext THEN Given ELSE Absent
  BY <1>1, <1>4 DEF FieldNames, ExtNames
<1> HIDE DEF f
<1>9. f["t"] = "c" /\ f["type"] = Absent /\ f["ss"] = m.site
  <2>1. f["t"] = m.type
    BY <1>2, <1>3 DEF Common, Fields, FieldNames
  <2>2. f["type"] = Absent
    BY <1>2, <1>3 DEF Common, Fields, FieldNames
  <2>3. f["ss"] = m.site
    BY <1>2, <1>3 DEF Common, Fields, FieldNames
  <2> QED BY <2>1, <2>2, <2>3
<1>6. /\ \A n \in {"source_site", "service_id", "site_id", "st"} : f[n] = Absent
  BY <1>2, <1>3 DEF Common, Fields, FieldNames
<1>7. /\ f["c"] = m.name /\ \A n \in {"cmd", "command", "command_name"} : f[n] = Absent
      /\ f["p"] = m.params /\ \A n \in {"params", "parameters"} : f[n] = Absent
  BY <1>2, <1>3 DEF Common, Fields, FieldNames
<1>8. /\ f["id"] = m.id /\ f["request_id"] = Absent
      /\ f["bi"] = m.batch /\ f["sq"] = m.sequence /\ f["_gh"] = Absent
      /\ f["_rt"] = m.target /\ f["_rr"] = m.back
  BY <1>2, <1>3 DEF Common, Fields, FieldNames
<1> QED BY <1>5, <1>6, <1>7, <1>8, <1>9 DEF f

\* What is no reply and says it is a command is one.
LEMMA SaysCommand ==
    ASSUME NEW f, f["t"] = "c", f["type"] = Absent
    PROVE  IsCommand(f) /\ First(f, TypeNames) = "c"
<1> DEFINE g == [n \in FieldNames |-> IF f[n] = EmptyText THEN Absent ELSE f[n]]
<1>1. g["t"] = "c" /\ g["type"] = Absent
  <2>1. "c" # EmptyText /\ Absent # EmptyText
    BY JourneyValues DEF Words
  <2>2. "t" \in FieldNames /\ "type" \in FieldNames
    BY DEF FieldNames
  <2> QED BY <2>1, <2>2
<1>2. \A h : h["type"] = Absent => First(h, TypeNames) = h["t"]
  <2> TAKE h
  <2> HAVE h["type"] = Absent
  <2>1. \A j \in DOMAIN TypeNames \ {1} : h[TypeNames[j]] = Absent
    BY NamesAre
  <2>2. DOMAIN TypeNames \subseteq Nat /\ 1 \in DOMAIN TypeNames
    BY NamesAre
  <2>3. First(h, TypeNames) = h[TypeNames[1]]
    BY <2>1, <2>2, FirstIs
  <2> QED BY <2>3, NamesAre
<1>3. Filled(f, TypeNames) = "c"
  BY <1>1, <1>2 DEF Filled
<1>4. ~IsReply(f)
  BY DEF IsReply
<1> QED BY <1>2, <1>3, <1>4 DEF IsCommand

\* A command comes out of an entry as it went in, but for the ids: the entry's own, and the
\* one that was written into it as the one it is asked under.
LEMMA CommandComesBack ==
    ASSUME NEW at, NEW m, m.type = "c", m.ext \subseteq ExtNames, m.name # Absent, m.params \notin {Absent, Junk}
    PROVE  LET f == Encode(m)
               p == Parse(at, f)
           IN  /\ IsCommand(f) /\ f["id"] = m.id /\ f["_rr"] = m.back
               /\ IsMessage(p) /\ p.id = at /\ p.type = "c" /\ p.name = m.name /\ p.params = m.params
               /\ p.site = (IF m.site = Absent THEN EmptyText ELSE m.site) /\ p.request = m.id
               /\ p.batch = m.batch /\ p.sequence = m.sequence /\ p.ext = m.ext
               /\ p.hint = Absent /\ p.target = m.target /\ p.back = m.back
<1> DEFINE f == Encode(m)
           p == Parse(at, f)
<1>1. /\ f["t"] = "c" /\ f["type"] = Absent /\ f["ss"] = m.site
      /\ f["source_site"] = Absent /\ f["service_id"] = Absent /\ f["site_id"] = Absent /\ f["st"] = Absent
      /\ f["c"] = m.name /\ f["cmd"] = Absent /\ f["command"] = Absent /\ f["command_name"] = Absent
      /\ f["p"] = m.params /\ f["params"] = Absent /\ f["parameters"] = Absent
      /\ f["id"] = m.id /\ f["request_id"] = Absent
  BY CommandFieldsRead
<1>2. /\ f["bi"] = m.batch /\ f["sq"] = m.sequence /\ f["_gh"] = Absent
      /\ f["_rt"] = m.target /\ f["_rr"] = m.back
      /\ \A n \in ExtNames : f[n] = IF n \in m.ext THEN Given ELSE Absent
  BY CommandFieldsRead
<1> HIDE DEF f
<1>3. First(f, TypeNames) = "c" /\ IsCommand(f)
  BY <1>1, SaysCommand
<1>4. First(f, SiteNames) = m.site
  <2>1. \A j \in DOMAIN SiteNames \ {1} : f[SiteNames[j]] = Absent
    BY <1>1, NamesAre
  <2> QED BY <1>1, <2>1, NamesAre, FirstIs
<1>5. First(f, NameNames) = m.name
  <2>1. \A j \in DOMAIN NameNames \ {1} : f[NameNames[j]] = Absent
    BY <1>1, NamesAre
  <2> QED BY <1>1, <2>1, NamesAre, FirstIs
<1>6. First(f, BodyNames) = m.params
  <2>1. \A j \in DOMAIN BodyNames \ {1} : f[BodyNames[j]] = Absent
    BY <1>1, NamesAre
  <2> QED BY <1>1, <2>1, NamesAre, FirstIs
<1>7. First(f, IdNames) = m.id
  <2>1. \A j \in DOMAIN IdNames \ {1} : f[IdNames[j]] = Absent
    BY <1>1, NamesAre
  <2> QED BY <1>1, <2>1, NamesAre, FirstIs
<1>8. /\ IsMessage(p) /\ p.id = at /\ p.type = "c" /\ p.name = First(f, NameNames)
      /\ p.site = (IF First(f, SiteNames) = Absent THEN EmptyText ELSE First(f, SiteNames))
      /\ p.params = Parsed(First(f, BodyNames)) /\ p.request = First(f, IdNames)
      /\ p.batch = f["bi"] /\ p.sequence = f["sq"] /\ p.ext = {n \in ExtNames : f[n] # Absent}
      /\ p.hint = f["_gh"] /\ p.target = f["_rt"] /\ p.back = f["_rr"]
  BY <1>3, <1>5, ParsedCommand
<1>9. p.ext = m.ext
  BY <1>2, <1>8, JourneyValues
<1>10. p.params = m.params
  BY <1>6, <1>8 DEF Parsed
<1> HIDE DEF p
<1> QED BY <1>1, <1>2, <1>3, <1>4, <1>5, <1>7, <1>8, <1>9, <1>10 DEF f, p

-----------------------------------------------------------------------------
(* CommandJourney: what a client writes is read as it was meant.           *)

\* The wish, in particular its only command.
LEMMA WishIs ==
    ASSUME wish \in Asked
    PROVE  /\ wish.id \in ClientIds \cup {EmptyText, Absent}
           /\ wish.target \in RelayServices \cup {Origin, Unknown, Absent}
           /\ wish.back \in RelayServices \cup {Absent} /\ wish.hint \in {Given, Absent}
           /\ wish.batch \in {Given, Absent} /\ wish.envelope \in BOOLEAN /\ wish.junk \in BOOLEAN
           /\ Len(wish.works) \in Nat \ {0} /\ DOMAIN wish.works = 1 .. Len(wish.works)
           /\ ~wish.envelope => Len(wish.works) = 1
<1>1. wish \in Wish /\ wish.works # <<>> /\ (~wish.envelope => Len(wish.works) = 1)
  BY WhatIsAsked
<1>2. wish.works \in Seq(Work)
  BY <1>1 DEF Wish
<1>3. Len(wish.works) \in Nat \ {0} /\ DOMAIN wish.works = 1 .. Len(wish.works)
  BY <1>1, <1>2
<1> QED BY <1>1, <1>3 DEF Wish

LEMMA WorkIs ==
    ASSUME wish \in Asked, NEW i \in DOMAIN wish.works
    PROVE  LET w == wish.works[i]
           IN  /\ w = [name |-> w.name, body |-> w.body, rid |-> w.rid, ext |-> w.ext]
               /\ w.name \notin {Absent, EmptyText} /\ w.name # "geo_disc"
               /\ w.body \in {Given, NoObject} /\ w.rid \in ClientIds \cup {Absent}
               /\ wish.envelope => w.ext = {}
               /\ \A ext \in {{}, w.ext} : Parameters(w, ext) \notin {Absent, Junk, NoObject}
<1>1. wish.works \in Seq(Work)
  BY WhatIsAsked DEF Wish
<1>2. wish.works[i] \in Work
  BY <1>1
<1>3. \A long \in DOMAIN Short : wish.works[i].name # Short[long]
  BY WhatIsAsked
<1>4. wish.works[i].name # "geo_disc"
  BY <1>3 DEF Short
<1>5. /\ wish.envelope => wish.works[i].ext = {}
      /\ \A ext \in {{}, wish.works[i].ext} : Parameters(wish.works[i], ext) \notin {Absent, Junk, NoObject}
  BY WhatIsAsked
<1>6. wish.works[i].name \notin {Absent, EmptyText}
  BY <1>2, JourneyValues DEF Work
<1> QED BY <1>2, <1>4, <1>5, <1>6 DEF Work

\* A name stays what it is, however it is written on the wire.
LEMMA NamesStay ==
    ASSUME NEW name, name # "geo_disc"
    PROVE  Expand(name) = name /\ Expand(Shorten(name)) = name
<1>1. DOMAIN Short = {"geometric_discover"} /\ Short["geometric_discover"] = "geo_disc"
  BY DEF Short
<1>2. Expand(name) = name
  BY <1>1 DEF Expand
<1>3. Expand("geo_disc") = "geometric_discover"
  BY <1>1 DEF Expand
<1>4. CASE name = "geometric_discover"
  BY <1>1, <1>2, <1>3, <1>4 DEF Shorten
<1>5. CASE name # "geometric_discover"
  BY <1>1, <1>2, <1>5 DEF Shorten
<1> QED BY <1>2, <1>4, <1>5

AsWished(m) ==
    /\ IsMessage(m) /\ m.id = 1 /\ m.type = "c" /\ m.site = Origin /\ m.request = wish.id
    /\ m.target = wish.target /\ m.back = wish.back
    /\ m.name \notin {Absent, EmptyText} /\ m.params \notin {Absent, Junk} /\ m.ext \subseteq ExtNames
    /\ <<WorkOf(m)>> = Meant

LEMMA MeantIs ==
    ASSUME wish \in Asked, ~wish.envelope
    PROVE  LET w == wish.works[1]
           IN  Meant = <<[name |-> w.name, body |-> w.body, rid |-> w.rid,
                          ext |-> w.ext \cup Also(wish.batch, "batch_id")]>>
<1>1. Len(wish.works) = 1 /\ DOMAIN wish.works = {1}
  BY WishIs
<1>2. wish.works[1] = [name |-> wish.works[1].name, body |-> wish.works[1].body,
                       rid |-> wish.works[1].rid, ext |-> wish.works[1].ext]
  BY <1>1, WorkIs
<1> DEFINE w == wish.works[1]
           v == [w EXCEPT !.ext = @ \cup Also(wish.batch, "batch_id") \cup {}]
<1>3. Meant = [i \in {1} |-> [wish.works[i] EXCEPT !.ext = @ \cup Also(wish.batch, "batch_id") \cup {}]]
  BY <1>1 DEF Meant
<1>4. Meant = [i \in {1} |-> v]
  BY <1>3
<1>5. v = [name |-> w.name, body |-> w.body, rid |-> w.rid, ext |-> w.ext \cup Also(wish.batch, "batch_id")]
  BY <1>2
<1> HIDE DEF v
<1>6. [i \in {1} |-> v] = <<v>>
  OBVIOUS
<1> QED BY <1>4, <1>5, <1>6

LEMMA LibraryRead ==
    ASSUME wish \in Asked, CanSpell(wish, Library)
    PROVE  LET f == Spell(wish, Library) IN IsCommand(f) /\ AsWished(Parse(1, f))
<1> DEFINE w == wish.works[1]
           m == FromStandard(wish.id, w)
           f == Encode(m)
           p == Parse(1, f)
<1>1. /\ ~wish.envelope /\ wish.id # Absent
      /\ wish.target = Absent /\ wish.back = Absent /\ wish.batch = Absent
  BY DEF CanSpell
<1>2. 1 \in DOMAIN wish.works
  BY <1>1, WishIs
<1>3. /\ w.name \notin {Absent, EmptyText} /\ w.name # "geo_disc"
      /\ Parameters(w, w.ext) \notin {Absent, Junk, NoObject}
  BY <1>2, WorkIs
<1>4. /\ m.id = wish.id /\ m.type = "c" /\ m.site = Origin /\ m.name = Shorten(w.name)
      /\ m.params = Parameters(w, w.ext) /\ m.ext = w.ext \cap ExtNames
      /\ m.batch = (IF "batch_id" \in w.ext THEN Given ELSE Absent)
      /\ m.sequence = (IF {"batch_id", "sequence"} \subseteq w.ext THEN Given ELSE Absent)
      /\ m.target = Absent /\ m.back = Absent
  BY DEF FromStandard, NoMessage
<1>5. m.name \notin {Absent, EmptyText}
  <2>1. Absent # "geo_disc" /\ EmptyText # "geo_disc"
    BY JourneyValues DEF Words
  <2> QED BY <2>1, <1>3, <1>4 DEF Shorten, Short
<1> HIDE DEF m
<1>6. /\ IsCommand(f) /\ IsMessage(p) /\ p.id = 1 /\ p.type = "c" /\ p.name = m.name /\ p.params = m.params
      /\ p.site = (IF m.site = Absent THEN EmptyText ELSE m.site) /\ p.request = m.id
      /\ p.batch = m.batch /\ p.sequence = m.sequence /\ p.ext = m.ext
      /\ p.target = m.target /\ p.back = m.back
  BY <1>3, <1>4, <1>5, CommandComesBack
<1> HIDE DEF f, p
<1>7. WorkOf(p) = [name |-> w.name, body |-> w.body, rid |-> w.rid, ext |-> w.ext]
  <2>1. Expand(p.name) = w.name
    BY <1>3, <1>4, <1>6, NamesStay
  <2>2. Object(p) = Parameters(w, w.ext)
    BY <1>3, <1>4, <1>6 DEF Object
  <2>3. w.ext \cup p.ext \cup Also(p.batch, "batch_id") \cup Also(p.sequence, "sequence") = w.ext
    BY <1>4, <1>6 DEF Also
  <2>4. Object(p).body = w.body /\ Object(p).rid = w.rid /\ Object(p).ext = w.ext
    BY <2>2 DEF Parameters
  <2> QED BY <2>1, <2>3, <2>4, Zenon DEF WorkOf
<1>8. Meant = <<[name |-> w.name, body |-> w.body, rid |-> w.rid, ext |-> w.ext]>>
  <2>1. Also(wish.batch, "batch_id") = {}
    BY <1>1 DEF Also
  <2> QED BY <2>1, <1>1, MeantIs
<1>9. Origin # Absent
  BY JourneyValues
<1>10. AsWished(p)
  BY <1>1, <1>3, <1>4, <1>5, <1>6, <1>7, <1>8, <1>9 DEF AsWished
<1> QED BY <1>6, <1>10 DEF Spell, f, p, m

LEMMA WaysAre ==
    ASSUME NEW s \in Spellings \ {Library}
    PROVE  /\ s.type \in {"t", "type"} /\ s.site \in {"ss", "source_site", "service_id", "site_id", "st"}
           /\ s.name \in {"c", "cmd", "command", "command_name"} /\ s.body \in {"p", "params", "parameters"}
           /\ s.id \in {"id", "request_id"}
<1>1. s.type \in {"t", "type"} /\ s.body \in {"p", "params", "parameters"} /\ s.id \in {"id", "request_id"}
  BY HowItIsWritten, NamesAre
<1>2. s.site \in {"ss", "source_site", "service_id", "site_id", "st"}
  BY HowItIsWritten, NamesAre
<1>3. s.name \in {"c", "cmd", "command", "command_name"}
  BY HowItIsWritten, NamesAre
<1> QED BY <1>1, <1>2, <1>3

\* The fields of a command or an envelope in a client's own spelling.
LEMMA AroundFields ==
    ASSUME NEW s \in Spellings \ {Library}
    PROVE  LET f == Around(wish, s)
           IN  /\ DOMAIN f = FieldNames
               /\ \A n \in {"t", "type"} : f[n] = IF n = s.type THEN IF wish.envelope THEN "bc" ELSE "c" ELSE Absent
               /\ \A n \in {"ss", "source_site", "service_id", "site_id", "st"} :
                     f[n] = IF n = s.site THEN Origin ELSE Absent
               /\ \A n \in {"id", "request_id"} : f[n] = IF n = s.id THEN wish.id ELSE Absent
               /\ f["bi"] = wish.batch /\ f["_gh"] = wish.hint /\ f["_rt"] = wish.target /\ f["_rr"] = wish.back
               /\ \A n \in {"c", "cmd", "command", "command_name", "p", "params", "parameters", "sq", "status"} \cup ExtNames :
                     f[n] = Absent
<1> DEFINE r == Fields([_rt |-> wish.target, _rr |-> wish.back, _gh |-> wish.hint, bi |-> wish.batch])
           kind == IF wish.envelope THEN "bc" ELSE "c"
           f == [r EXCEPT ![s.type] = kind, ![s.site] = Origin, ![s.id] = wish.id]
<1>1. /\ DOMAIN r = FieldNames
      /\ r["bi"] = wish.batch /\ r["_gh"] = wish.hint /\ r["_rt"] = wish.target /\ r["_rr"] = wish.back
  BY DEF Fields, FieldNames
<1>2. \A n \in FieldNames \ {"bi", "_gh", "_rt", "_rr"} : r[n] = Absent
  BY DEF Fields
<1> HIDE DEF r, kind
<1>3. /\ s.type \in {"t", "type"} /\ s.site \in {"ss", "source_site", "service_id", "site_id", "st"}
      /\ s.id \in {"id", "request_id"}
  BY WaysAre
<1>4. \A n \in FieldNames :
        f[n] = IF n = s.id THEN wish.id ELSE IF n = s.site THEN Origin ELSE IF n = s.type THEN kind ELSE r[n]
  BY <1>1
<1>5. DOMAIN f = FieldNames
  BY <1>1
<1> HIDE DEF f
<1>6. \A n \in {"t", "type"} : f[n] = IF n = s.type THEN kind ELSE Absent
  BY <1>2, <1>3, <1>4 DEF FieldNames
<1>7. \A n \in {"ss", "source_site", "service_id", "site_id", "st"} : f[n] = IF n = s.site THEN Origin ELSE Absent
  BY <1>2, <1>3, <1>4 DEF FieldNames
<1>8. \A n \in {"id", "request_id"} : f[n] = IF n = s.id THEN wish.id ELSE Absent
  BY <1>2, <1>3, <1>4 DEF FieldNames
<1>9. f["bi"] = wish.batch /\ f["_gh"] = wish.hint /\ f["_rt"] = wish.target /\ f["_rr"] = wish.back
  BY <1>1, <1>3, <1>4 DEF FieldNames
<1>10. \A n \in {"c", "cmd", "command", "command_name", "p", "params", "parameters", "sq", "status"} : f[n] = Absent
  BY <1>2, <1>3, <1>4 DEF FieldNames
<1>11. \A n \in ExtNames : f[n] = Absent
  BY <1>2, <1>3, <1>4 DEF FieldNames, ExtNames
<1>12. f = Around(wish, s)
  BY DEF Around, f, r, kind
<1> QED BY <1>5, <1>6, <1>7, <1>8, <1>9, <1>10, <1>11, <1>12 DEF kind

\* Of several names, k alone is used, for v.
Under(f, names, k, v) == \A i \in DOMAIN names : f[names[i]] = IF names[i] = k THEN v ELSE Absent
NamedOnce(names, k) ==
    /\ DOMAIN names \subseteq Nat /\ \E i \in DOMAIN names : names[i] = k
    /\ \A i, j \in DOMAIN names : names[i] = names[j] => i = j

LEMMA OneOf ==
    ASSUME NEW f, NEW names, NEW k, NEW v, NamedOnce(names, k), Under(f, names, k, v)
    PROVE  First(f, names) = v
<1>1. PICK i \in DOMAIN names : names[i] = k
  BY DEF NamedOnce
<1>2. \A j \in DOMAIN names \ {i} : f[names[j]] = Absent
  BY <1>1 DEF NamedOnce, Under
<1>3. First(f, names) = f[names[i]]
  BY <1>2, FirstIs DEF NamedOnce
<1> QED BY <1>1, <1>3 DEF Under

LEMMA NamesDiffer ==
    ASSUME NEW s \in Spellings \ {Library}
    PROVE  /\ NamedOnce(TypeNames, s.type) /\ NamedOnce(SiteNames, s.site) /\ NamedOnce(NameNames, s.name)
           /\ NamedOnce(BodyNames, s.body) /\ NamedOnce(IdNames, s.id)
<1>1. NamedOnce(TypeNames, s.type) /\ NamedOnce(BodyNames, s.body) /\ NamedOnce(IdNames, s.id)
  BY HowItIsWritten, NamesAre DEF NamedOnce
<1>2. NamedOnce(SiteNames, s.site)
  BY HowItIsWritten, NamesAre DEF NamedOnce
<1>3. NamedOnce(NameNames, s.name)
  BY HowItIsWritten, NamesAre DEF NamedOnce
<1> QED BY <1>1, <1>2, <1>3

\* Spelled as a command for a reply to be: type, status and no name a service looks for.
LooksLikeAnswer(s) == s.type = "type" /\ s.site = "st" /\ s.name = "command_name"

LEMMA SpelledFields ==
    ASSUME wish \in Asked, NEW s \in Spellings \ {Library}, CanSpell(wish, s), ~wish.envelope
    PROVE  LET f == Spell(wish, s)
           IN  /\ Under(f, TypeNames, s.type, "c") /\ Under(f, SiteNames, s.site, Origin)
               /\ Under(f, NameNames, s.name, wish.works[1].name) /\ Under(f, BodyNames, s.body, BodyOf(wish))
               /\ Under(f, IdNames, s.id, wish.id)
               /\ f["bi"] = wish.batch /\ f["_gh"] = wish.hint /\ f["_rt"] = wish.target /\ f["_rr"] = wish.back
               /\ f["sq"] = Absent /\ f["status"] = Absent
               /\ {n \in ExtNames : f[n] # Absent} = wish.works[1].ext
<1> DEFINE a == Around(wish, s)
           f == Spell(wish, s)
           w == wish.works[1]
<1>1. w.ext \subseteq ExtNames
  BY DEF CanSpell
<1>2. /\ DOMAIN a = FieldNames
      /\ \A n \in {"t", "type"} : a[n] = IF n = s.type THEN "c" ELSE Absent
      /\ \A n \in {"ss", "source_site", "service_id", "site_id", "st"} : a[n] = IF n = s.site THEN Origin ELSE Absent
      /\ \A n \in {"id", "request_id"} : a[n] = IF n = s.id THEN wish.id ELSE Absent
      /\ a["bi"] = wish.batch /\ a["_gh"] = wish.hint /\ a["_rt"] = wish.target /\ a["_rr"] = wish.back
      /\ \A n \in {"c", "cmd", "command", "command_name", "p", "params", "parameters", "sq", "status"} \cup ExtNames :
            a[n] = Absent
  BY AroundFields
<1>3. s.name \in {"c", "cmd", "command", "command_name"} /\ s.body \in {"p", "params", "parameters"}
  BY WaysAre
<1> HIDE DEF a
<1>4. f = [n \in FieldNames |-> IF n \in w.ext THEN Given ELSE [a EXCEPT ![s.name] = w.name, ![s.body] = BodyOf(wish)][n]]
  BY DEF Spell, a
<1>5. \A n \in FieldNames :
        f[n] = IF n \in w.ext THEN Given
               ELSE IF n = s.body THEN BodyOf(wish) ELSE IF n = s.name THEN w.name ELSE a[n]
  BY <1>2, <1>4
<1> HIDE DEF f
<1>6. \A n \in FieldNames \ (ExtNames \cup {s.name, s.body}) : f[n] = a[n]
  BY <1>1, <1>5
<1>7. /\ \A n \in {"t", "type"} : f[n] = IF n = s.type THEN "c" ELSE Absent
      /\ \A n \in {"id", "request_id"} : f[n] = IF n = s.id THEN wish.id ELSE Absent
  <2>1. \A n \in {"t", "type", "id", "request_id"} : f[n] = a[n]
    BY <1>3, <1>6 DEF FieldNames, ExtNames
  <2> QED BY <2>1, <1>2
<1>8. \A n \in {"ss", "source_site", "service_id", "site_id", "st"} : f[n] = IF n = s.site THEN Origin ELSE Absent
  <2>1. \A n \in {"ss", "source_site", "service_id", "site_id", "st"} : f[n] = a[n]
    BY <1>3, <1>6 DEF FieldNames, ExtNames
  <2> QED BY <2>1, <1>2
<1>9. /\ f["bi"] = wish.batch /\ f["_gh"] = wish.hint /\ f["_rt"] = wish.target /\ f["_rr"] = wish.back
      /\ f["sq"] = Absent /\ f["status"] = Absent
  <2>1. \A n \in {"bi", "_gh", "_rt", "_rr", "sq", "status"} : f[n] = a[n]
    BY <1>3, <1>6 DEF FieldNames, ExtNames
  <2> QED BY <2>1, <1>2
<1>10. \A n \in {"c", "cmd", "command", "command_name"} : f[n] = IF n = s.name THEN w.name ELSE Absent
  <2> TAKE n \in {"c", "cmd", "command", "command_name"}
  <2>1. n \in FieldNames /\ n \notin ExtNames /\ n # s.body /\ a[n] = Absent
    BY <1>2, <1>3 DEF FieldNames, ExtNames
  <2> QED BY <2>1, <1>1, <1>5
<1>11. \A n \in {"p", "params", "parameters"} : f[n] = IF n = s.body THEN BodyOf(wish) ELSE Absent
  <2> TAKE n \in {"p", "params", "parameters"}
  <2>1. n \in FieldNames /\ n \notin ExtNames /\ n # s.name /\ a[n] = Absent
    BY <1>2, <1>3 DEF FieldNames, ExtNames
  <2> QED BY <2>1, <1>1, <1>5
<1>12. {n \in ExtNames : f[n] # Absent} = w.ext
  <2>1. ASSUME NEW n \in ExtNames PROVE f[n] = IF n \in w.ext THEN Given ELSE Absent
    <3>1. n \in FieldNames /\ n # s.name /\ n # s.body /\ a[n] = Absent
      BY <1>2, <1>3 DEF FieldNames, ExtNames
    <3> QED BY <3>1, <1>5
  <2> QED BY <2>1, <1>1, JourneyValues
<1>13. Under(f, TypeNames, s.type, "c") /\ Under(f, IdNames, s.id, wish.id)
  BY <1>7, NamesAre DEF Under
<1>14. Under(f, SiteNames, s.site, Origin)
  BY <1>8, NamesAre DEF Under
<1>15. Under(f, NameNames, s.name, w.name)
  BY <1>10, NamesAre DEF Under
<1>16. Under(f, BodyNames, s.body, BodyOf(wish))
  BY <1>11, NamesAre DEF Under
<1> QED BY <1>9, <1>12, <1>13, <1>14, <1>15, <1>16 DEF f, w

\* However a command is spelled, it is no answer, unless it bears a return address and looks
\* like one.
LEMMA SpelledIsCommand ==
    ASSUME wish \in Asked, NEW s \in Spellings \ {Library}, CanSpell(wish, s), ~wish.envelope,
           wish.back # Absent => ~LooksLikeAnswer(s)
    PROVE  IsCommand(Spell(wish, s))
<1> DEFINE f == Spell(wish, s)
           w == wish.works[1]
           g == [n \in FieldNames |-> IF f[n] = EmptyText THEN Absent ELSE f[n]]
<1>1. /\ Under(f, TypeNames, s.type, "c") /\ Under(f, SiteNames, s.site, Origin)
      /\ Under(f, NameNames, s.name, w.name)
      /\ f["_rr"] = wish.back /\ f["status"] = Absent
  BY SpelledFields
<1> HIDE DEF f
<1>2. "c" # EmptyText /\ Absent # EmptyText /\ Absent # "r" /\ Absent # "br"
  BY JourneyValues DEF Words
<1>3. Filled(f, TypeNames) = "c"
  <2>1. \A i \in DOMAIN TypeNames : TypeNames[i] \in FieldNames
    BY NamesAre DEF FieldNames
  <2>2. Under(g, TypeNames, s.type, "c")
    BY <2>1, <1>1, <1>2 DEF Under
  <2> HIDE DEF g
  <2>3. First(g, TypeNames) = "c"
    BY <2>2, OneOf, NamesDiffer
  <2> QED BY <2>3 DEF Filled, g
<1>4. ASSUME s.name # "command_name" PROVE Filled(f, <<"c", "cmd", "command">>) # Absent
  <2>1. w.name \notin {Absent, EmptyText}
    <3>1. 1 \in DOMAIN wish.works
      BY WishIs
    <3> QED BY <3>1, WorkIs
  <2> DEFINE names == <<"c", "cmd", "command">>
  <2>2. DOMAIN names = 1 .. 3 /\ \A i \in 1 .. 3 : names[i] = NameNames[i] /\ names[i] \in FieldNames
    BY NamesAre DEF FieldNames
  <2> HIDE DEF names
  <2>3. Under(g, names, s.name, w.name)
    <3>1. ASSUME NEW i \in 1 .. 3 PROVE g[names[i]] = IF names[i] = s.name THEN w.name ELSE Absent
      <4>1. f[names[i]] = IF names[i] = s.name THEN w.name ELSE Absent
        BY <2>2, <1>1, NamesAre DEF Under
      <4> QED BY <4>1, <2>1, <2>2, <1>2
    <3> QED BY <3>1, <2>2 DEF Under
  <2>4. NamedOnce(names, s.name)
    BY <1>4, <2>2, NamesDiffer, NamesAre DEF NamedOnce
  <2>5. First(g, names) = w.name
    <3> HIDE DEF g, w
    <3> QED BY <2>3, <2>4, OneOf, Zenon
  <2> QED BY <2>1, <2>5 DEF Filled, names
<1>5. ~IsReply(f)
  <2>1. CASE s.type = "t"
    <3>1. f["t"] = "c"
      BY <2>1, <1>1, NamesAre DEF Under
    <3> QED BY <3>1 DEF IsReply
  <2>2. CASE wish.back = Absent
    BY <2>2, <1>1 DEF IsReply
  <2>3. CASE s.name # "command_name"
    BY <2>3, <1>4 DEF IsReply
  <2>4. CASE s.type # "t" /\ s.site # "st"
    <3>1. f["t"] = Absent /\ f["st"] = Absent
      BY <2>4, <1>1, NamesAre DEF Under
    <3> QED BY <3>1, <1>1, <1>2 DEF IsReply
  <2> QED BY <2>1, <2>2, <2>3, <2>4, WaysAre DEF LooksLikeAnswer
<1> QED BY <1>3, <1>5 DEF IsCommand, f

LEMMA SpelledRead ==
    ASSUME wish \in Asked, NEW s \in Spellings \ {Library}, CanSpell(wish, s), ~wish.envelope
    PROVE  AsWished(Parse(1, Spell(wish, s)))
<1> DEFINE w == wish.works[1]
           f == Spell(wish, s)
           p == Parse(1, f)
<1>1. /\ Under(f, TypeNames, s.type, "c") /\ Under(f, SiteNames, s.site, Origin)
      /\ Under(f, NameNames, s.name, w.name) /\ Under(f, BodyNames, s.body, BodyOf(wish))
      /\ Under(f, IdNames, s.id, wish.id)
      /\ f["bi"] = wish.batch /\ f["_gh"] = wish.hint /\ f["_rt"] = wish.target /\ f["_rr"] = wish.back
      /\ f["sq"] = Absent /\ {n \in ExtNames : f[n] # Absent} = w.ext
  BY SpelledFields
<1>2. 1 \in DOMAIN wish.works /\ w.ext \subseteq ExtNames
  BY WishIs DEF CanSpell
<1>3. /\ w.name \notin {Absent, EmptyText} /\ w.name # "geo_disc"
      /\ w.body \in {Given, NoObject}
      /\ Parameters(w, w.ext) \notin {Absent, Junk, NoObject}
  BY <1>2, WorkIs
<1> HIDE DEF f
<1>4. /\ First(f, TypeNames) = "c" /\ First(f, SiteNames) = Origin /\ First(f, NameNames) = w.name
      /\ First(f, BodyNames) = BodyOf(wish) /\ First(f, IdNames) = wish.id
  <2> HIDE DEF w
  <2> QED BY <1>1, NamesDiffer, OneOf, Zenon
<1>5. /\ IsMessage(p) /\ p.id = 1 /\ p.type = "c" /\ p.name = First(f, NameNames)
      /\ p.site = (IF First(f, SiteNames) = Absent THEN EmptyText ELSE First(f, SiteNames))
      /\ p.params = Parsed(First(f, BodyNames)) /\ p.request = First(f, IdNames)
      /\ p.batch = f["bi"] /\ p.sequence = f["sq"] /\ p.ext = {n \in ExtNames : f[n] # Absent}
      /\ p.hint = f["_gh"] /\ p.target = f["_rt"] /\ p.back = f["_rr"]
  BY <1>3, <1>4, ParsedCommand
<1> HIDE DEF p, w
<1>6. Object(p).body = w.body /\ Object(p).rid = w.rid /\ (Object(p).ext = {} \/ Object(p).ext = w.ext)
  <2>1. CASE wish.junk
    <3>1. w.body = NoObject /\ w.rid = Absent
      <4>1. BodyOf([wish EXCEPT !.junk = FALSE]) = Absent
        BY <2>1, WhatIsAsked
      <4>2. [wish EXCEPT !.junk = FALSE].works = wish.works /\ [wish EXCEPT !.junk = FALSE].junk = FALSE
        BY WhatIsAsked DEF Wish
      <4> QED BY <4>1, <4>2, <1>3 DEF BodyOf, w
    <3>2. p.params = NoObject
      BY <2>1, <1>4, <1>5 DEF BodyOf, Parsed
    <3> QED BY <3>1, <3>2 DEF Object, EmptyObject
  <2>2. CASE ~wish.junk /\ w.body = NoObject /\ w.rid = Absent
    <3>1. p.params = NoObject
      BY <2>2, <1>4, <1>5 DEF BodyOf, Parsed, w
    <3> QED BY <2>2, <3>1 DEF Object, EmptyObject
  <2>3. CASE ~wish.junk /\ ~(w.body = NoObject /\ w.rid = Absent)
    <3>1. p.params = Parameters(w, w.ext)
      BY <2>3, <1>3, <1>4, <1>5 DEF BodyOf, Parsed, w
    <3>2. Object(p) = Parameters(w, w.ext)
      BY <3>1, <1>3 DEF Object
    <3> QED BY <3>2 DEF Parameters
  <2> QED BY <2>1, <2>2, <2>3
<1>7. Object(p).ext \cup p.ext \cup Also(p.batch, "batch_id") \cup Also(p.sequence, "sequence")
          = w.ext \cup Also(wish.batch, "batch_id")
  <2>1. Also(p.sequence, "sequence") = {} /\ p.ext = w.ext /\ p.batch = wish.batch
    BY <1>1, <1>5 DEF Also
  <2> QED BY <2>1, <1>6
<1>8. WorkOf(p) = [name |-> w.name, body |-> w.body, rid |-> w.rid, ext |-> w.ext \cup Also(wish.batch, "batch_id")]
  <2>1. Expand(p.name) = w.name
    BY <1>3, <1>4, <1>5, NamesStay
  <2> QED BY <2>1, <1>6, <1>7, Zenon DEF WorkOf
<1>9. <<WorkOf(p)>> = Meant
  BY <1>8, MeantIs DEF w
<1>10. p.params \notin {Absent, Junk}
  <2>1. BodyOf(wish) \in {Absent, Junk, Parameters(w, w.ext)}
    BY DEF BodyOf, w
  <2>2. NoObject \notin {Absent, Junk}
    BY JourneyValues
  <2> QED BY <2>1, <2>2, <1>3, <1>4, <1>5 DEF Parsed
<1>11. p.site = Origin /\ p.name \notin {Absent, EmptyText} /\ p.request = wish.id
       /\ p.target = wish.target /\ p.back = wish.back /\ p.ext \subseteq ExtNames
  BY <1>1, <1>2, <1>3, <1>4, <1>5, JourneyValues
<1> QED BY <1>5, <1>9, <1>10, <1>11 DEF AsWished, p, f

\* An array whose last part alone is cut short.
LEMMA AllButTheLast ==
    ASSUME NEW n \in Nat, NEW parts, DOMAIN parts = 1 .. (n + 1),
           \A i \in 1 .. n : parts[i].size = 4, parts[n + 1].size = 3
    PROVE  Uncut(parts) = [k \in 1 .. n |-> parts[k]]
<1> DEFINE whole == {i \in DOMAIN parts : parts[i].size >= 4}
<1>1. whole = 1 .. n
  <2>1. \A i \in 1 .. (n + 1) : i \in 1 .. n \/ i = n + 1
    OBVIOUS
  <2>2. n + 1 \notin whole /\ \A i \in 1 .. n : i \in whole
    OBVIOUS
  <2> QED BY <2>1, <2>2
<1> HIDE DEF whole
<1>2. Cardinality(whole) = n
  BY <1>1, FS_Interval
<1>3. ASSUME NEW i \in whole PROVE Cardinality({j \in whole : j < i}) = i - 1
  <2>1. {j \in whole : j < i} = 1 .. (i - 1) /\ i - 1 \in Int /\ i - 1 >= 0
    BY <1>1
  <2>2. Cardinality(1 .. (i - 1)) = i - 1
    BY <2>1, FS_Interval
  <2> QED BY <2>1, <2>2
<1>4. ASSUME NEW k \in 1 .. n
      PROVE  (CHOOSE i \in whole : Cardinality({j \in whole : j < i}) = k - 1) = k
  <2>1. \A i \in whole : Cardinality({j \in whole : j < i}) = k - 1 <=> i = k
    BY <1>1, <1>3
  <2>2. k \in whole
    BY <1>1
  <2> QED BY <2>1, <2>2
<1>5. Uncut(parts) = [k \in 1 .. Cardinality(whole) |->
          parts[CHOOSE i \in whole : Cardinality({j \in whole : j < i}) = k - 1]]
  BY DEF Uncut, whole
<1> QED BY <1>2, <1>4, <1>5

\* The message of an entry with an envelope.
LEMMA ParsedEnvelope ==
    ASSUME NEW at, NEW f, First(f, TypeNames) = "bc", f["m"] # Absent
    PROVE  LET m == Parse(at, f)
           IN  /\ m.type = "bc" /\ m.target = f["_rt"] /\ m.back = f["_rr"]
               /\ m.parts = [i \in DOMAIN Uncut(f["m"]) |-> SubMessage(Uncut(f["m"])[i], f["bi"])]
BY DEF Parse, NoMessage

\* Each command of an envelope as it was meant.
LEMMA PartRead ==
    ASSUME wish \in Asked, wish.envelope, NEW i \in DOMAIN wish.works
    PROVE  WorkOf(SubMessage(PartOf(wish.works[i]), wish.batch)) = Meant[i]
<1> DEFINE w == wish.works[i]
           m == SubMessage(PartOf(w), wish.batch)
<1>1. /\ w = [name |-> w.name, body |-> w.body, rid |-> w.rid, ext |-> w.ext] /\ w.ext = {}
      /\ w.name # "geo_disc" /\ Parameters(w, {}) \notin {Absent, Junk, NoObject}
  BY WorkIs
<1>2. Meant[i] = [w EXCEPT !.ext = @ \cup Also(wish.batch, "batch_id") \cup {"sequence"}]
  BY DEF Meant
<1>3. Meant[i] = [name |-> w.name, body |-> w.body, rid |-> w.rid,
                  ext |-> w.ext \cup Also(wish.batch, "batch_id") \cup {"sequence"}]
  BY <1>1, <1>2
<1>4. /\ m.name = w.name /\ m.params = Parameters(w, {}) /\ m.ext = {}
      /\ m.batch = wish.batch /\ m.sequence = Given
  BY <1>1 DEF SubMessage, NoMessage, PartOf, Parsed
<1> HIDE DEF m, w
<1>5. Object(m) = Parameters(w, {})
  BY <1>1, <1>4 DEF Object
<1>6. Object(m).body = w.body /\ Object(m).rid = w.rid /\ Object(m).ext = {}
  BY <1>5 DEF Parameters
<1>7. Object(m).ext \cup m.ext \cup Also(m.batch, "batch_id") \cup Also(m.sequence, "sequence")
          = w.ext \cup Also(wish.batch, "batch_id") \cup {"sequence"}
  <2>1. Also(m.sequence, "sequence") = {"sequence"}
    BY <1>4, JourneyValues DEF Also
  <2> QED BY <2>1, <1>1, <1>4, <1>6
<1>8. Expand(m.name) = w.name
  BY <1>1, <1>4, NamesStay
<1> QED BY <1>3, <1>6, <1>7, <1>8, Zenon DEF WorkOf, m, w

LEMMA EnvelopeRead ==
    ASSUME wish \in Asked, NEW s \in Spellings, CanSpell(wish, s), wish.envelope, wish.back = Absent
    PROVE  LET f == Spell(wish, s)
               p == Parse(1, f)
           IN  IsCommand(f) /\ p.type = "bc" /\ p.target = wish.target /\ p.back = Absent /\ p.parts # <<>> /\ WorksOf(p) = Meant
<1> DEFINE a == Around(wish, s)
           n == Len(wish.works)
           some == [i \in DOMAIN wish.works |-> PartOf(wish.works[i])]
           parts == ArrayOf(wish)
           f == Spell(wish, s)
           p == Parse(1, f)
           g == [k \in FieldNames |-> IF f[k] = EmptyText THEN Absent ELSE f[k]]
<1>1. s \in Spellings \ {Library}
  BY DEF CanSpell
<1>2. n \in Nat \ {0} /\ DOMAIN wish.works = 1 .. n
  BY WishIs
<1>3. /\ DOMAIN a = FieldNames
      /\ \A k \in {"t", "type"} : a[k] = IF k = s.type THEN IF wish.envelope THEN "bc" ELSE "c" ELSE Absent
      /\ a["bi"] = wish.batch /\ a["_rt"] = wish.target /\ a["_rr"] = wish.back
  BY <1>1, AroundFields
<1> HIDE DEF a, parts
<1>4. f = [a EXCEPT !["m"] = parts]
  BY <1>1 DEF Spell, a, parts
<1> HIDE DEF f
<1>5. /\ \A k \in {"t", "type"} : f[k] = IF k = s.type THEN "bc" ELSE Absent
      /\ f["bi"] = wish.batch /\ f["_rt"] = wish.target /\ f["_rr"] = wish.back
  BY <1>3, <1>4
<1>6. f["m"] = parts
  BY <1>3, <1>4 DEF FieldNames
<1>7. Under(f, TypeNames, s.type, "bc")
  BY <1>5, NamesAre DEF Under
<1>8. First(f, TypeNames) = "bc"
  BY <1>1, <1>7, NamesDiffer, OneOf, Zenon
<1>9. IsCommand(f)
  <2>1. "bc" # EmptyText /\ Absent # EmptyText
    BY JourneyValues DEF Words
  <2>2. \A i \in DOMAIN TypeNames : TypeNames[i] \in FieldNames
    BY NamesAre DEF FieldNames
  <2>3. Under(g, TypeNames, s.type, "bc")
    BY <2>1, <2>2, <1>7 DEF Under
  <2>4. ~IsReply(f)
    BY <1>5 DEF IsReply
  <2> HIDE DEF g
  <2>5. First(g, TypeNames) = "bc"
    BY <2>3, <1>1, NamesDiffer, OneOf, Zenon
  <2> QED BY <2>4, <2>5 DEF IsCommand, Filled, g
<1>10. /\ DOMAIN parts = 1 .. (n + 1) /\ parts[n + 1] = ShortPart
       /\ \A i \in 1 .. n : parts[i] = PartOf(wish.works[i])
  <2>1. some \in Seq({PartOf(wish.works[i]) : i \in 1 .. n}) /\ Len(some) = n
    BY <1>2
  <2>2. \A i \in 1 .. n : some[i] = PartOf(wish.works[i])
    BY <1>2
  <2> HIDE DEF some
  <2>3. parts \in Seq({PartOf(wish.works[i]) : i \in 1 .. n} \cup {ShortPart})
    BY <2>1 DEF parts, ArrayOf, some
  <2>4. Len(parts) = n + 1 /\ parts[n + 1] = ShortPart /\ \A i \in 1 .. n : parts[i] = some[i]
    BY <2>1, <1>2 DEF parts, ArrayOf, some
  <2> QED BY <2>2, <2>3, <2>4
<1>11. \A i \in 1 .. n : parts[i].size = 4
  <2>1. \A i \in 1 .. n : PartOf(wish.works[i]).size = 4
    BY DEF PartOf
  <2> QED BY <2>1, <1>10
<1>12. parts[n + 1].size = 3
  BY <1>10 DEF ShortPart, PartOf
<1>13. Uncut(parts) = [k \in 1 .. n |-> parts[k]]
  BY <1>2, <1>10, <1>11, <1>12, AllButTheLast
<1>14. parts # Absent
  BY WhatIsAsked DEF parts
<1>15. /\ p.type = "bc" /\ p.target = f["_rt"] /\ p.back = f["_rr"]
       /\ p.parts = [i \in DOMAIN Uncut(f["m"]) |-> SubMessage(Uncut(f["m"])[i], f["bi"])]
  BY <1>6, <1>8, <1>14, ParsedEnvelope
<1> HIDE DEF p, n
<1>16. p.parts = [i \in 1 .. n |-> SubMessage(PartOf(wish.works[i]), wish.batch)]
  <2>1. DOMAIN Uncut(f["m"]) = 1 .. n /\ \A i \in 1 .. n : Uncut(f["m"])[i] = PartOf(wish.works[i])
    BY <1>6, <1>10, <1>13
  <2> QED BY <2>1, <1>5, <1>15
<1>17. p.parts # <<>>
  <2>1. 1 \in DOMAIN p.parts
    BY <1>2, <1>16
  <2> QED BY <2>1
<1>18. WorksOf(p) = Meant
  <2>1. WorksOf(p) = [i \in DOMAIN p.parts |-> WorkOf(p.parts[i])]
    BY <1>15 DEF WorksOf
  <2>2. DOMAIN p.parts = 1 .. n /\ \A i \in 1 .. n : p.parts[i] = SubMessage(PartOf(wish.works[i]), wish.batch)
    BY <1>16
  <2>3. \A i \in 1 .. n : WorkOf(p.parts[i]) = Meant[i]
    BY <2>2, <1>2, PartRead
  <2>4. WorksOf(p) = [i \in 1 .. n |-> Meant[i]]
    BY <2>1, <2>2, <2>3
  <2>5. Meant = [i \in 1 .. n |-> Meant[i]]
    BY <1>2 DEF Meant
  <2> QED BY <2>4, <2>5
<1> QED BY <1>5, <1>9, <1>15, <1>17, <1>18 DEF f, p

-----------------------------------------------------------------------------
(* CommandJourney: what the daemon and the service write about a command.  *)

HomeId == IF wish.id \in {Absent, EmptyText} THEN 1 ELSE wish.id

\* Entries that are read as nothing, as a command written anew for its service, and as an
\* answer to it, the copy of which is read as nothing.
IsNote(f) == ~IsReply(f) /\ ~IsCommand(f)
IsForward(f) ==
    LET p == Parse(2, f)
    IN  /\ IsCommand(f) /\ p.type = "c" /\ p.target = Absent /\ p.back = Origin /\ WorksOf(p) = Meant
        /\ f["id"] = HomeId /\ f["_rr"] = Origin
IsAnswer(f) ==
    /\ IsReply(f) /\ f["_rr"] = Origin /\ First(f, <<"ri", "id">>) = HomeId
    /\ First(f, <<"r", "result">>) = Expected
    /\ IsNote([f EXCEPT !["_rr"] = Absent, !["_rf"] = Origin])

LEMMA ForwardedIs ==
    ASSUME NEW m, IsMessage(m), NEW from
    PROVE  LET o == Forwarded(m, from)
           IN  /\ o.type = m.type /\ o.ext = m.ext /\ o.name = m.name /\ o.params = m.params
               /\ o.batch = m.batch /\ o.sequence = m.sequence
               /\ o.id = (IF m.request \in {Absent, EmptyText} THEN m.id ELSE m.request)
               /\ o.target = Absent /\ o.to = m.target /\ o.back = from /\ o.site = from
BY DEF Forwarded, IsMessage

LEMMA ForwardWritten ==
    ASSUME NEW m, AsWished(m)
    PROVE  LET o == Forwarded(m, Origin)
           IN  /\ o.back = Origin /\ o.to = wish.target /\ o.id = HomeId
               /\ IsForward(Encode(o))
<1> DEFINE o == Forwarded(m, Origin)
           f == Encode(o)
           p == Parse(2, f)
<1>1. /\ IsMessage(m) /\ m.id = 1 /\ m.type = "c" /\ m.request = wish.id /\ m.target = wish.target
      /\ m.name # Absent /\ m.params \notin {Absent, Junk} /\ m.ext \subseteq ExtNames /\ <<WorkOf(m)>> = Meant
  BY DEF AsWished
<1>2. /\ o.type = m.type /\ o.ext = m.ext /\ o.name = m.name /\ o.params = m.params
      /\ o.batch = m.batch /\ o.sequence = m.sequence
      /\ o.id = (IF m.request \in {Absent, EmptyText} THEN m.id ELSE m.request)
      /\ o.target = Absent /\ o.to = m.target /\ o.back = Origin /\ o.site = Origin
  BY <1>1, ForwardedIs
<1> HIDE DEF o
<1>3. /\ IsCommand(f) /\ f["id"] = o.id /\ f["_rr"] = o.back /\ p.type = "c" /\ p.name = o.name /\ p.params = o.params
      /\ p.batch = o.batch /\ p.sequence = o.sequence /\ p.ext = o.ext /\ p.target = o.target /\ p.back = o.back
  BY <1>1, <1>2, CommandComesBack
<1> HIDE DEF f, p
<1>4. Object(p) = Object(m)
  BY <1>2, <1>3 DEF Object
<1>5. WorkOf(p) = WorkOf(m)
  BY <1>2, <1>3, <1>4 DEF WorkOf
<1>6. WorksOf(p) = Meant
  BY <1>1, <1>3, <1>5 DEF WorksOf
<1>7. o.id = HomeId
  BY <1>1, <1>2 DEF HomeId
<1> QED BY <1>1, <1>2, <1>3, <1>6, <1>7 DEF IsForward, o, f, p

\* Nobody reads a verdict or an acknowledgement.
LEMMA NoteWritten ==
    ASSUME NEW f, f["_rr"] = Absent, f["t"] \in {"r", "br", Absent}, f["type"] = Absent
    PROVE  IsNote(f)
<1> DEFINE g == [n \in FieldNames |-> IF f[n] = EmptyText THEN Absent ELSE f[n]]
<1>1. ~IsReply(f)
  BY DEF IsReply
<1>2. g["t"] \in {"r", "br", Absent} /\ g["type"] = Absent
  BY DEF FieldNames
<1> HIDE DEF g
<1>3. First(g, TypeNames) = g["t"]
  <2>1. DOMAIN TypeNames \subseteq Nat /\ \A j \in DOMAIN TypeNames \ {1} : g[TypeNames[j]] = Absent
    BY <1>2, NamesAre
  <2> QED BY <2>1, FirstIs, NamesAre
<1>4. First(g, TypeNames) \notin {"c", "bc"}
  BY <1>2, <1>3, JourneyValues DEF Words
<1> QED BY <1>1, <1>4 DEF IsNote, IsCommand, Filled, g

LEMMA AcknowledgementWritten ==
    ASSUME NEW m, NEW result PROVE IsNote(Encode(AnswerMessage(m, result)))
<1> DEFINE a == AnswerMessage(m, result)
           f == Encode(a)
           whole == [Common(a) EXCEPT !["ri"] = a.request, !["st"] = a.status, !["r"] = a.result]
<1>1. a.type = "r" /\ a.ext = {} /\ a.back = Absent
  BY DEF AnswerMessage, NoMessage
<1> HIDE DEF a
<1>2. f = [n \in FieldNames |-> IF n \in a.ext THEN Given ELSE whole[n]]
  BY <1>1 DEF Encode
<1>3. Common(a)["_rr"] = Absent /\ Common(a)["t"] = "r" /\ Common(a)["type"] = Absent /\ DOMAIN Common(a) = FieldNames
  BY <1>1 DEF Common, Fields, FieldNames
<1>4. whole["_rr"] = Absent /\ whole["t"] = "r" /\ whole["type"] = Absent
  BY <1>3 DEF FieldNames
<1> HIDE DEF f, whole
<1>5. f["_rr"] = Absent /\ f["t"] = "r" /\ f["type"] = Absent
  BY <1>1, <1>2, <1>4 DEF FieldNames
<1> QED BY <1>5, NoteWritten DEF f, a

\* Both spellings of an answer are read as one.
LEMMA AnswerRead ==
    ASSUME NEW f, DOMAIN f = FieldNames, f["_rr"] = Origin, f["t"] \in {"r", Absent}, f["type"] = Absent,
           f["t"] = Absent => f["status"] = Given,
           f["c"] = Absent, f["cmd"] = Absent, f["command"] = Absent
    PROVE  IsReply(f) /\ IsNote([f EXCEPT !["_rr"] = Absent, !["_rf"] = Origin])
<1> DEFINE g == [n \in FieldNames |-> IF f[n] = EmptyText THEN Absent ELSE f[n]]
           names == <<"c", "cmd", "command">>
           e == [f EXCEPT !["_rr"] = Absent, !["_rf"] = Origin]
<1>1. g["c"] = Absent /\ g["cmd"] = Absent /\ g["command"] = Absent
  BY DEF FieldNames
<1>2. DOMAIN names = 1 .. 3 /\ names[1] = "c" /\ names[2] = "cmd" /\ names[3] = "command"
  OBVIOUS
<1> HIDE DEF g, names
<1>3. Filled(f, <<"c", "cmd", "command">>) = Absent
  <2>1. DOMAIN names \subseteq Nat /\ 1 \in DOMAIN names /\ \A j \in DOMAIN names \ {1} : g[names[j]] = Absent
    BY <1>1, <1>2
  <2>2. First(g, names) = g[names[1]]
    BY <2>1, FirstIs
  <2> QED BY <2>2, <1>1, <1>2 DEF Filled, g, names
<1>4. Origin \notin {Absent, EmptyText} /\ Absent # "c" /\ Absent # "bc" /\ Given # Absent
  BY JourneyValues DEF Words
<1>5. IsReply(f)
  BY <1>3, <1>4 DEF IsReply
<1>6. e["_rr"] = Absent /\ e["t"] = f["t"] /\ e["type"] = Absent
  BY DEF FieldNames
<1> HIDE DEF e
<1>7. IsNote(e)
  BY <1>6, NoteWritten
<1> QED BY <1>5, <1>7 DEF e

LEMMA AnswersWritten ==
    ASSUME NEW f,
           \/ f = Fields([_rr |-> Origin, t |-> "r", ri |-> HomeId, st |-> Given, r |-> Expected])
           \/ f = Fields([_rr |-> Origin, id |-> HomeId, status |-> Given, result |-> Expected])
    PROVE  IsAnswer(f)
<1> DEFINE ids == <<"ri", "id">>
           results == <<"r", "result">>
<1>1. PICK h, x : h = HomeId /\ x = Expected
  OBVIOUS
<1>2. \/ f = Fields([_rr |-> Origin, t |-> "r", ri |-> h, st |-> Given, r |-> x])
      \/ f = Fields([_rr |-> Origin, id |-> h, status |-> Given, result |-> x])
  BY <1>1
<1>3. /\ DOMAIN f = FieldNames /\ f["_rr"] = Origin /\ f["type"] = Absent
      /\ f["c"] = Absent /\ f["cmd"] = Absent /\ f["command"] = Absent
  BY <1>2 DEF Fields, FieldNames
<1>4. f["t"] = "r" \/ (f["t"] = Absent /\ f["status"] = Given)
  BY <1>2 DEF Fields, FieldNames
<1>5. \/ f["ri"] = h /\ f["id"] = Absent
      \/ f["ri"] = Absent /\ f["id"] = h
  BY <1>2 DEF Fields, FieldNames
<1>6. \/ f["r"] = x /\ f["result"] = Absent
      \/ f["r"] = Absent /\ f["result"] = x
  BY <1>2 DEF Fields, FieldNames
<1>7. /\ DOMAIN ids = 1 .. 2 /\ ids[1] = "ri" /\ ids[2] = "id"
      /\ DOMAIN results = 1 .. 2 /\ results[1] = "r" /\ results[2] = "result"
  OBVIOUS
<1> HIDE DEF ids, results
<1>8. First(f, ids) = h
  <2>1. PICK i \in DOMAIN ids : f[ids[i]] = h /\ \A j \in DOMAIN ids \ {i} : f[ids[j]] = Absent
    BY <1>5, <1>7
  <2>2. DOMAIN ids \subseteq Nat
    BY <1>7
  <2>3. First(f, ids) = f[ids[i]]
    BY <2>1, <2>2, FirstIs
  <2> QED BY <2>1, <2>3
<1>9. First(f, results) = x
  <2>1. PICK i \in DOMAIN results : f[results[i]] = x /\ \A j \in DOMAIN results \ {i} : f[results[j]] = Absent
    BY <1>6, <1>7
  <2>2. DOMAIN results \subseteq Nat
    BY <1>7
  <2>3. First(f, results) = f[results[i]]
    BY <2>1, <2>2, FirstIs
  <2> QED BY <2>1, <2>3
<1>10. IsReply(f) /\ IsNote([f EXCEPT !["_rr"] = Absent, !["_rf"] = Origin])
  <2>1. f["t"] = "r" => f["t"] # Absent
    BY JourneyValues DEF Words
  <2> QED BY <2>1, <1>3, <1>4, AnswerRead
<1> QED BY <1>1, <1>3, <1>8, <1>9, <1>10 DEF IsAnswer, ids, results

-----------------------------------------------------------------------------
(* CommandJourney: where a journey can be.                                 *)

\* No command with a return address is spelled for a reply to be.
NoLookalike ==
    \A q \in Asked : \A s \in Spellings \ {Library} :
        CanSpell(q, s) /\ ~q.envelope /\ q.back # Absent => ~LooksLikeAnswer(s)

IsWire == \E S : wire \in Seq(S)
Wanted == wish.envelope => ~ToService /\ wish.back = Absent

\* The entry of the client, as a daemon reads it.
CommandToRead  == IsCommand(FieldsOf(1)) /\ AsWished(Message(1))
EnvelopeToRead ==
    LET p == Message(1)
    IN  /\ IsCommand(FieldsOf(1)) /\ p.type = "bc" /\ p.target = wish.target /\ p.back = Absent
        /\ p.parts # <<>> /\ WorksOf(p) = Meant

OneLane(id, result) == [k \in {LaneKey(Origin, id)} |-> result]

Started == /\ Len(wire) = 1 /\ unread = {1} /\ errands = {} /\ grants = {} /\ handed = <<>> /\ lanes = <<>>

\* Run here, left to nobody, or refused.
RunHere ==
    /\ ~ToService /\ wish.target # Unknown /\ wish.back = Absent
    /\ Len(wire) = 1 /\ unread = {} /\ errands = {} /\ handed = <<Expected>>
    /\ lanes = IF wish.envelope \/ Polled = EmptyText THEN <<>> ELSE OneLane(Polled, Expected)
LeftAlone ==
    /\ Nobodys /\ Len(wire) = 1 /\ unread = {} /\ errands = {} /\ handed = <<>> /\ lanes = <<>>
Refused ==
    /\ wish.target = Unknown
    /\ Len(wire) = 2 /\ IsNote(FieldsOf(2)) /\ unread \subseteq {2} /\ errands = {} /\ handed = <<>>
    /\ ~wish.envelope => lanes = IF Polled = EmptyText THEN <<>> ELSE OneLane(Polled, Expected)

\* On its way to a service, answered, and the answer where the client looks for it.
OnItsWay ==
    /\ ToService /\ ~wish.envelope
    /\ wire[2].on = wish.target /\ IsForward(FieldsOf(2)) /\ IsNote(FieldsOf(3))
    /\ grants = {[origin |-> Origin, id |-> HomeId, service |-> wish.target]}
Relayed ==
    /\ OnItsWay /\ Len(wire) = 3 /\ unread \subseteq {2, 3} /\ errands = {2} /\ handed = <<>> /\ lanes = <<>>
Served ==
    /\ OnItsWay /\ Len(wire) = 4 /\ unread \subseteq {2, 3, 4} /\ 4 \in unread /\ errands = {}
    /\ wire[4].on = wish.target /\ IsAnswer(FieldsOf(4))
    /\ handed = <<Expected>> /\ lanes = <<>>
Delivered ==
    /\ OnItsWay /\ Len(wire) = 5 /\ unread \subseteq {2, 3, 5} /\ errands = {} /\ IsNote(FieldsOf(5))
    /\ handed = <<Expected>> /\ lanes = OneLane(HomeId, Expected)

JourneyStage ==
    /\ IsWire /\ wire[1].on = Origin
    /\ IF wish.envelope THEN EnvelopeToRead ELSE CommandToRead
    /\ Started \/ RunHere \/ LeftAlone \/ Refused \/ Relayed \/ Served \/ Delivered

JourneyInv == wish \in Asked /\ (Wanted => JourneyStage)

\* An answer that is delivered is found where the client polls.
LEMMA PolledThere ==
    ASSUME wish \in Asked
    PROVE  ToService /\ Pollable => Polled = HomeId
<1> SUFFICES ASSUME ToService, Pollable PROVE Polled = HomeId
  OBVIOUS
<1>1. 1 \in DOMAIN wish.works
  BY WishIs
<1>2. wish.works[1].rid \in ClientIds \cup {Absent} /\ wish.id \in ClientIds \cup {EmptyText, Absent}
  BY <1>1, WorkIs, WishIs
<1> QED BY <1>2, JourneyValues DEF Pollable, Polled, HomeId

LEMMA RidIs ==
    ASSUME wish \in Asked, ~wish.envelope, NEW m, AsWished(m)
    PROVE  Rid(m) = Polled
<1>1. WorkOf(m) = Meant[1]
  BY DEF AsWished
<1>2. Meant[1].rid = wish.works[1].rid
  BY MeantIs
<1> QED BY <1>1, <1>2 DEF AsWished, Rid, Polled, CommandId

\* Every stage keeps what the run checks.
LEMMA StagesKeepJourney ==
    JourneyInv => JourneyKept
<1> SUFFICES ASSUME wish \in Asked, Wanted, JourneyStage PROVE JourneyKept
  BY DEF JourneyInv, JourneyKept, Wanted
<1>1. CASE Started
  BY <1>1 DEF Started, JourneyKept, OverAndDone
<1>2. CASE RunHere
  BY <1>2 DEF RunHere, JourneyKept, OverAndDone, Nobodys, Pollable, OneLane
<1>3. CASE LeftAlone
  BY <1>3, WishIs DEF LeftAlone, JourneyKept, OverAndDone, Nobodys, Wanted
<1>4. CASE Refused
  BY <1>4 DEF Refused, JourneyKept, OverAndDone, Nobodys, Pollable, OneLane
<1>5. CASE Relayed
  BY <1>5 DEF Relayed, OnItsWay, JourneyKept, OverAndDone, Nobodys
<1>6. CASE Served
  BY <1>6 DEF Served, OnItsWay, JourneyKept, OverAndDone, Nobodys
<1>7. CASE Delivered
  BY <1>7, PolledThere DEF Delivered, OnItsWay, JourneyKept, OverAndDone, Nobodys, OneLane
<1> QED BY <1>1, <1>2, <1>3, <1>4, <1>5, <1>6, <1>7 DEF JourneyStage

LEMMA JourneyBegins ==
    NoLookalike /\ JourneyInit => JourneyInv
<1> SUFFICES ASSUME NoLookalike, JourneyInit, Wanted PROVE JourneyInv
  BY DEF JourneyInit, JourneyInv
<1>1. PICK s \in Spellings : CanSpell(wish, s) /\ wire = <<[on |-> Origin, fields |-> Spell(wish, s)]>>
  BY DEF JourneyInit
<1>2. wish \in Asked
  BY DEF JourneyInit
<1>3. Len(wire) = 1 /\ FieldsOf(1) = Spell(wish, s) /\ wire[1].on = Origin
  BY <1>1 DEF FieldsOf
<1>4. IsWire
  <2>1. wire \in Seq({[on |-> Origin, fields |-> Spell(wish, s)]})
    BY <1>1
  <2> QED BY <2>1 DEF IsWire
<1>5. Started
  BY <1>3 DEF Started, JourneyInit
<1>6. ASSUME ~wish.envelope PROVE CommandToRead
  <2>1. IsCommand(Spell(wish, s)) /\ AsWished(Parse(1, Spell(wish, s)))
    <3>1. CASE s = Library
      BY <3>1, <1>1, <1>2, LibraryRead
    <3>2. CASE s # Library
      <4>1. wish.back # Absent => ~LooksLikeAnswer(s)
        BY <1>1, <1>2, <1>6, <3>2 DEF NoLookalike
      <4> QED BY <4>1, <1>1, <1>2, <1>6, <3>2, SpelledIsCommand, SpelledRead
    <3> QED BY <3>1, <3>2
  <2> QED BY <2>1, <1>3 DEF CommandToRead, Message
<1>7. ASSUME wish.envelope PROVE EnvelopeToRead
  BY <1>1, <1>2, <1>3, <1>7, EnvelopeRead DEF EnvelopeToRead, Message, Wanted
<1> QED BY <1>2, <1>3, <1>4, <1>5, <1>6, <1>7 DEF JourneyInv, JourneyStage

-----------------------------------------------------------------------------
(* CommandJourney: what a daemon does with an entry it reads.              *)

JustReads(e) ==
    /\ wire' = wire /\ unread' = unread \ {e}
    /\ UNCHANGED <<wish, errands, grants, handed, lanes>>

Takes(e) == PassOver(e) \/ Deliver(e) \/ Forward(e) \/ RefuseTarget(e) \/ LeaveAlone(e) \/ RunCommand(e) \/ RunEnvelope(e)

LEMMA ReadsNone ==
    ASSUME IsWire, NEW e, Reads(e, <<>>)
    PROVE  wire' = wire /\ unread' = unread \ {e}
<1>1. PICK S : wire \in Seq(S)
  BY DEF IsWire
<1>2. wire \o <<>> = wire
  BY <1>1
<1> QED BY <1>2 DEF Reads

LEMMA ReadsOne ==
    ASSUME IsWire, NEW e, NEW x, Reads(e, <<x>>)
    PROVE  /\ IsWire' /\ Len(wire') = Len(wire) + 1 /\ wire'[Len(wire) + 1] = x
           /\ \A i \in 1 .. Len(wire) : wire'[i] = wire[i]
           /\ unread' = (unread \ {e}) \cup {Len(wire) + 1}
<1>1. PICK S : wire \in Seq(S)
  BY DEF IsWire
<1>2. wire \in Seq(S \cup {x}) /\ <<x>> \in Seq(S \cup {x}) /\ wire' = wire \o <<x>>
  BY <1>1 DEF Reads
<1>3. wire' \in Seq(S \cup {x}) /\ Len(wire') = Len(wire) + 1 /\ wire'[Len(wire) + 1] = x
      /\ \A i \in 1 .. Len(wire) : wire'[i] = wire[i]
  BY <1>2
<1>4. {Len(wire) + i : i \in DOMAIN <<x>>} = {Len(wire) + 1}
  OBVIOUS
<1>5. unread' = (unread \ {e}) \cup {Len(wire) + 1}
  BY <1>4 DEF Reads
<1> QED BY <1>3, <1>5 DEF IsWire

LEMMA ReadsTwo ==
    ASSUME IsWire, NEW e, NEW x, NEW y, Reads(e, <<x, y>>)
    PROVE  /\ IsWire' /\ Len(wire') = Len(wire) + 2
           /\ wire'[Len(wire) + 1] = x /\ wire'[Len(wire) + 2] = y
           /\ \A i \in 1 .. Len(wire) : wire'[i] = wire[i]
           /\ unread' = (unread \ {e}) \cup {Len(wire) + 1, Len(wire) + 2}
<1>1. PICK S : wire \in Seq(S)
  BY DEF IsWire
<1>2. wire \in Seq(S \cup {x, y}) /\ <<x, y>> \in Seq(S \cup {x, y}) /\ wire' = wire \o <<x, y>>
  BY <1>1 DEF Reads
<1>3. wire' \in Seq(S \cup {x, y}) /\ Len(wire') = Len(wire) + 2
      /\ wire'[Len(wire) + 1] = x /\ wire'[Len(wire) + 2] = y
      /\ \A i \in 1 .. Len(wire) : wire'[i] = wire[i]
  BY <1>2
<1>4. {Len(wire) + i : i \in DOMAIN <<x, y>>} = {Len(wire) + 1, Len(wire) + 2}
  <2>1. DOMAIN <<x, y>> = {1, 2}
    OBVIOUS
  <2> QED BY <2>1
<1>5. unread' = (unread \ {e}) \cup {Len(wire) + 1, Len(wire) + 2}
  BY <1>4 DEF Reads
<1> QED BY <1>3, <1>5 DEF IsWire

\* A note is passed over.
LEMMA NotePassed ==
    ASSUME IsWire, NEW e, IsNote(FieldsOf(e)), Takes(e)
    PROVE  JustReads(e)
<1>1. PassOver(e)
  BY DEF IsNote, Takes, Deliver, Forward, RefuseTarget, LeaveAlone, RunCommand, RunEnvelope, IsLocal
<1> QED BY <1>1, ReadsNone DEF PassOver, JustReads

\* What is written for a service is left alone by the daemon that reads it there.
LEMMA ForwardLeft ==
    ASSUME IsWire, IsForward(FieldsOf(2)), Takes(2)
    PROVE  JustReads(2)
<1>1. /\ IsCommand(FieldsOf(2)) /\ Message(2).type = "c" /\ Message(2).target = Absent /\ Message(2).back = Origin
  BY DEF IsForward, Message
<1>2. Absent # Origin /\ Absent \notin RelayServices \cup {Unknown, EmptyText} /\ "c" # "bc"
  BY JourneyValues
<1>3. ~PassOver(2) /\ ~Deliver(2)
  BY <1>1 DEF PassOver, Deliver, IsCommand
<1>4. ~Forward(2) /\ ~RefuseTarget(2) /\ ~RunCommand(2) /\ ~RunEnvelope(2)
  BY <1>1, <1>2 DEF Forward, RefuseTarget, RunCommand, RunEnvelope
<1>5. LeaveAlone(2)
  BY <1>3, <1>4 DEF Takes
<1> QED BY <1>5, ReadsNone DEF LeaveAlone, JustReads

\* A step without the wish leaves what was meant as it was.
LEMMA WishKept ==
    wish' = wish => /\ Meant' = Meant /\ Expected' = Expected /\ HomeId' = HomeId /\ Polled' = Polled
                    /\ ToService' = ToService /\ Nobodys' = Nobodys /\ Wanted' = Wanted
<1> SUFFICES ASSUME wish' = wish PROVE /\ Meant' = Meant /\ Expected' = Expected /\ HomeId' = HomeId /\ Polled' = Polled
                    /\ ToService' = ToService /\ Nobodys' = Nobodys /\ Wanted' = Wanted
  OBVIOUS
<1>1. Meant' = Meant
  BY DEF Meant
<1>2. ToService' = ToService
  BY DEF ToService
<1>3. Expected' = Expected
  BY <1>1, <1>2 DEF Expected, ForWhom
<1> QED BY <1>1, <1>2, <1>3 DEF HomeId, Polled, Nobodys, Wanted

LEMMA EntriesKept ==
    ASSUME wish' = wish
    PROVE  /\ \A f : IsForward(f) => IsForward(f)'
           /\ \A f : IsAnswer(f) => IsAnswer(f)'
           /\ wire'[1] = wire[1] => /\ CommandToRead => CommandToRead'
                                    /\ EnvelopeToRead => EnvelopeToRead'
<1>1. Meant' = Meant /\ Expected' = Expected /\ HomeId' = HomeId
  BY WishKept
<1>2. \A f : IsForward(f) => IsForward(f)'
  BY <1>1 DEF IsForward
<1>3. \A f : IsAnswer(f) => IsAnswer(f)'
  BY <1>1 DEF IsAnswer
<1>4. ASSUME wire'[1] = wire[1], CommandToRead PROVE CommandToRead'
  BY <1>1, <1>4 DEF CommandToRead, FieldsOf, Message, AsWished
<1>5. ASSUME wire'[1] = wire[1], EnvelopeToRead PROVE EnvelopeToRead'
  BY <1>1, <1>5 DEF EnvelopeToRead, FieldsOf, Message
<1> QED BY <1>2, <1>3, <1>4, <1>5

\* The first entry, run here, left alone, refused, or sent to a service.
LEMMA StartedTaken ==
    ASSUME wish \in Asked, Wanted, JourneyStage, Started, Takes(1)
    PROVE  JourneyStage'
<1> DEFINE m == Message(1)
           what == IF wish.envelope THEN EnvelopeToRead ELSE CommandToRead
<1>1. /\ IsWire /\ wire[1].on = Origin /\ what
      /\ Len(wire) = 1 /\ unread = {1} /\ errands = {} /\ grants = {} /\ handed = <<>> /\ lanes = <<>>
  BY DEF JourneyStage, Started
<1>2. IsCommand(FieldsOf(1)) /\ m.target = wish.target /\ m.back = wish.back /\ (wish.envelope => m.back = Absent)
  BY <1>1 DEF CommandToRead, EnvelopeToRead, AsWished, Wanted
<1>3. ~PassOver(1) /\ ~Deliver(1)
  BY <1>2 DEF PassOver, Deliver, IsCommand
<1>4. wish' = wish
  BY DEF Takes, PassOver, Deliver, Forward, RefuseTarget, LeaveAlone, RunCommand, RunEnvelope
<1>5. what /\ wire'[1] = wire[1] => what'
  BY <1>4, EntriesKept
<1>6. ASSUME wish.envelope PROVE m.type = "bc" /\ m.parts # <<>> /\ WorksOf(m) = Meant
  BY <1>1, <1>6 DEF EnvelopeToRead
<1>7. ASSUME ~wish.envelope
      PROVE  /\ AsWished(m) /\ IsMessage(m) /\ m.type = "c" /\ m.site = Origin /\ m.name # EmptyText
             /\ m.type # "bc" /\ WorksOf(m) = Meant /\ Rid(m) = Polled
  <2>1. AsWished(m)
    BY <1>1, <1>7 DEF CommandToRead
  <2>2. Rid(m) = Polled
    BY <1>7, <2>1, RidIs
  <2>3. m.type = "c" /\ "c" # "bc"
    BY <2>1 DEF AsWished
  <2>4. WorksOf(m) = Meant
    BY <2>1, <2>3 DEF AsWished, WorksOf
  <2> QED BY <2>1, <2>2, <2>3, <2>4 DEF AsWished
<1>8. Meant' = Meant /\ Expected' = Expected /\ HomeId' = HomeId /\ Polled' = Polled
      /\ ToService' = ToService /\ Nobodys' = Nobodys /\ Wanted' = Wanted
  BY <1>4, WishKept
<1>9. Absent # Unknown /\ Origin \notin {Absent, EmptyText, Unknown} /\ Unknown \notin RelayServices /\ Absent \notin RelayServices
      /\ Origin \notin RelayServices
  BY JourneyValues
<1>10. \A id, result : LanesAnd(LaneKey(Origin, id), result) = OneLane(id, result)
  BY <1>1 DEF LanesAnd, OneLane
<1> HIDE DEF what, m
<1>11. CASE Forward(1)
  <2> DEFINE o == Forwarded(m, Origin)
             x == [on |-> o.to, fields |-> Encode(o)]
             y == Acknowledgement(1, Given)
  <2>1. /\ m.target \in RelayServices
        /\ grants' = grants \cup {[origin |-> o.back, id |-> o.id, service |-> o.to]}
        /\ Reads(1, <<x, y>>) /\ errands' = errands \cup {Len(wire) + 1}
        /\ UNCHANGED <<wish, handed, lanes>>
    BY <1>1, <1>11 DEF Forward, m
  <2>2. ToService /\ ~wish.envelope
    BY <2>1, <1>2 DEF ToService, Wanted
  <2>3. o.back = Origin /\ o.to = wish.target /\ o.id = HomeId /\ IsForward(Encode(o))
    BY <2>2, <1>7, ForwardWritten
  <2>4. IsNote(y.fields)
    BY AcknowledgementWritten DEF Acknowledgement
  <2> HIDE DEF o, y
  <2>5. /\ IsWire' /\ Len(wire') = 3 /\ wire'[2] = x /\ wire'[3] = y /\ wire'[1] = wire[1]
        /\ unread' = (unread \ {1}) \cup {2, 3}
    BY <2>1, <1>1, ReadsTwo
  <2>6. IsForward(wire'[2].fields) /\ IsNote(wire'[3].fields) /\ wire'[2].on = wish.target
    BY <2>3, <2>4, <2>5
  <2>7. IsForward(FieldsOf(2))'
    BY <2>6, <1>4, EntriesKept DEF FieldsOf
  <2>8. IsNote(FieldsOf(3))'
    BY <2>6 DEF FieldsOf
  <2>9. OnItsWay'
    BY <2>1, <2>2, <2>3, <2>6, <2>7, <2>8, <1>1, <1>4, <1>8 DEF OnItsWay
  <2>10. Relayed'
    BY <2>1, <2>5, <2>9, <1>1 DEF Relayed
  <2> QED BY <2>5, <2>10, <1>1, <1>4, <1>5 DEF JourneyStage, what
<1>12. CASE RefuseTarget(1)
  <2> DEFINE y == Acknowledgement(1, Absent)
  <2>1. /\ wish.target \in {Unknown, EmptyText} /\ Reads(1, <<y>>)
        /\ lanes' = LanesWith(IF m.site = EmptyText THEN wire[1].on ELSE m.site, m, Outcome(OwnSite, <<>>))
        /\ UNCHANGED <<wish, errands, grants, handed>>
    BY <1>2, <1>12 DEF RefuseTarget, m
  <2>2. wish.target = Unknown
    BY <2>1, <1>9, WishIs, JourneyValues
  <2>3. IsNote(y.fields)
    BY AcknowledgementWritten DEF Acknowledgement
  <2> HIDE DEF y
  <2>4. /\ IsWire' /\ Len(wire') = 2 /\ wire'[2] = y /\ wire'[1] = wire[1] /\ unread' = (unread \ {1}) \cup {2}
    BY <2>1, <1>1, ReadsOne
  <2>5. IsNote(FieldsOf(2))'
    BY <2>3, <2>4 DEF FieldsOf
  <2>6. Expected = Outcome(OwnSite, <<>>)
    BY <2>2, <1>9 DEF Expected, ForWhom, ToService
  <2>7. ~wish.envelope => lanes' = IF Polled = EmptyText THEN <<>> ELSE OneLane(Polled, Expected)
    BY <2>1, <2>6, <1>1, <1>7, <1>9, <1>10 DEF LanesWith
  <2>8. Refused'
    BY <2>1, <2>2, <2>4, <2>5, <2>7, <1>1, <1>4, <1>8 DEF Refused, OneLane
  <2> QED BY <2>4, <2>8, <1>1, <1>4, <1>5 DEF JourneyStage, what
<1>13. CASE LeaveAlone(1)
  <2>1. IsLocal(1) /\ m.type # "bc" /\ (m.back # Absent \/ m.name = EmptyText) /\ JustReads(1)
    BY <1>1, <1>13, ReadsNone DEF LeaveAlone, JustReads, m
  <2>2. ~wish.envelope /\ wish.back # Absent /\ wish.target \in {Absent, Origin}
    BY <2>1, <1>1, <1>2, <1>6, <1>7 DEF IsLocal, m
  <2>3. Nobodys
    BY <2>2, <1>9 DEF Nobodys, ToService
  <2>4. LeftAlone'
    BY <2>1, <2>3, <1>1, <1>8 DEF JustReads, LeftAlone
  <2>5. wire' = wire
    BY <2>1 DEF JustReads
  <2> QED BY <2>4, <2>5, <1>1, <1>4, <1>5 DEF JourneyStage, IsWire, what
<1>14. CASE RunCommand(1)
  <2>1. /\ m.type # "bc" /\ m.back = Absent /\ m.target \in {Absent, Origin}
        /\ handed' = Append(handed, Outcome(OwnSite, WorksOf(m)))
        /\ lanes' = LanesWith(Origin, m, Outcome(OwnSite, WorksOf(m)))
        /\ UNCHANGED <<wish, errands, grants>> /\ Reads(1, <<>>)
    BY <1>1, <1>14 DEF RunCommand, IsLocal, m
  <2>2. ~wish.envelope /\ wish.back = Absent /\ wish.target \in {Absent, Origin}
    BY <2>1, <1>2, <1>6
  <2>3. Outcome(OwnSite, WorksOf(m)) = Expected /\ ~ToService /\ wish.target # Unknown
    BY <2>2, <1>7, <1>9 DEF Expected, ForWhom, ToService
  <2>4. wire' = wire /\ unread' = unread \ {1}
    BY <2>1, <1>1, ReadsNone
  <2>5. handed' = <<Expected>>
    BY <2>1, <2>3, <1>1
  <2>6. lanes' = IF Polled = EmptyText THEN <<>> ELSE OneLane(Polled, Expected)
    BY <2>1, <2>2, <2>3, <1>1, <1>7, <1>10 DEF LanesWith
  <2>7. RunHere'
    BY <2>1, <2>2, <2>3, <2>4, <2>5, <2>6, <1>1, <1>4, <1>8 DEF RunHere, OneLane
  <2> QED BY <2>4, <2>7, <1>1, <1>4, <1>5 DEF JourneyStage, IsWire, what
<1>15. CASE RunEnvelope(1)
  <2>1. m.type = "bc" /\ m.target \in {Absent, Origin}
    BY <1>1, <1>15 DEF RunEnvelope, IsLocal, m
  <2>2. wish.envelope /\ wish.back = Absent /\ wish.target \in {Absent, Origin} /\ m.back = Absent
    BY <2>1, <1>2, <1>7 DEF Wanted
  <2>3. m.parts # <<>> /\ WorksOf(m) = Meant
    BY <2>2, <1>6
  <2>4. /\ handed' = Append(handed, Outcome(OwnSite, WorksOf(m)))
        /\ UNCHANGED <<wish, errands, grants, lanes>> /\ Reads(1, <<>>)
    BY <2>2, <2>3, <1>15 DEF RunEnvelope, m
  <2>5. Outcome(OwnSite, WorksOf(m)) = Expected /\ ~ToService /\ wish.target # Unknown
    BY <2>2, <2>3, <1>9 DEF Expected, ForWhom, ToService
  <2>6. wire' = wire /\ unread' = unread \ {1}
    BY <2>4, <1>1, ReadsNone
  <2>7. handed' = <<Expected>>
    BY <2>4, <2>5, <1>1
  <2>8. RunHere'
    BY <2>2, <2>4, <2>5, <2>6, <2>7, <1>1, <1>4, <1>8 DEF RunHere, OneLane
  <2> QED BY <2>6, <2>8, <1>1, <1>4, <1>5 DEF JourneyStage, IsWire, what
<1> QED BY <1>3, <1>11, <1>12, <1>13, <1>14, <1>15 DEF Takes

\* What is only read changes nothing about the stage, but for the first entry and an answer.
LEMMA StageKept ==
    ASSUME JourneyStage, ~Started, unread' \subseteq unread, Served => 4 \in unread',
           UNCHANGED <<wish, wire, errands, grants, handed, lanes>>
    PROVE  JourneyStage'
<1>1. wire' = wire /\ wish' = wish /\ errands' = errands /\ grants' = grants /\ handed' = handed /\ lanes' = lanes
  OBVIOUS
<1>2. Meant' = Meant /\ Expected' = Expected /\ HomeId' = HomeId /\ Polled' = Polled
      /\ ToService' = ToService /\ Nobodys' = Nobodys /\ Wanted' = Wanted
  BY <1>1, WishKept
<1>3. \A f : /\ IsForward(f) => IsForward(f)'
             /\ IsAnswer(f) => IsAnswer(f)'
  BY <1>1, EntriesKept
<1>4. (CommandToRead => CommandToRead') /\ (EnvelopeToRead => EnvelopeToRead')
  BY <1>1, EntriesKept
<1>5. OnItsWay => OnItsWay'
  BY <1>1, <1>2, <1>3 DEF OnItsWay, FieldsOf
<1>6. RunHere => RunHere'
  BY <1>1, <1>2 DEF RunHere, OneLane
<1>7. LeftAlone => LeftAlone'
  BY <1>1, <1>2 DEF LeftAlone
<1>8. Refused => Refused'
  BY <1>1, <1>2 DEF Refused, OneLane, FieldsOf
<1>9. Relayed => Relayed'
  BY <1>1, <1>5 DEF Relayed
<1>10. Served => Served'
  BY <1>1, <1>2, <1>3, <1>5 DEF Served, FieldsOf
<1>11. Delivered => Delivered'
  BY <1>1, <1>2, <1>5 DEF Delivered, OneLane, FieldsOf
<1> QED BY <1>1, <1>4, <1>6, <1>7, <1>8, <1>9, <1>10, <1>11 DEF JourneyStage, IsWire

LEMMA OneMore ==
    ASSUME IsWire, NEW x, wire' = Append(wire, x)
    PROVE  /\ IsWire' /\ Len(wire') = Len(wire) + 1 /\ wire'[Len(wire) + 1] = x
           /\ \A i \in 1 .. Len(wire) : wire'[i] = wire[i]
<1>1. PICK S : wire \in Seq(S)
  BY DEF IsWire
<1>2. wire \in Seq(S \cup {x}) /\ x \in S \cup {x}
  BY <1>1
<1>3. wire' \in Seq(S \cup {x}) /\ Len(wire') = Len(wire) + 1 /\ wire'[Len(wire) + 1] = x
      /\ \A i \in 1 .. Len(wire) : wire'[i] = wire[i]
  BY <1>2
<1> QED BY <1>3 DEF IsWire

\* The service answers.
LEMMA RelayedServed ==
    ASSUME wish \in Asked, JourneyStage, Relayed, Serve(2)
    PROVE  JourneyStage'
<1>1. /\ IsWire /\ wire[1].on = Origin /\ CommandToRead /\ ToService /\ ~wish.envelope
      /\ wire[2].on = wish.target /\ IsForward(FieldsOf(2)) /\ IsNote(FieldsOf(3)) /\ Len(wire) = 3
      /\ grants = {[origin |-> Origin, id |-> HomeId, service |-> wish.target]}
      /\ unread \subseteq {2, 3} /\ errands = {2} /\ handed = <<>> /\ lanes = <<>>
  BY DEF JourneyStage, Relayed, OnItsWay
<1> DEFINE f == FieldsOf(2)
           o == Outcome(wire[2].on, WorksOf(Parse(2, f)))
           own   == Fields([_rr |-> f["_rr"], t |-> "r", ri |-> f["id"], st |-> Given, r |-> o])
           plain == Fields([_rr |-> f["_rr"], id |-> f["id"], status |-> Given, result |-> o])
<1>2. f["_rr"] = Origin /\ f["id"] = HomeId /\ WorksOf(Parse(2, f)) = Meant
  BY <1>1 DEF IsForward
<1>3. o = Expected
  <2>1. wish.target # Unknown
    BY <1>1, JourneyValues DEF ToService
  <2> QED BY <2>1, <1>1, <1>2 DEF Expected, ForWhom
<1>4. PICK answer \in {own, plain} : wire' = Append(wire, [on |-> wire[2].on, fields |-> answer])
  BY DEF Serve
<1>5. IsAnswer(answer)
  <2>1. \/ answer = Fields([_rr |-> Origin, t |-> "r", ri |-> HomeId, st |-> Given, r |-> Expected])
        \/ answer = Fields([_rr |-> Origin, id |-> HomeId, status |-> Given, result |-> Expected])
    BY <1>2, <1>3, <1>4
  <2> QED BY <2>1, AnswersWritten
<1> HIDE DEF own, plain
<1>6. /\ errands' = errands \ {2} /\ handed' = Append(handed, o) /\ unread' = unread \cup {Len(wire) + 1}
      /\ UNCHANGED <<wish, grants, lanes>>
  BY DEF Serve
<1> HIDE DEF o, f
<1>7. /\ IsWire' /\ Len(wire') = 4 /\ wire'[4] = [on |-> wire[2].on, fields |-> answer]
      /\ wire'[1] = wire[1] /\ wire'[2] = wire[2] /\ wire'[3] = wire[3]
  <2> DEFINE x == [on |-> wire[2].on, fields |-> answer]
  <2>1. IsWire /\ wire' = Append(wire, x) /\ Len(wire) = 3
    BY <1>1, <1>4
  <2> HIDE DEF x
  <2>2. /\ IsWire' /\ Len(wire') = Len(wire) + 1 /\ wire'[Len(wire) + 1] = x
        /\ \A i \in 1 .. Len(wire) : wire'[i] = wire[i]
    BY <2>1, OneMore
  <2> QED BY <2>1, <2>2 DEF x
<1>8. Meant' = Meant /\ Expected' = Expected /\ HomeId' = HomeId /\ ToService' = ToService
  BY <1>6, WishKept
<1>9. /\ IsForward(FieldsOf(2))' /\ IsAnswer(FieldsOf(4))' /\ CommandToRead'
  <2>1. \A g : /\ IsForward(g) => IsForward(g)'
               /\ IsAnswer(g) => IsAnswer(g)'
    BY <1>6, EntriesKept
  <2>2. CommandToRead'
    BY <1>1, <1>6, <1>7, EntriesKept
  <2> QED BY <2>1, <2>2, <1>1, <1>5, <1>7 DEF FieldsOf
<1>10. OnItsWay'
  BY <1>1, <1>6, <1>7, <1>8, <1>9 DEF OnItsWay, FieldsOf
<1>11. handed' = <<Expected>>
  BY <1>1, <1>3, <1>6
<1>12. Served'
  BY <1>1, <1>6, <1>7, <1>8, <1>9, <1>10, <1>11 DEF Served
<1> QED BY <1>1, <1>6, <1>7, <1>9, <1>12 DEF JourneyStage

\* The answer of the service is delivered.
LEMMA ServedDelivered ==
    ASSUME JourneyStage, Served, Takes(4)
    PROVE  JourneyStage'
<1>1. /\ IsWire /\ wire[1].on = Origin /\ CommandToRead /\ ToService /\ ~wish.envelope
      /\ wire[2].on = wish.target /\ IsForward(FieldsOf(2)) /\ IsNote(FieldsOf(3)) /\ Len(wire) = 4
      /\ grants = {[origin |-> Origin, id |-> HomeId, service |-> wish.target]}
      /\ unread \subseteq {2, 3, 4} /\ errands = {} /\ wire[4].on = wish.target /\ IsAnswer(FieldsOf(4))
      /\ handed = <<Expected>> /\ lanes = <<>>
  BY DEF JourneyStage, Served, OnItsWay
<1> DEFINE f == FieldsOf(4)
           copy == [f EXCEPT !["_rr"] = Absent, !["_rf"] = Origin]
<1>2. /\ IsReply(f) /\ f["_rr"] = Origin /\ First(f, <<"ri", "id">>) = HomeId
      /\ First(f, <<"r", "result">>) = Expected /\ IsNote(copy)
  BY <1>1 DEF IsAnswer
<1>3. Deliver(4)
  BY <1>2 DEF Takes, PassOver, Forward, RefuseTarget, LeaveAlone, RunCommand, RunEnvelope, IsLocal, IsCommand
<1>4. [origin |-> f["_rr"], id |-> First(f, <<"ri", "id">>), service |-> wire[4].on] \in grants
  BY <1>1, <1>2
<1>5. /\ lanes' = LanesAnd(LaneKey(f["_rr"], First(f, <<"ri", "id">>)), First(f, <<"r", "result">>))
      /\ Reads(4, <<[on |-> f["_rr"], fields |-> [f EXCEPT !["_rr"] = Absent, !["_rf"] = f["_rr"]]]>>)
      /\ UNCHANGED <<wish, errands, grants, handed>>
  BY <1>3, <1>4 DEF Deliver
<1> HIDE DEF f
<1>6. Reads(4, <<[on |-> Origin, fields |-> copy]>>)
  BY <1>2, <1>5
<1> HIDE DEF copy
<1>7. /\ IsWire' /\ Len(wire') = 5 /\ wire'[5] = [on |-> Origin, fields |-> copy]
      /\ wire'[1] = wire[1] /\ wire'[2] = wire[2] /\ wire'[3] = wire[3] /\ unread' = (unread \ {4}) \cup {5}
  BY <1>1, <1>6, ReadsOne
<1>8. Meant' = Meant /\ Expected' = Expected /\ HomeId' = HomeId /\ ToService' = ToService
  BY <1>5, WishKept
<1>9. lanes' = OneLane(HomeId, Expected)
  <2>1. lanes' = LanesAnd(LaneKey(Origin, HomeId), Expected)
    BY <1>2, <1>5
  <2> QED BY <2>1, <1>1 DEF LanesAnd, OneLane
<1>10. /\ IsForward(FieldsOf(2))' /\ CommandToRead'
  <2>1. \A g : IsForward(g) => IsForward(g)'
    BY <1>5, EntriesKept
  <2>2. CommandToRead'
    BY <1>1, <1>5, <1>7, EntriesKept
  <2> QED BY <2>1, <2>2, <1>1, <1>7 DEF FieldsOf
<1>11. OnItsWay'
  BY <1>1, <1>5, <1>7, <1>8, <1>10 DEF OnItsWay, FieldsOf
<1>12. Delivered'
  BY <1>1, <1>2, <1>5, <1>7, <1>8, <1>9, <1>11 DEF Delivered, FieldsOf, OneLane
<1> QED BY <1>1, <1>5, <1>7, <1>10, <1>12 DEF JourneyStage

LEMMA JourneyGoesOn ==
    JourneyInv /\ [JourneyNext]_journeyVars => JourneyInv'
<1> SUFFICES ASSUME JourneyInv, [JourneyNext]_journeyVars PROVE JourneyInv'
  OBVIOUS
<1>1. wish' = wish
  BY DEF JourneyNext, journeyVars, PassOver, Deliver, Forward, RefuseTarget, LeaveAlone, RunCommand, RunEnvelope, Serve
<1>2. Wanted' = Wanted
  BY <1>1, WishKept
<1> SUFFICES ASSUME wish \in Asked, Wanted, JourneyStage PROVE JourneyStage'
  BY <1>1, <1>2 DEF JourneyInv
<1>3. IsWire
  BY DEF JourneyStage
<1>4. ASSUME NEW e \in unread, Takes(e) PROVE JourneyStage'
  <2>1. CASE Started
    <3>1. e = 1
      BY <2>1, <1>4 DEF Started
    <3> QED BY <3>1, <2>1, <1>4, StartedTaken
  <2>2. CASE Served /\ e = 4
    BY <2>2, <1>4, ServedDelivered
  <2>3. CASE ~Started /\ ~(Served /\ e = 4)
    <3>1. \/ IsNote(FieldsOf(e))
          \/ e = 2 /\ IsForward(FieldsOf(2))
      BY <2>3, <1>4 DEF JourneyStage, RunHere, LeftAlone, Refused, Relayed, Served, Delivered, OnItsWay
    <3>2. JustReads(e)
      BY <3>1, <1>3, <1>4, NotePassed, ForwardLeft
    <3>3. Served => 4 \in unread'
      BY <3>2, <2>3 DEF Served, JustReads
    <3> QED BY <3>2, <3>3, <2>3, StageKept DEF JustReads
  <2> QED BY <2>1, <2>2, <2>3
<1>5. ASSUME NEW j \in errands, Serve(j) PROVE JourneyStage'
  <2>1. Relayed /\ j = 2
    BY <1>5 DEF JourneyStage, Started, RunHere, LeftAlone, Refused, Relayed, Served, Delivered
  <2> QED BY <2>1, <1>5, RelayedServed
<1>6. CASE UNCHANGED journeyVars
  <2>1. /\ wire' = wire /\ unread' = unread /\ errands' = errands /\ grants' = grants /\ handed' = handed /\ lanes' = lanes
    BY <1>6 DEF journeyVars
  <2>2. CASE Started
    <3>1. Started'
      BY <2>1, <2>2 DEF Started
    <3>2. (CommandToRead => CommandToRead') /\ (EnvelopeToRead => EnvelopeToRead')
      BY <1>1, <2>1, EntriesKept
    <3> QED BY <1>1, <2>1, <3>1, <3>2 DEF JourneyStage, IsWire
  <2>3. CASE ~Started
    <3>1. Served => 4 \in unread'
      BY <2>1 DEF Served
    <3> QED BY <1>1, <2>1, <2>3, <3>1, StageKept
  <2> QED BY <2>2, <2>3
<1> QED BY <1>4, <1>5, <1>6 DEF JourneyNext, Takes

\* However a client spells a command, and whether it is run here or relayed, whoever it is for
\* is handed it once and as it was meant, and the answer is found where the client polls and
\* nowhere else.  A command with a return address that is spelled for a reply to be is left
\* out: is_relayed_service_reply takes it for one.
THEOREM JourneyHolds ==
    ASSUME NoLookalike PROVE JourneySpec => []JourneyKept
<1>1. JourneyInit => JourneyInv
  BY JourneyBegins
<1>2. JourneyInv /\ [JourneyNext]_journeyVars => JourneyInv'
  BY JourneyGoesOn
<1>3. JourneyInv => JourneyKept
  BY StagesKeepJourney
<1> QED BY <1>1, <1>2, <1>3, PTL DEF JourneySpec
-----------------------------------------------------------------------------
(* RelayTranslation: values there and back.                                *)

\* What a transformation makes of a value is one.
LEMMA TakenIsValue ==
    ASSUME NEW by, NEW x, IsValue(x), Taken(by, x) # Fails
    PROVE  IsValue(Taken(by, x))
<1>1. /\ x \in [is : Kinds \cup {"text"}, v : Int, holds : Kinds \cup {"word", "date", "itself"}, quoted : Nat]
      /\ IF x.is = "text" THEN x.holds # "itself" ELSE x.holds = "itself" /\ x.quoted = 0
  BY DEF IsValue
<1>2. \A kind \in Kinds, v \in Int : IsValue(Value(kind, v))
  BY DEF IsValue, Value, Kinds
<1>3. \A v \in Int : IsValue(Float(v))
  BY <1>2 DEF Float, Kinds
<1>4. IsValue(Printed(x))
  BY <1>1 DEF IsValue, Printed, TextOf, Kinds
<1>5. ASSUME x.is = "text", Unprinted(x) # Fails PROVE IsValue(Unprinted(x))
  <2>1. CASE x.quoted > 0
    <3>1. ~Holds(x, {"word", "date"})
      BY <2>1 DEF Holds
    <3> QED BY <1>1, <1>5, <2>1, <3>1 DEF Unprinted, IsValue
  <2>2. CASE ~(x.quoted > 0)
    <3>1. x.quoted = 0 /\ ~Holds(x, {"word", "date"})
      BY <1>1, <1>5, <2>2 DEF Unprinted
    <3>2. x.holds \in Kinds
      BY <1>1, <1>5, <3>1 DEF Holds
    <3>3. Unprinted(x) = Value(x.holds, x.v)
      BY <2>2, <3>1 DEF Unprinted
    <3> QED BY <1>1, <1>2, <3>2, <3>3
  <2> QED BY <2>1, <2>2
<1>6. x.v \in Int /\ x.v \div 1000 \in Int
  BY <1>1
<1>7. \A c, y : Or(c, y) # Fails => Or(c, y) = y
  BY DEF Or
<1>8. \A v \in {0, 1} : IsValue(Value("bool", v))
  BY <1>2 DEF Kinds
<1>9. CASE by = "string"
  BY <1>4, <1>9 DEF Taken
<1>10. CASE by = "number"
  BY <1>3, <1>6, <1>7, <1>10 DEF Taken
<1>11. CASE by = "boolean"
  BY <1>7, <1>8, <1>11 DEF Taken
<1>12. CASE by = "timestamp_ms"
  BY <1>3, <1>6, <1>7, <1>12 DEF Taken
<1>13. CASE by = "timestamp_s"
  BY <1>3, <1>6, <1>7, <1>13 DEF Taken
<1>14. CASE by = "iso_date"
  BY <1>3, <1>6, <1>7, <1>14 DEF Taken
<1>15. CASE by = "json"
  BY <1>5, <1>15 DEF Taken
<1>16. CASE by \notin {"string", "number", "boolean", "timestamp_ms", "timestamp_s", "iso_date", "json"}
  BY <1>16 DEF Taken
<1> QED BY <1>9, <1>10, <1>11, <1>12, <1>13, <1>14, <1>15, <1>16

\* What a format writes of a value it reads back, one kind of number like another.  "string"
\* quotes a text that was none of its own.
LEMMA GivenAndTaken ==
    ASSUME NEW by, by # "string", NEW x, IsValue(x), GivenBack(by, x) # Fails
    PROVE  LET y == GivenBack(by, x)
           IN  IsValue(y) /\ Taken(by, y) # Fails /\ AsNumber(Taken(by, y)) = AsNumber(x)
<1> DEFINE y == GivenBack(by, x)
<1>1. /\ x \in [is : Kinds \cup {"text"}, v : Int, holds : Kinds \cup {"word", "date", "itself"}, quoted : Nat]
      /\ IF x.is = "text" THEN x.holds # "itself" ELSE x.holds = "itself" /\ x.quoted = 0
  BY DEF IsValue
<1>2. x = [is |-> x.is, v |-> x.v, holds |-> x.holds, quoted |-> x.quoted]
  BY <1>1
<1>3. \A c, z : Or(c, z) # Fails => c /\ Or(c, z) = z
  BY DEF Or
<1>4. x # Fails
  BY NoValues
<1>5. \A v \in Int : /\ IsValue(Float(v)) /\ Float(v).is = "float" /\ Float(v).v = v /\ Float(v) # Fails
                     /\ AsNumber(Float(v)) = Float(v)
  <2>1. \A v \in Int : IsValue(Float(v)) /\ Float(v).is = "float" /\ Float(v).v = v
    BY DEF IsValue, Float, Value, Kinds
  <2> QED BY <2>1, NoValues DEF AsNumber, Number
<1>6. CASE by = "json"
  <2>1. y = Printed(x)
    BY <1>6 DEF GivenBack
  <2>2. CASE x.is = "text"
    <3>1. y = [is |-> "text", v |-> x.v, holds |-> x.holds, quoted |-> x.quoted + 1]
      BY <1>2, <2>1, <2>2 DEF Printed
    <3>2. IsValue(y) /\ y.is = "text" /\ y.quoted > 0
      BY <1>1, <2>2, <3>1 DEF IsValue
    <3>7. ~Holds(y, {"word", "date"})
      BY <3>2 DEF Holds
    <3>3. Taken(by, y) = [y EXCEPT !.quoted = @ - 1]
      BY <1>6, <3>2, <3>7 DEF Taken, Unprinted
    <3>4. Taken(by, y) = [is |-> "text", v |-> x.v, holds |-> x.holds, quoted |-> (x.quoted + 1) - 1]
      BY <3>1, <3>3
    <3>5. (x.quoted + 1) - 1 = x.quoted
      BY <1>1
    <3>6. Taken(by, y) = x
      BY <1>2, <2>2, <3>4, <3>5
    <3> QED BY <1>4, <3>2, <3>6
  <2>3. CASE x.is # "text"
    <3>1. y = [is |-> "text", v |-> x.v, holds |-> x.is, quoted |-> 0]
      BY <2>1, <2>3 DEF Printed, TextOf
    <3>2. x.is \in Kinds /\ x.holds = "itself" /\ x.quoted = 0
      BY <1>1, <2>3
    <3>3. IsValue(y)
      BY <1>1, <3>1, <3>2 DEF IsValue, Kinds
    <3>4. ~Holds(y, {"word", "date"})
      BY <3>1, <3>2 DEF Holds, Kinds
    <3>5. Taken(by, y) = Value(x.is, x.v)
      BY <1>6, <3>1, <3>4 DEF Taken, Unprinted
    <3>6. Taken(by, y) = x
      BY <1>2, <3>2, <3>5 DEF Value
    <3> QED BY <1>4, <3>3, <3>6
  <2> QED BY <2>2, <2>3
<1>7. CASE by = "number"
  <2>1. Number(x) /\ y = x
    <3>1. y = Or(Number(x), x)
      BY <1>7 DEF GivenBack
    <3> QED BY <1>3, <3>1
  <2> QED BY <1>4, <1>7, <2>1 DEF Taken
<1>8. CASE by = "timestamp_s"
  <2>1. Number(x) /\ y = x
    <3>1. y = Or(Number(x), x)
      BY <1>8 DEF GivenBack
    <3> QED BY <1>3, <3>1
  <2>2. Taken(by, y) = Float(x.v)
    BY <1>8, <2>1 DEF Taken, Or
  <2> QED BY <1>1, <1>5, <2>1, <2>2 DEF AsNumber
<1>9. CASE by = "timestamp_ms"
  <2>1. Number(x) /\ y = Float(x.v * 1000)
    <3>1. y = Or(Number(x), Float(x.v * 1000))
      BY <1>9 DEF GivenBack
    <3> QED BY <1>3, <3>1
  <2>2. PICK v \in Int : v = x.v
    BY <1>1
  <2>3. v * 1000 \in Int /\ (v * 1000) \div 1000 = v
    OBVIOUS
  <2>4. IsValue(y) /\ Number(y) /\ y.v = v * 1000
    BY <1>5, <2>1, <2>2, <2>3 DEF Number
  <2>5. Taken(by, y) = Float(y.v \div 1000)
    BY <1>9, <2>4 DEF Taken, Or
  <2>6. Taken(by, y) = Float(v)
    BY <2>3, <2>4, <2>5
  <2> QED BY <1>5, <2>1, <2>2, <2>4, <2>6 DEF AsNumber
<1>10. CASE by = "iso_date"
  <2>1. Number(x) /\ y = TextOf("date", x.v)
    <3>1. y = Or(Number(x), TextOf("date", x.v))
      BY <1>10 DEF GivenBack
    <3> QED BY <1>3, <3>1
  <2>2. IsValue(y) /\ Holds(y, {"date"}) /\ y.v = x.v
    BY <1>1, <2>1 DEF IsValue, TextOf, Holds
  <2>3. Taken(by, y) = Float(x.v)
    BY <1>10, <2>2 DEF Taken, Or
  <2> QED BY <1>1, <1>5, <2>1, <2>2, <2>3 DEF AsNumber
<1>11. CASE by = "boolean"
  <2>1. x.is = "bool" /\ y = x
    <3>1. y = Or(x.is = "bool", x)
      BY <1>11 DEF GivenBack
    <3> QED BY <1>3, <3>1
  <2> QED BY <1>4, <1>11, <2>1 DEF Taken
<1>12. CASE by \notin {"string", "number", "boolean", "timestamp_ms", "timestamp_s", "iso_date", "json"}
  <2>1. y = x /\ Taken(by, y) = x
    BY <1>12 DEF GivenBack, Taken
  <2> QED BY <1>4, <2>1
<1> QED BY <1>6, <1>7, <1>8, <1>9, <1>10, <1>11, <1>12
-----------------------------------------------------------------------------
(* RelayTranslation: commands there and back.                              *)

\* A loss-free format has one key for a field.
LEMMA KeyOfField ==
    ASSUME NEW def, LossFree(def), NEW t \in CommandFields
    PROVE  /\ KeyFor(def, t) \in DOMAIN def.fields /\ def.fields[KeyFor(def, t)].target = t
           /\ ByFor(def, t) = def.fields[KeyFor(def, t)].by
<1> DEFINE ks == {k \in DOMAIN def.fields : def.fields[k].target = t}
<1>1. ks # {}
  BY DEF LossFree
<1>2. KeyFor(def, t) \in ks
  BY <1>1 DEF KeyFor
<1> QED BY <1>2 DEF ByFor

\* What keeps the values of a document in what is read from it.
LEMMA FieldIsValue ==
    ASSUME NEW def, LossFree(def), NEW doc, \A k \in DOMAIN doc : IsValue(doc[k]), ~Refuses(def, doc),
           NEW k \in TargetsIn(def, doc)
    PROVE  IsValue(FieldAt(def, doc, k)) /\ def.fields[k].target \in CommandFields
<1>1. k \in DOMAIN def.fields /\ (k \in DOMAIN doc \/ def.fields[k].default # Fails)
  BY DEF TargetsIn
<1>2. def.fields[k].target \in CommandFields /\ (def.fields[k].default = Fails \/ IsValue(def.fields[k].default))
  BY <1>1 DEF LossFree
<1>3. CASE k \in DOMAIN doc
  <2>1. FieldAt(def, doc, k) = Taken(def.fields[k].by, doc[k])
    BY <1>3 DEF FieldAt
  <2>2. FieldAt(def, doc, k) # Fails
    BY <1>1, <1>3 DEF Refuses
  <2> QED BY <1>2, <1>3, <2>1, <2>2, TakenIsValue
<1>4. CASE k \notin DOMAIN doc
  BY <1>1, <1>2, <1>4 DEF FieldAt
<1> QED BY <1>3, <1>4

\* What the field of a key that is there, or has a default, holds is some key's.
MappedAt(def, doc, k) ==
    LET t == def.fields[k].target
    IN  /\ t \in DOMAIN Mapped(def, doc)
        /\ \E j \in TargetsIn(def, doc) : def.fields[j].target = t /\ Mapped(def, doc)[t] = FieldAt(def, doc, j)
LEMMA MappedHas ==
    ASSUME NEW def, NEW doc
    PROVE  /\ \A k \in TargetsIn(def, doc) : MappedAt(def, doc, k)
           /\ \A t \in DOMAIN Mapped(def, doc) :
                  \/ \E k \in TargetsIn(def, doc) : def.fields[k].target = t
                  \/ t \in DOMAIN def.defaults /\ Mapped(def, doc)[t] = def.defaults[t]
<1> DEFINE there == {def.fields[k].target : k \in TargetsIn(def, doc)}
           at(t) == CHOOSE k \in TargetsIn(def, doc) : def.fields[k].target = t
<1>1. Mapped(def, doc) = [t \in there \cup DOMAIN def.defaults |->
            IF t \in there THEN FieldAt(def, doc, at(t)) ELSE def.defaults[t]]
  BY DEF Mapped
<1>2. \A t \in there : at(t) \in TargetsIn(def, doc) /\ def.fields[at(t)].target = t
  OBVIOUS
<1>3. \A k \in TargetsIn(def, doc) : def.fields[k].target \in there
  OBVIOUS
<1> HIDE DEF at, there
<1>4. DOMAIN Mapped(def, doc) = there \cup DOMAIN def.defaults
  BY <1>1
<1>5. \A t \in there : Mapped(def, doc)[t] = FieldAt(def, doc, at(t))
  BY <1>1
<1>6. \A t \in DOMAIN def.defaults : t \in there \/ Mapped(def, doc)[t] = def.defaults[t]
  BY <1>1
<1>7. ASSUME NEW k \in TargetsIn(def, doc) PROVE MappedAt(def, doc, k)
  BY <1>2, <1>3, <1>4, <1>5 DEF MappedAt
<1>8. \A t \in there : \E k \in TargetsIn(def, doc) : def.fields[k].target = t
  BY DEF there
<1> QED BY <1>4, <1>6, <1>7, <1>8

\* A command is read with values, and has the fields of one.
LEMMA MappedValues ==
    ASSUME NEW def, LossFree(def), NEW doc, \A k \in DOMAIN doc : IsValue(doc[k]), ~Refuses(def, doc)
    PROVE  \A t \in DOMAIN Mapped(def, doc) : t \in CommandFields /\ IsValue(Mapped(def, doc)[t])
<1> SUFFICES ASSUME NEW t \in DOMAIN Mapped(def, doc) PROVE t \in CommandFields /\ IsValue(Mapped(def, doc)[t])
  OBVIOUS
<1>1. ASSUME NEW k \in TargetsIn(def, doc), def.fields[k].target = t
      PROVE  t \in CommandFields /\ IsValue(Mapped(def, doc)[t])
  <2>1. MappedAt(def, doc, k)
    BY MappedHas
  <2>2. PICK j \in TargetsIn(def, doc) : Mapped(def, doc)[t] = FieldAt(def, doc, j)
    BY <1>1, <2>1 DEF MappedAt
  <2>3. IsValue(FieldAt(def, doc, j)) /\ def.fields[k].target \in CommandFields
    BY FieldIsValue
  <2> QED BY <1>1, <2>2, <2>3
<1>2. ASSUME t \in DOMAIN def.defaults, Mapped(def, doc)[t] = def.defaults[t]
      PROVE  t \in CommandFields /\ IsValue(Mapped(def, doc)[t])
  BY <1>2 DEF LossFree
<1> QED BY <1>1, <1>2, MappedHas

\* What a command becomes in a loss-free format is a message of it, and says what it said.
LEMMA UnmappedSays ==
    ASSUME NEW def, LossFree(def), NEW said,
           \A t \in DOMAIN said : t \in CommandFields /\ IsValue(said[t]), ~Unmappable(def, said)
    PROVE  LET doc == Unmapped(def, said)
           IN  /\ DOMAIN doc \subseteq DOMAIN def.fields /\ \A k \in DOMAIN doc : IsValue(doc[k])
               /\ \A t \in DOMAIN said : /\ t \in DOMAIN Mapped(def, doc)
                                         /\ AsNumber(Mapped(def, doc)[t]) = AsNumber(said[t])
<1>1. PICK doc : doc = Unmapped(def, said)
  OBVIOUS
<1> DEFINE key(t)  == KeyFor(def, t)
           from(k) == CHOOSE u \in DOMAIN said : key(u) = k
<1>2. doc = [k \in {key(t) : t \in DOMAIN said} |-> GivenBack(ByFor(def, from(k)), said[from(k)])]
  BY <1>1 DEF Unmapped
<1>3. \A t \in DOMAIN said : key(t) \in DOMAIN def.fields /\ def.fields[key(t)].target = t /\ ByFor(def, t) = def.fields[key(t)].by
  BY KeyOfField
<1>4. \A k \in {key(t) : t \in DOMAIN said} : from(k) \in DOMAIN said /\ key(from(k)) = k
  OBVIOUS
<1> HIDE DEF key, from
<1>5. ASSUME NEW t \in DOMAIN said
      PROVE  from(key(t)) = t
  <2>1. from(key(t)) \in DOMAIN said /\ key(from(key(t))) = key(t)
    BY <1>4
  <2> QED BY <1>3, <2>1
<1>6. ASSUME NEW t \in DOMAIN said
      PROVE  key(t) \in DOMAIN doc /\ doc[key(t)] = GivenBack(def.fields[key(t)].by, said[t])
  BY <1>2, <1>3, <1>5
<1>7. ASSUME NEW t \in DOMAIN said
      PROVE  LET y == doc[key(t)]
             IN  IsValue(y) /\ Taken(def.fields[key(t)].by, y) # Fails
                 /\ AsNumber(Taken(def.fields[key(t)].by, y)) = AsNumber(said[t])
  <2>1. GivenBack(def.fields[key(t)].by, said[t]) # Fails
    BY <1>3 DEF Unmappable
  <2>2. def.fields[key(t)].by # "string"
    BY <1>3 DEF LossFree
  <2> QED BY <1>6, <2>1, <2>2, GivenAndTaken
<1>8. \A k \in DOMAIN doc : \E t \in DOMAIN said : k = key(t)
  BY <1>2
<1>9. DOMAIN doc \subseteq DOMAIN def.fields /\ \A k \in DOMAIN doc : IsValue(doc[k])
  BY <1>3, <1>7, <1>8
<1>10. ASSUME NEW t \in DOMAIN said
       PROVE  t \in DOMAIN Mapped(def, doc) /\ AsNumber(Mapped(def, doc)[t]) = AsNumber(said[t])
  <2>1. key(t) \in TargetsIn(def, doc)
    BY <1>3, <1>6 DEF TargetsIn
  <2>2. MappedAt(def, doc, key(t))
    BY <2>1, MappedHas
  <2>3. PICK j \in TargetsIn(def, doc) : def.fields[j].target = t /\ Mapped(def, doc)[t] = FieldAt(def, doc, j)
    BY <1>3, <2>2 DEF MappedAt
  <2>4. j = key(t)
    BY <1>3, <2>3 DEF LossFree, TargetsIn
  <2>5. FieldAt(def, doc, key(t)) = Taken(def.fields[key(t)].by, doc[key(t)])
    BY <1>6 DEF FieldAt
  <2>6. t \in DOMAIN Mapped(def, doc)
    BY <1>3, <2>2 DEF MappedAt
  <2> QED BY <1>7, <2>3, <2>4, <2>5, <2>6
<1> QED BY <1>1, <1>9, <1>10
-----------------------------------------------------------------------------
(* RelayTranslation: what parameters are taken for.                        *)

\* The formats there are from the start lose nothing; those registered must not either.
LEMMA BuiltInLossFree == LossFree(StandardJson) /\ LossFree(CompactJson)
<1>1. ASSUME NEW def, DOMAIN def.fields = {"id", "command", "parameters", "site_id", "node_id", "timestamp", "batch_id", "sequence"},
             \A k \in DOMAIN def.fields : def.fields[k] = Simple(k), def.defaults = <<>>
      PROVE  LossFree(def)
  <2>1. \A k \in DOMAIN def.fields : def.fields[k].target = k /\ def.fields[k].by = "none" /\ def.fields[k].default = Fails
    BY <1>1 DEF Simple
  <2>2. DOMAIN def.defaults = {}
    BY <1>1
  <2> QED BY <1>1, <2>1, <2>2 DEF LossFree, CommandFields
<1>2. LossFree(StandardJson)
  <2>1. StandardJson.fields = Whole /\ StandardJson.defaults = <<>>
    BY DEF StandardJson
  <2>2. DOMAIN Whole = {"id", "command", "parameters", "site_id", "node_id", "timestamp", "batch_id", "sequence"}
    BY DEF Whole
  <2>3. \A k \in DOMAIN Whole : Whole[k] = Simple(k)
    BY <2>2 DEF Whole
  <2> QED BY <1>1, <2>1, <2>2, <2>3
<1>3. LossFree(CompactJson)
  <2> DEFINE fs == CompactJson.fields
  <2>1. /\ DOMAIN fs = {"i", "c", "p", "s", "n", "t", "b", "q"}
        /\ fs["i"] = Simple("id") /\ fs["c"] = Simple("command") /\ fs["p"] = Simple("parameters")
        /\ fs["s"] = Simple("site_id") /\ fs["n"] = Simple("node_id")
        /\ fs["t"] = Complex("timestamp", "timestamp_s")
        /\ fs["b"] = Simple("batch_id") /\ fs["q"] = Simple("sequence")
    BY DEF CompactJson
  <2>2. /\ fs["i"].target = "id" /\ fs["c"].target = "command" /\ fs["p"].target = "parameters"
        /\ fs["s"].target = "site_id" /\ fs["n"].target = "node_id" /\ fs["t"].target = "timestamp"
        /\ fs["b"].target = "batch_id" /\ fs["q"].target = "sequence"
    BY <2>1 DEF Simple, Complex
  <2>3. \A k \in DOMAIN fs : fs[k].by # "string" /\ fs[k].default = Fails
    BY <2>1 DEF Simple, Complex
  <2>4. DOMAIN CompactJson.defaults = {"timestamp"} /\ CompactJson.defaults["timestamp"] = Float(0)
    BY DEF CompactJson
  <2>5. IsValue(Float(0))
    BY DEF IsValue, Float, Value, Kinds
  <2>6. CompactJson.fields = fs
    OBVIOUS
  <2> HIDE DEF fs
  <2>7. \A k \in DOMAIN fs : fs[k].target \in CommandFields
    BY <2>1, <2>2 DEF CommandFields
  <2>8. \A j, k \in DOMAIN fs : fs[j].target = fs[k].target => j = k
    BY <2>1, <2>2
  <2>9. \A t \in CommandFields : \E k \in DOMAIN fs : fs[k].target = t
    BY <2>1, <2>2 DEF CommandFields
  <2>10. \A t \in DOMAIN CompactJson.defaults : t \in CommandFields /\ IsValue(CompactJson.defaults[t])
    BY <2>4, <2>5 DEF CommandFields
  <2> QED BY <2>3, <2>6, <2>7, <2>8, <2>9, <2>10 DEF LossFree
<1> QED BY <1>2, <1>3

LEMMA JsonLossFree ==
    ASSUME CustomLossFree, NEW name \in Json
    PROVE  LossFree(Format(name))
<1>1. Original(name) \in Formats /\ Format(name).content = "json" /\ Format(name) = Definition(Original(name))
  BY DEF Json, Format
<1>2. CASE Original(name) = Entry("standard_json", 1)
  BY <1>1, <1>2, BuiltInLossFree DEF Definition, Entry
<1>3. CASE Original(name) = Entry("compact_json", 1)
  BY <1>1, <1>3, BuiltInLossFree DEF Definition, Entry
<1>4. CASE Original(name) = Entry("resp3", 1)
  <2>1. Format(name) = Resp3
    BY <1>1, <1>4 DEF Definition, Entry
  <2> QED BY <1>1, <2>1 DEF Resp3
<1>5. CASE Original(name) \notin BuiltIn
  <2>1. Original(name) \in DOMAIN Custom
    BY <1>1, <1>5 DEF Formats
  <2>2. /\ Original(name) # Entry("standard_json", 1) /\ Original(name) # Entry("compact_json", 1)
        /\ Original(name) # Entry("resp3", 1)
    BY <1>5 DEF BuiltIn
  <2>3. Format(name) = Custom[Original(name)]
    BY <1>1, <2>2 DEF Definition
  <2> QED BY <1>1, <2>1, <2>3 DEF CustomLossFree
<1> QED BY <1>2, <1>3, <1>4, <1>5 DEF BuiltIn

\* The first key of a document is one of its keys.
LEMMA FirstKeyIs ==
    ASSUME NEW doc
    PROVE  FirstKey(doc) = NoKey \/ FirstKey(doc) \in DOMAIN doc
<1> DEFINE there == {i \in DOMAIN Keys : Keys[i] \in DOMAIN doc}
<1>1. CASE there = {}
  BY <1>1 DEF FirstKey
<1>2. CASE there # {}
  <2>1. there \subseteq Nat
    BY NoValues
  <2>2. PICK x \in there : \A y \in there : ~(<<y, x>> \in OpToRel(<, Nat))
    BY <1>2, <2>1, NatLessThanWellFounded, WFMin
  <2>3. \A y \in there : ~(y < x)
    BY <2>1, <2>2 DEF OpToRel
  <2>4. \A y \in there : x <= y
    BY <2>1, <2>3
  <2> DEFINE least == CHOOSE i \in there : \A j \in there : i <= j
  <2>5. least \in there
    BY <2>4
  <2>6. FirstKey(doc) = Keys[least]
    BY <1>2 DEF FirstKey
  <2> QED BY <2>5, <2>6
<1> QED BY <1>1, <1>2

\* What is detected is a candidate's format, and the parameters look like one of it.
LEMMA DetectedIs ==
    ASSUME candidates \in Seq(Formats), NEW doc, Detected(doc) # NoName
    PROVE  doc # Null /\ \E e \in Formats : e.name = Detected(doc) /\ LooksLike(e, doc)
<1> DEFINE score(i) == Confidence(Definition(candidates[i]), doc)
           best == {i \in DOMAIN candidates : \A j \in DOMAIN candidates :
                        score(j) < score(i) \/ (score(j) = score(i) /\ i <= j)}
           it == CHOOSE i \in best : score(i) >= 5
<1>1. (\E i \in best : score(i) >= 5) /\ Detected(doc) = candidates[it].name
  BY DEF Detected
<1>2. it \in DOMAIN candidates /\ score(it) >= 5
  BY <1>1
<1> HIDE DEF it
<1>3. candidates[it] \in Formats
  BY <1>2
<1>4. score(it) # 0
  BY <1>2
<1>5. doc # Null /\ \E l \in Definition(candidates[it]).looks : l.first \in {AnyKey, FirstKey(doc)}
  BY <1>4 DEF Confidence, IsObject
<1> QED BY <1>1, <1>3, <1>5 DEF LooksLike

\* A message is taken for one of its own format, or not converted.
LEMMA SourceIsSpelled ==
    ASSUME candidates \in Seq(Formats), FormatsApart, registered \subseteq Formats,
           NEW name, InFormat(name, params), NEW target, Convertible(Detected(params), target)
    PROVE  Detected(params) = name
<1> DEFINE source == Detected(params)
<1>1. /\ source # NoName /\ Original(source) \in Formats /\ Format(source).content = "json"
      /\ Format(source).needs \subseteq DOMAIN params
  BY DEF Convertible, Valid
<1>2. PICK e \in Formats : e.name = source /\ LooksLike(e, params)
  BY <1>1, DetectedIs
<1>3. source \in Json
  BY <1>1, <1>2 DEF Json, Names
<1>4. name \in Json /\ DOMAIN params \subseteq DOMAIN Format(name).fields
  BY DEF InFormat
<1>5. SUFFICES ASSUME source # name PROVE FALSE
  OBVIOUS
<1>6. Apart(e, name)
  BY <1>2, <1>4, <1>5 DEF FormatsApart
<1>7. PICK l \in Definition(e).looks : l.first \in {AnyKey, FirstKey(params)}
  BY <1>2 DEF LooksLike
<1>8. CASE l.first = AnyKey
  <2>1. ~(Format(source).needs \subseteq DOMAIN Format(name).fields)
    BY <1>2, <1>3, <1>6, <1>8 DEF Apart
  <2> QED BY <1>1, <1>4, <2>1
<1>9. CASE l.first # AnyKey
  <2>1. l.first # NoKey /\ l.first \notin DOMAIN Format(name).fields
    BY <1>6, <1>9 DEF Apart
  <2> QED BY <1>4, <1>7, <1>9, <2>1, FirstKeyIs
<1> QED BY <1>8, <1>9
-----------------------------------------------------------------------------
(* RelayTranslation: the inductive invariant.                              *)

\* Formats are only added, and what is detected is one of them.
KnownFormats ==
    /\ registered \subseteq Formats /\ entering \subseteq Formats /\ candidates \in Seq(Formats)
    /\ submitted \in Submitted

\* Ordinary parameters are as they were; a message is one of the format it is in, and says
\* all that it said, until it is lost on its way to a service that wants RESP3.
Intact ==
    IF submitted.format = NoName THEN params = submitted.text
    ELSE /\ Original(spelled) \in Formats
         /\ IF Format(spelled).content = "resp3" THEN params = Null
            ELSE /\ InFormat(spelled, params)
                 /\ Says(Meaning(spelled, params), Meaning(submitted.format, submitted.text))

TranslationInv == KnownFormats /\ Intact

\* A message of one format, written in another, says the same there.
LEMMA ConvertedSays ==
    ASSUME CustomLossFree, NEW name, InFormat(name, params), NEW target,
           Convertible(name, target), Format(target).content = "json", Original(target) \in Formats
    PROVE  /\ InFormat(target, Converted(name, target))
           /\ Says(Meaning(target, Converted(name, target)), Meaning(name, params))
<1>1. name \in Json /\ LossFree(Format(name)) /\ \A k \in DOMAIN params : IsValue(params[k])
  BY JsonLossFree DEF InFormat
<1>2. target \in Json
  <2>1. Original(target).name = target
    BY DEF Original, Entry
  <2> QED BY <2>1 DEF Json, Names
<1>3. LossFree(Format(target))
  BY <1>2, JsonLossFree
<1>4. ~Refuses(Format(name), params) /\ ~Unmappable(Format(target), Mapped(Format(name), params))
  BY DEF Convertible
<1>5. PICK said : said = Mapped(Format(name), params)
  OBVIOUS
<1>6. \A t \in DOMAIN said : t \in CommandFields /\ IsValue(said[t])
  BY <1>1, <1>4, <1>5, MappedValues
<1>7. PICK doc : doc = Unmapped(Format(target), said)
  OBVIOUS
<1>8. /\ DOMAIN doc \subseteq DOMAIN Format(target).fields /\ \A k \in DOMAIN doc : IsValue(doc[k])
      /\ \A t \in DOMAIN said : /\ t \in DOMAIN Mapped(Format(target), doc)
                                /\ AsNumber(Mapped(Format(target), doc)[t]) = AsNumber(said[t])
  BY <1>3, <1>4, <1>5, <1>6, <1>7, UnmappedSays
<1>9. Converted(name, target) = doc
  BY <1>5, <1>7 DEF Converted
<1>10. InFormat(target, doc)
  BY <1>2, <1>8 DEF InFormat
<1>11. PICK read : read = Mapped(Format(target), doc)
  OBVIOUS
<1>12. Meaning(target, doc) = [t \in DOMAIN read |-> AsNumber(read[t])]
  BY <1>11 DEF Meaning
<1>13. Meaning(name, params) = [t \in DOMAIN said |-> AsNumber(said[t])]
  BY <1>5 DEF Meaning
<1>14. Says(Meaning(target, doc), Meaning(name, params))
  BY <1>8, <1>11, <1>12, <1>13 DEF Says
<1> QED BY <1>9, <1>10, <1>14

LEMMA SaysOn ==
    ASSUME NEW x, NEW y, NEW z, Says(x, y), Says(y, z)
    PROVE  Says(x, z)
BY DEF Says

LEMMA TranslationBegins ==
    ASSUME Translatable, TranslationInit
    PROVE  TranslationInv
<1>1. KnownFormats
  <2>1. /\ Original("standard_json") \in Formats /\ Original("resp3") \in Formats
        /\ Original("compact_json") \in Formats
    BY DEF Original, Formats, BuiltIn
  <2> QED BY <2>1 DEF TranslationInit, KnownFormats, Formats
<1>2. submitted \in Submitted /\ params = submitted.text /\ spelled = submitted.format
  BY DEF TranslationInit
<1>3. CASE submitted.format = NoName
  BY <1>1, <1>2, <1>3 DEF Intact, TranslationInv
<1>4. CASE submitted.format # NoName
  <2>1. InFormat(spelled, params)
    BY <1>2, <1>4 DEF Translatable, ClearlySubmitted
  <2>2. Original(spelled) \in Formats /\ Format(spelled).content = "json"
    BY <2>1 DEF InFormat, Json
  <2>3. Says(Meaning(spelled, params), Meaning(submitted.format, submitted.text))
    <3>1. \A m : Says(m, m)
      BY DEF Says
    <3> QED BY <1>2, <3>1
  <2> QED BY <1>1, <1>4, <2>1, <2>2, <2>3 DEF Intact, TranslationInv
<1> QED BY <1>3, <1>4

\* A relay, of a message or of ordinary parameters.
LEMMA RelayKeeps ==
    ASSUME Translatable, TranslationInv, NEW s \in Places, RelayTo(s)
    PROVE  TranslationInv'
<1> DEFINE source == Detected(params)
           target == declares[s]
<1>1. KnownFormats /\ Intact
  BY DEF TranslationInv
<1>2. UNCHANGED <<registered, entering, candidates, submitted>>
  BY DEF RelayTo
<1>3. KnownFormats'
  BY <1>1, <1>2 DEF KnownFormats
<1>4. CASE ~Convertible(source, target)
  <2>1. UNCHANGED <<params, spelled>>
    BY <1>4 DEF RelayTo
  <2> QED BY <1>1, <1>2, <1>3, <2>1 DEF Intact, TranslationInv
<1>5. CASE Convertible(source, target)
  <2>1. spelled' = target /\ params' = Converted(source, target)
    BY <1>5 DEF RelayTo
  <2>2. /\ source # NoName /\ Original(source) \in Formats /\ Original(target) \in Formats
        /\ Format(source).content = "json" /\ Valid(Format(source), params) /\ ~Refuses(Format(source), params)
        /\ Format(target).content \in {"json", "resp3"}
    BY <1>1, <1>5 DEF Convertible, KnownFormats
  <2>3. PICK e \in Formats : e.name = source /\ LooksLike(e, params)
    BY <1>1, <2>2, DetectedIs DEF KnownFormats
  <2>4. params # Null
    BY <1>1, <2>2, DetectedIs DEF KnownFormats
  <2>5. source \in Json
    BY <2>2, <2>3 DEF Json, Names
  <2>6. submitted.format # NoName
    <3>1. SUFFICES ASSUME submitted.format = NoName PROVE FALSE
      OBVIOUS
    <3>2. params = submitted.text /\ submitted \in Submitted
      BY <1>1, <3>1 DEF Intact, KnownFormats
    <3>3. Ordinary(params)
      BY <3>1, <3>2 DEF Translatable, ClearlySubmitted
    <3> QED BY <2>2, <2>3, <2>5, <3>3 DEF Ordinary
  <2>7. InFormat(spelled, params) /\ Says(Meaning(spelled, params), Meaning(submitted.format, submitted.text))
    BY <1>1, <2>4, <2>6 DEF Intact
  <2>8. source = spelled
    BY <1>1, <1>5, <2>7, SourceIsSpelled DEF Translatable, KnownFormats
  <2>9. CASE Format(target).content = "resp3"
    <3>1. params' = Null
      BY <2>1, <2>9 DEF Converted
    <3>2. Format(spelled)' = Format(target)
      BY <2>1 DEF Format, Definition
    <3>3. Original(spelled)' \in Formats
      BY <2>1, <2>2
    <3> QED BY <1>2, <1>3, <2>6, <2>9, <3>1, <3>2, <3>3 DEF Intact, TranslationInv
  <2>10. CASE Format(target).content = "json"
    <3>1. /\ InFormat(target, Converted(source, target))
          /\ Says(Meaning(target, Converted(source, target)), Meaning(spelled, params))
      BY <1>5, <2>2, <2>7, <2>8, <2>10, ConvertedSays DEF Translatable
    <3>2. Says(Meaning(target, Converted(source, target)), Meaning(submitted.format, submitted.text))
      BY <2>7, <3>1, SaysOn
    <3>3. PICK doc : doc = Converted(source, target)
      OBVIOUS
    <3>4. PICK to : to = target
      OBVIOUS
    <3>5. /\ spelled' = to /\ params' = doc /\ InFormat(to, doc) /\ Original(to) \in Formats
          /\ Format(to).content = "json"
          /\ Says(Meaning(to, doc), Meaning(submitted.format, submitted.text))
      BY <2>1, <2>2, <2>10, <3>1, <3>2, <3>3, <3>4
    <3> HIDE DEF target, source
    <3>6. Intact'
      BY <1>2, <2>6, <3>5 DEF Intact
    <3> QED BY <1>3, <3>6 DEF TranslationInv
  <2> QED BY <2>2, <2>9, <2>10
<1> QED BY <1>4, <1>5

LEMMA TranslationGoesOn ==
    ASSUME Translatable, TranslationInv, [TranslationNext]_translationVars
    PROVE  TranslationInv'
<1>1. KnownFormats /\ Intact
  BY DEF TranslationInv
<1>2. ASSUME UNCHANGED <<params, spelled, submitted>>
      PROVE  Intact'
  BY <1>1, <1>2 DEF Intact
<1>3. ASSUME NEW s \in Places, RelayTo(s) PROVE TranslationInv'
  BY <1>3, RelayKeeps
<1>4. ASSUME NEW s \in Places, NEW name \in Names \cup {NoName}, Declare(s, name) PROVE TranslationInv'
  <2>1. KnownFormats'
    BY <1>1, <1>4 DEF Declare, KnownFormats
  <2> QED BY <1>2, <1>4, <2>1 DEF Declare, TranslationInv
<1>5. ASSUME NEW entry \in DOMAIN Custom, Register(entry) PROVE TranslationInv'
  <2>1. KnownFormats'
    BY <1>1, <1>5 DEF Register, KnownFormats, Formats
  <2> QED BY <1>2, <1>5, <2>1 DEF Register, TranslationInv
<1>6. ASSUME NEW entry \in DOMAIN Custom, MakeDefault(entry) PROVE TranslationInv'
  <2>1. entry \in Formats
    BY DEF Formats
  <2>2. candidates' \in Seq(Formats)
    <3>1. candidates \in Seq(Formats)
      BY <1>1 DEF KnownFormats
    <3>2. [i \in DOMAIN candidates |-> IF candidates[i].name = entry.name THEN entry ELSE candidates[i]] \in Seq(Formats)
      BY <2>1, <3>1
    <3>3. Append(candidates, entry) \in Seq(Formats)
      BY <2>1, <3>1
    <3> QED BY <1>6, <3>2, <3>3 DEF MakeDefault
  <2>3. KnownFormats'
    BY <1>1, <1>6, <2>2 DEF MakeDefault, KnownFormats
  <2> QED BY <1>2, <1>6, <2>3 DEF MakeDefault, TranslationInv
<1>7. CASE UNCHANGED translationVars
  <2>1. KnownFormats'
    BY <1>1, <1>7 DEF translationVars, KnownFormats
  <2> QED BY <1>2, <1>7, <2>1 DEF translationVars, TranslationInv
<1> QED BY <1>3, <1>4, <1>5, <1>6, <1>7 DEF TranslationNext

\* Parameters that are a message say the same after any number of relays, in whatever formats
\* the services declare and while formats are registered, and ordinary ones arrive as they
\* were: for any formats that lose nothing and can be told apart.
THEOREM TranslationHolds ==
    ASSUME Translatable PROVE TranslationSpec => []TranslationKept
<1>1. TranslationInit => TranslationInv
  BY TranslationBegins
<1>2. TranslationInv /\ [TranslationNext]_translationVars => TranslationInv'
  BY TranslationGoesOn
<1>3. TranslationInv => TranslationKept
  BY DEF TranslationInv, Intact, TranslationKept
<1> QED BY <1>1, <1>2, <1>3, PTL DEF TranslationSpec
=============================================================================
