---------------------- MODULE CoordinatedDeliveryProofs ----------------------
(***************************************************************************)
(* Proofs about QueueDelivery and CoordinatedDelivery, for any messages,   *)
(* keys, queues and limits. About the queue: an attempt is followed once,  *)
(* a message has one consumer while no visibility runs out, the receive    *)
(* limit is kept on both sides, and the ledger loses no accepted message.  *)
(* About the guards: the guarded consumers are consumers of QueueDelivery, *)
(* the lock they share implements FencedLock, the journal lets one attempt *)
(* of a key through, and nobody is answered for work that was not done.    *)
(***************************************************************************)
EXTENDS CoordinatedDelivery, FiniteSetTheorems, SequenceTheorems, TLAPS

-----------------------------------------------------------------------------
(* The queue *)

\* An attempt whose own count of followers is right: while it is under way it has
\* been followed once for each time its visibility ran out, and carries the mark.
IsLive(a) == a.state \notin {"delivered", "failed"}
Sound(a) ==
  /\ a.followUps <= 1 \/ a.followUps <= a.expiries
  /\ IsLive(a) => a.followUps <= a.expiries /\ (a.expiries > 0 => a.visibilityExpired)
SoundAttempt == {a \in AttemptType : Sound(a)}

\* Where no visibility ran out, nothing carries the mark, only the last attempt may
\* be under way, and if it failed the message was given up at the limit.
Unexpired(s) == \A n \in DOMAIN s : s[n].expiries = 0
OneLive(s) ==
  \A n \in DOMAIN s : ~s[n].visibilityExpired /\ (IsLive(s[n]) => n = Len(s))
GivenUp(s) == s # <<>> /\ s[Len(s)].state = "failed" => AtLimit(s[Len(s)])
Chain(s) == Unexpired(s) => OneLive(s) /\ GivenUp(s)

\* The number of an attempt, as ReceivesBounded has it.
Numbered(s) ==
  \A n \in DOMAIN s :
    \/ n = 1 \/ s[n].retryCount < Delivery[s[n].queue].maxReceive
    \/ \E k \in 1 .. n - 1 : /\ s[k].queue # s[n].queue
                            /\ s[k].retryCount = s[n].retryCount

DInv ==
  /\ attempts \in [Messages -> Seq(SoundAttempt)]
  /\ \A m \in Messages : Chain(attempts[m]) /\ Numbered(attempts[m])

-----------------------------------------------------------------------------
(* The sequence of attempts *)

\* What replacing one element and appending others makes of a sequence.
LEMMA Regrown ==
  ASSUME NEW S, NEW s \in Seq(S), NEW n \in DOMAIN s, NEW a \in S, NEW t \in Seq(S),
         NEW u, u = [s EXCEPT ![n] = a] \o t
  PROVE  /\ u \in Seq(S) /\ Len(u) = Len(s) + Len(t) /\ u[n] = a
         /\ \A j \in DOMAIN s \ {n} : u[j] = s[j]
         /\ \A j \in DOMAIN u \ DOMAIN s : u[j] = t[j - Len(s)]
<1> DEFINE v == [s EXCEPT ![n] = a]
<1>1. v \in Seq(S) /\ Len(v) = Len(s) /\ DOMAIN v = DOMAIN s
  OBVIOUS
<1>2. v[n] = a /\ \A j \in DOMAIN s \ {n} : v[j] = s[j]
  OBVIOUS
<1>3. /\ u \in Seq(S) /\ Len(u) = Len(v) + Len(t)
      /\ \A j \in 1 .. Len(v) : u[j] = v[j]
      /\ \A j \in Len(v) + 1 .. Len(v) + Len(t) : u[j] = t[j - Len(v)]
  <2>1. u = v \o t
    OBVIOUS
  <2> HIDE DEF v
  <2>2. \A j \in 1 .. Len(v) : u[j] = v[j]
    BY <1>1, <2>1
  <2>3. \A j \in Len(v) + 1 .. Len(v) + Len(t) : u[j] = t[j - Len(v)]
    BY <1>1, <2>1
  <2> QED BY <1>1, <2>1, <2>2, <2>3
<1>4. DOMAIN s = 1 .. Len(s) /\ DOMAIN u = 1 .. Len(u) /\ Len(s) \in Nat /\ Len(t) \in Nat
  BY <1>3
<1> HIDE DEF v
<1>5. \A j \in DOMAIN u \ DOMAIN s : j \in Len(v) + 1 .. Len(v) + Len(t)
  BY <1>1, <1>3, <1>4
<1> QED BY <1>1, <1>2, <1>3, <1>4, <1>5

\* An attempt has at most one follower, and it is one of these.
LEMMA FollowUpsType ==
  ASSUME NEW a \in AttemptType, NEW byExpiry \in BOOLEAN,
         NEW next, next = FollowUps(a, byExpiry)
  PROVE  /\ next \in Seq(SoundAttempt) /\ Len(next) \in {0, 1}
         /\ Len(next) # 1 => (a.visibilityExpired /\ ~byExpiry) \/ AtLimit(a)
         /\ Len(next) = 1 =>
              /\ ~(a.visibilityExpired /\ ~byExpiry)
              /\ IsLive(next[1]) /\ next[1].visibilityExpired = a.visibilityExpired
              /\ next[1].followUps = 0
              /\ \/ next[1].retryCount < Delivery[next[1].queue].maxReceive
                 \/ next[1].queue # a.queue /\ next[1].retryCount = a.retryCount
<1> DEFINE config == Delivery[a.queue]
           again == Attempt(a.queue, a.retryCount + 1, a.visibilityExpired)
           dead == Attempt(config.dlq, a.retryCount, a.visibilityExpired)
<1>1. /\ a.queue \in Queues /\ a.retryCount \in Nat /\ a.visibilityExpired \in BOOLEAN
      /\ config.maxReceive \in Nat /\ config.semantics \in {"at-most-once", "at-least-once"}
  BY DeliveryAssumption DEF AttemptType
<1>2. again \in SoundAttempt
  BY <1>1 DEF Attempt, SoundAttempt, Sound, AttemptType, IsLive
<1>3. config.dlq \in Queues => dead \in SoundAttempt
  BY <1>1 DEF Attempt, SoundAttempt, Sound, AttemptType, IsLive
<1>0. <<>> \in Seq(SoundAttempt) /\ Len(<<>>) = 0
  OBVIOUS
<1>4. CASE a.visibilityExpired /\ ~byExpiry
  BY <1>0, <1>4 DEF FollowUps
<1>5. CASE ~(a.visibilityExpired /\ ~byExpiry) /\ config.semantics = "at-most-once"
  BY <1>0, <1>5, <1>1 DEF FollowUps, AtLimit
<1>6. CASE /\ ~(a.visibilityExpired /\ ~byExpiry) /\ config.semantics # "at-most-once"
           /\ a.retryCount + 1 < config.maxReceive
  <2>1. FollowUps(a, byExpiry) = <<again>>
    BY <1>6, <1>1 DEF FollowUps
  <2>2. /\ again.retryCount = a.retryCount + 1 /\ again.queue = a.queue
        /\ IsLive(again) /\ again.expiries = 0 /\ again.followUps = 0
        /\ again.visibilityExpired = a.visibilityExpired
    BY DEF Attempt, IsLive
  <2> HIDE DEF again
  <2> QED BY <1>2, <1>6, <2>1, <2>2
<1>7. CASE /\ ~(a.visibilityExpired /\ ~byExpiry) /\ config.semantics # "at-most-once"
           /\ ~(a.retryCount + 1 < config.maxReceive)
           /\ config.dlq \in Queues \ {a.queue}
  <2>1. FollowUps(a, byExpiry) = <<dead>>
    BY <1>7, <1>1 DEF FollowUps
  <2>2. /\ dead.retryCount = a.retryCount /\ dead.queue # a.queue
        /\ IsLive(dead) /\ dead.expiries = 0 /\ dead.followUps = 0
        /\ dead.visibilityExpired = a.visibilityExpired
    BY <1>7 DEF Attempt, IsLive
  <2> HIDE DEF dead
  <2> QED BY <1>3, <1>7, <2>1, <2>2
<1>8. CASE /\ ~(a.visibilityExpired /\ ~byExpiry) /\ config.semantics # "at-most-once"
           /\ ~(a.retryCount + 1 < config.maxReceive)
           /\ config.dlq \notin Queues \ {a.queue}
  <2>1. FollowUps(a, byExpiry) = <<>>
    BY <1>8, <1>1 DEF FollowUps
  <2> QED BY <1>0, <1>8, <1>1, <2>1 DEF AtLimit
<1> QED BY <1>4, <1>5, <1>6, <1>7, <1>8

-----------------------------------------------------------------------------
(* One message *)

\* What a step makes of the attempts of the message it is about: the n-th, which was
\* under way, becomes a, and next is forked.
Successor(s, n, a, next, u) ==
  /\ u = [s EXCEPT ![n] = a] \o next
  /\ a.queue = s[n].queue /\ a.retryCount = s[n].retryCount
  /\ a.visibilityExpired = s[n].visibilityExpired \/ a.expiries > 0
  /\ a.expiries >= s[n].expiries

LEMMA Succession ==
  ASSUME NEW s \in Seq(SoundAttempt), NEW n \in DOMAIN s, NEW a \in SoundAttempt,
         NEW next \in Seq(SoundAttempt), Len(next) \in {0, 1},
         NEW u, Successor(s, n, a, next, u)
  PROVE  /\ u \in Seq(SoundAttempt) /\ u[n] = a
         /\ \A j \in DOMAIN s \ {n} : u[j] = s[j]
         /\ \E l, k \in Nat :
              /\ l = Len(s) /\ k = Len(u) /\ n \in 1 .. l
              /\ DOMAIN s = 1 .. l /\ DOMAIN u = 1 .. k
              /\ \/ Len(next) # 1 /\ k = l
                 \/ Len(next) = 1 /\ k = l + 1 /\ u[k] = next[1]
<1>1. u = [s EXCEPT ![n] = a] \o next
  BY DEF Successor
<1>2. /\ u \in Seq(SoundAttempt) /\ Len(u) = Len(s) + Len(next) /\ u[n] = a
      /\ \A j \in DOMAIN s \ {n} : u[j] = s[j]
      /\ \A j \in DOMAIN u \ DOMAIN s : u[j] = next[j - Len(s)]
  BY <1>1, Regrown
<1>3. PICK l \in Nat : l = Len(s) /\ DOMAIN s = 1 .. l
  OBVIOUS
<1>4. PICK k \in Nat : k = Len(u) /\ DOMAIN u = 1 .. k
  BY <1>2
<1>5. PICK f \in {0, 1} : f = Len(next)
  OBVIOUS
<1>6. k = l + f
  BY <1>2, <1>3, <1>4, <1>5
<1>7. CASE f = 0
  <2>1. k = l /\ Len(next) # 1
    BY <1>3, <1>5, <1>6, <1>7
  <2> QED BY <1>2, <1>3, <1>4, <2>1
<1>8. CASE f = 1
  <2>1. k = l + 1 /\ Len(next) = 1
    BY <1>5, <1>6, <1>8
  <2>2. k \in DOMAIN u \ DOMAIN s /\ k - l = 1
    BY <1>3, <1>4, <2>1
  <2>3. u[k] = next[1]
    BY <1>2, <1>3, <2>2
  <2> QED BY <1>2, <1>3, <1>4, <2>1, <2>3
<1> QED BY <1>5, <1>7, <1>8

LEMMA NumberedStep ==
  ASSUME NEW s \in Seq(SoundAttempt), NEW n \in DOMAIN s, NEW a \in SoundAttempt,
         NEW next \in Seq(SoundAttempt), Len(next) \in {0, 1},
         NEW u, Successor(s, n, a, next, u), Numbered(s),
         Len(next) = 1 =>
           \/ next[1].retryCount < Delivery[next[1].queue].maxReceive
           \/ next[1].queue # a.queue /\ next[1].retryCount = a.retryCount
  PROVE  Numbered(u)
<1>1. u[n] = a /\ \A j \in DOMAIN s \ {n} : u[j] = s[j]
  BY Succession
<1>2. PICK l \in Nat, k \in Nat :
        /\ n \in 1 .. l /\ DOMAIN s = 1 .. l /\ DOMAIN u = 1 .. k
        /\ \/ Len(next) # 1 /\ k = l
           \/ Len(next) = 1 /\ k = l + 1 /\ u[k] = next[1]
  BY Succession
<1>4. \A j \in DOMAIN s : u[j].queue = s[j].queue /\ u[j].retryCount = s[j].retryCount
  BY <1>1 DEF Successor
<1> SUFFICES ASSUME NEW j \in 1 .. k
             PROVE  \/ j = 1 \/ u[j].retryCount < Delivery[u[j].queue].maxReceive
                    \/ \E i \in 1 .. j - 1 : /\ u[i].queue # u[j].queue
                                            /\ u[i].retryCount = u[j].retryCount
  BY <1>2 DEF Numbered
<1>5. CASE j \in 1 .. l
  <2>1. \A i \in 1 .. j - 1 : i \in 1 .. l
    BY <1>5
  <2>2. \/ j = 1 \/ s[j].retryCount < Delivery[s[j].queue].maxReceive
        \/ \E i \in 1 .. j - 1 : /\ s[i].queue # s[j].queue
                                /\ s[i].retryCount = s[j].retryCount
    BY <1>2, <1>5 DEF Numbered
  <2> QED BY <1>2, <1>4, <1>5, <2>1, <2>2
<1>6. CASE j \notin 1 .. l
  <2>1. j = k /\ Len(next) = 1 /\ u[k] = next[1]
    BY <1>2, <1>6
  <2>2. n \in 1 .. j - 1
    BY <1>2, <1>6
  <2> QED BY <1>1, <2>1, <2>2
<1> QED BY <1>5, <1>6

\* A step of an attempt whose visibility runs out now or ran out before.
LEMMA ChainExpired ==
  ASSUME NEW s \in Seq(SoundAttempt), NEW n \in DOMAIN s, NEW a \in SoundAttempt,
         NEW next \in Seq(SoundAttempt), Len(next) \in {0, 1},
         NEW u, Successor(s, n, a, next, u), a.expiries > 0
  PROVE  Chain(u)
<1>1. u[n] = a
  BY Succession
<1>2. PICK l \in Nat, k \in Nat :
        n \in 1 .. l /\ DOMAIN u = 1 .. k /\ (k = l \/ k = l + 1)
  BY Succession
<1>3. n \in DOMAIN u
  BY <1>2
<1>4. a.expiries # 0
  BY DEF SoundAttempt, AttemptType
<1>5. ~Unexpired(u)
  BY <1>1, <1>3, <1>4 DEF Unexpired
<1> QED BY <1>5 DEF Chain

\* What the other steps of an attempt take for granted.
LEMMA ChainBefore ==
  ASSUME NEW s \in Seq(SoundAttempt), NEW n \in DOMAIN s, NEW a \in SoundAttempt,
         NEW next \in Seq(SoundAttempt), Len(next) \in {0, 1},
         NEW u, Successor(s, n, a, next, u), Chain(s), IsLive(s[n]), Unexpired(u)
  PROVE  OneLive(s) /\ n = Len(s) /\ ~a.visibilityExpired
<1>1. u[n] = a /\ \A j \in DOMAIN s \ {n} : u[j] = s[j]
  BY Succession
<1>2. DOMAIN s \subseteq DOMAIN u
  <2>1. PICK l \in Nat, k \in Nat :
          DOMAIN s = 1 .. l /\ DOMAIN u = 1 .. k /\ (k = l \/ k = l + 1)
    BY Succession
  <2>2. 1 .. l \subseteq 1 .. k
    BY <2>1
  <2> QED BY <2>1, <2>2
<1>3. a.expiries = 0
  BY <1>1, <1>2 DEF Unexpired
<1>4. a.expiries >= s[n].expiries /\ a.visibilityExpired = s[n].visibilityExpired
  BY <1>3 DEF Successor
<1>5. s[n] \in SoundAttempt
  OBVIOUS
<1>6. s[n].expiries \in Nat
  BY <1>5 DEF SoundAttempt, AttemptType
<1>7. s[n].expiries = 0
  BY <1>3, <1>4, <1>6
<1>8. Unexpired(s)
  BY <1>1, <1>2, <1>7 DEF Unexpired
<1>9. OneLive(s)
  BY <1>8 DEF Chain
<1> QED BY <1>4, <1>9 DEF OneLive

\* A step that forks nothing and leaves the attempt under way or delivered.
LEMMA ChainQuiet ==
  ASSUME NEW s \in Seq(SoundAttempt), NEW n \in DOMAIN s, NEW a \in SoundAttempt,
         NEW next \in Seq(SoundAttempt), Len(next) \in {0, 1}, Len(next) # 1,
         NEW u, Successor(s, n, a, next, u), Chain(s), IsLive(s[n]), a.state # "failed"
  PROVE  Chain(u)
<1> SUFFICES ASSUME Unexpired(u) PROVE OneLive(u) /\ GivenUp(u)
  BY DEF Chain
<1>1. u[n] = a /\ \A j \in DOMAIN s \ {n} : u[j] = s[j]
  BY Succession
<1>2. OneLive(s) /\ n = Len(s) /\ ~a.visibilityExpired
  BY ChainBefore
<1>3. Len(u) = Len(s) /\ DOMAIN u = DOMAIN s
  BY Succession
<1>4. OneLive(u)
  BY <1>1, <1>2, <1>3 DEF OneLive
<1>5. GivenUp(u)
  BY <1>1, <1>2, <1>3 DEF GivenUp
<1> QED BY <1>4, <1>5

\* The attempt fails.
LEMMA ChainFails ==
  ASSUME NEW s \in Seq(SoundAttempt), NEW n \in DOMAIN s, NEW a \in SoundAttempt,
         NEW next \in Seq(SoundAttempt), Len(next) \in {0, 1},
         Len(next) # 1 => a.visibilityExpired \/ AtLimit(a),
         Len(next) = 1 =>
           IsLive(next[1]) /\ next[1].visibilityExpired = a.visibilityExpired,
         NEW u, Successor(s, n, a, next, u), Chain(s), IsLive(s[n]), a.state = "failed"
  PROVE  Chain(u)
<1> SUFFICES ASSUME Unexpired(u) PROVE OneLive(u) /\ GivenUp(u)
  BY DEF Chain
<1>1. u[n] = a /\ \A j \in DOMAIN s \ {n} : u[j] = s[j]
  BY Succession
<1>2. OneLive(s) /\ n = Len(s) /\ ~a.visibilityExpired
  BY ChainBefore
<1>3. \A j \in DOMAIN s : ~u[j].visibilityExpired /\ ~IsLive(u[j])
  BY <1>1, <1>2 DEF OneLive, IsLive
<1>4. PICK l \in Nat, k \in Nat :
        /\ l = Len(s) /\ k = Len(u) /\ DOMAIN s = 1 .. l /\ DOMAIN u = 1 .. k
        /\ \/ Len(next) # 1 /\ k = l
           \/ Len(next) = 1 /\ k = l + 1 /\ u[k] = next[1]
  BY Succession
<1>5. CASE Len(next) # 1
  <2>1. Len(u) = n /\ DOMAIN u = DOMAIN s
    BY <1>2, <1>4, <1>5
  <2>2. AtLimit(a)
    BY <1>2, <1>5
  <2> QED BY <1>1, <1>3, <2>1, <2>2 DEF OneLive, GivenUp
<1>6. CASE Len(next) = 1
  <2>1. IsLive(next[1]) /\ ~next[1].visibilityExpired
    BY <1>2, <1>6
  <2>2. u[k] = next[1] /\ \A j \in DOMAIN u : j \in DOMAIN s \/ j = k
    BY <1>4, <1>6
  <2>3. OneLive(u)
    BY <1>3, <1>4, <2>1, <2>2 DEF OneLive
  <2>4. u[k].state # "failed"
    BY <2>1, <2>2 DEF IsLive
  <2> QED BY <1>4, <2>3, <2>4 DEF GivenUp
<1> QED BY <1>5, <1>6

-----------------------------------------------------------------------------
(* The state *)

LEMMA IdParts ==
  ASSUME NEW id \in Ids
  PROVE  /\ id[1] \in Messages /\ id[2] \in DOMAIN attempts[id[1]]
         /\ At(id) = attempts[id[1]][id[2]]
BY DEF Ids, At

\* It is enough to look at the message a step is about.
LEMMA OneMessage ==
  ASSUME DInv, NEW m \in Messages, NEW u \in Seq(SoundAttempt), Chain(u), Numbered(u),
         attempts' = [attempts EXCEPT ![m] = u]
  PROVE  DInv'
<1>1. attempts' \in [Messages -> Seq(SoundAttempt)]
  BY DEF DInv
<1>2. \A o \in Messages : Chain(attempts'[o]) /\ Numbered(attempts'[o])
  BY DEF DInv
<1> QED BY <1>1, <1>2 DEF DInv, Chain, Numbered, Unexpired, OneLive, GivenUp, AtLimit, IsLive

\* A step that changes one attempt and forks none.
LEMMA QuietStep ==
  ASSUME DInv, NEW id \in Ids, NEW a \in SoundAttempt, Live(id), a.state # "failed",
         a.queue = At(id).queue, a.retryCount = At(id).retryCount,
         a.visibilityExpired = At(id).visibilityExpired, a.expiries = At(id).expiries,
         Become(id, a)
  PROVE  DInv'
<1>1. PICK m \in Messages : m = id[1]
  BY IdParts
<1>2. PICK n \in DOMAIN attempts[m] : n = id[2] /\ At(id) = attempts[m][n]
  BY <1>1, IdParts
<1>3. PICK s \in Seq(SoundAttempt) :
        /\ s = attempts[m] /\ Chain(s) /\ Numbered(s) /\ n \in DOMAIN s
        /\ s[n] = At(id) /\ s[n] \in SoundAttempt
  BY <1>2 DEF DInv
<1>4. PICK u : u = [s EXCEPT ![n] = a]
  OBVIOUS
<1>5. attempts' = [attempts EXCEPT ![m] = u]
  BY <1>1, <1>2, <1>3, <1>4 DEF Become
<1>6. PICK next \in Seq(SoundAttempt) : next = <<>> /\ Len(next) \in {0, 1} /\ Len(next) # 1
  <2>1. <<>> \in Seq(SoundAttempt) /\ Len(<<>>) \in {0, 1} /\ Len(<<>>) # 1
    OBVIOUS
  <2> QED BY <2>1, Zenon
<1>7. u = [s EXCEPT ![n] = a] \o next
  <2>1. u \in Seq(SoundAttempt)
    BY <1>3, <1>4
  <2> QED BY <1>4, <1>6, <2>1, ConcatEmptySeq
<1>8. s[n].expiries \in Nat
  BY <1>3 DEF SoundAttempt, AttemptType
<1>9. Successor(s, n, a, next, u)
  BY <1>3, <1>7, <1>8 DEF Successor
<1>10. IsLive(s[n])
  BY <1>3 DEF Live, IsLive
<1>11. Chain(u)
  BY <1>3, <1>6, <1>9, <1>10, ChainQuiet
<1>12. Numbered(u)
  BY <1>3, <1>6, <1>9, NumberedStep
<1>13. u \in Seq(SoundAttempt)
  BY <1>3, <1>6, <1>9, Succession
<1> QED BY <1>5, <1>11, <1>12, <1>13, OneMessage

\* A step that ends an attempt, or marks it expired, and forks what follows.
LEMMA ForkingStep ==
  ASSUME DInv, NEW id \in Ids, NEW a \in AttemptType, NEW byExpiry \in BOOLEAN,
         Live(id), a.queue = At(id).queue, a.retryCount = At(id).retryCount,
         a.followUps = At(id).followUps, BecomeAndFollowUp(id, a, byExpiry),
         IF byExpiry
           THEN a.visibilityExpired /\ a.expiries = At(id).expiries + 1
           ELSE /\ a.visibilityExpired = At(id).visibilityExpired
                /\ a.expiries = At(id).expiries /\ a.state = "failed"
  PROVE  DInv'
<1>1. PICK m \in Messages : m = id[1]
  BY IdParts
<1>2. PICK n \in DOMAIN attempts[m] : n = id[2] /\ At(id) = attempts[m][n]
  BY <1>1, IdParts
<1>3. PICK s \in Seq(SoundAttempt) :
        /\ s = attempts[m] /\ Chain(s) /\ Numbered(s) /\ n \in DOMAIN s
        /\ s[n] = At(id) /\ s[n] \in SoundAttempt
  BY <1>2 DEF DInv
<1>4. IsLive(s[n])
  BY <1>3 DEF Live, IsLive
<1>5. PICK next : next = FollowUps(a, byExpiry)
  OBVIOUS
<1>6. /\ next \in Seq(SoundAttempt) /\ Len(next) \in {0, 1}
      /\ Len(next) # 1 => (a.visibilityExpired /\ ~byExpiry) \/ AtLimit(a)
      /\ Len(next) = 1 =>
           /\ ~(a.visibilityExpired /\ ~byExpiry)
           /\ IsLive(next[1]) /\ next[1].visibilityExpired = a.visibilityExpired
           /\ \/ next[1].retryCount < Delivery[next[1].queue].maxReceive
              \/ next[1].queue # a.queue /\ next[1].retryCount = a.retryCount
  BY <1>5, FollowUpsType
<1>7. PICK f \in {0, 1} : f = Len(next)
  BY <1>6
<1>8. PICK done : done = [a EXCEPT !.followUps = @ + f]
  OBVIOUS
<1>9. PICK u : u = [s EXCEPT ![n] = done] \o next
  OBVIOUS
<1>10. attempts' = [attempts EXCEPT ![m] = u]
  BY <1>1, <1>2, <1>3, <1>5, <1>7, <1>8, <1>9 DEF BecomeAndFollowUp
<1>11. /\ done \in AttemptType /\ done.queue = a.queue /\ done.retryCount = a.retryCount
       /\ done.visibilityExpired = a.visibilityExpired /\ done.expiries = a.expiries
       /\ done.state = a.state /\ done.followUps = a.followUps + f
  BY <1>7, <1>8 DEF AttemptType
<1>12. /\ s[n].followUps \in Nat /\ s[n].expiries \in Nat
       /\ s[n].followUps <= s[n].expiries
       /\ s[n].expiries > 0 => s[n].visibilityExpired
  BY <1>3, <1>4 DEF SoundAttempt, Sound, AttemptType
<1>13. CASE byExpiry
  <2> DEFINE p == s[n].followUps  q == s[n].expiries
  <2>0. /\ done.followUps = p + f /\ done.expiries = q + 1 /\ done.visibilityExpired
        /\ p \in Nat /\ q \in Nat /\ p <= q /\ f \in {0, 1}
    BY <1>3, <1>11, <1>12, <1>13
  <2> HIDE DEF p, q
  <2>a. done.expiries > 0 /\ done.followUps <= done.expiries
    BY <2>0
  <2>1. done \in SoundAttempt /\ done.expiries > 0
    BY <1>11, <2>0, <2>a DEF SoundAttempt, Sound
  <2>2. Successor(s, n, done, next, u)
    BY <1>3, <1>9, <1>11, <1>12, <1>13, <2>1 DEF Successor
  <2>3. Chain(u) /\ u \in Seq(SoundAttempt)
    BY <1>3, <1>6, <2>1, <2>2, ChainExpired, Succession
  <2>4. Numbered(u)
    BY <1>3, <1>6, <1>11, <2>1, <2>2, NumberedStep
  <2> QED BY <1>10, <2>3, <2>4, OneMessage
<1>14. CASE ~byExpiry
  <2>1. f = 1 => ~a.visibilityExpired
    BY <1>6, <1>7, <1>14
  <2>2. f = 1 => a.expiries = 0
    BY <1>3, <1>12, <1>14, <2>1
  <2>3. done \in SoundAttempt
    <3>1. ~IsLive(done)
      BY <1>11, <1>14 DEF IsLive
    <3>2. done.followUps <= 1 \/ done.followUps <= done.expiries
      BY <1>3, <1>7, <1>11, <1>12, <1>14, <2>2
    <3> QED BY <1>11, <3>1, <3>2 DEF SoundAttempt, Sound
  <2>4. Successor(s, n, done, next, u)
    BY <1>3, <1>9, <1>11, <1>12, <1>14 DEF Successor
  <2>5. Len(next) # 1 => done.visibilityExpired \/ AtLimit(done)
    BY <1>6, <1>11 DEF AtLimit
  <2>6. Chain(u)
    BY <1>3, <1>4, <1>6, <1>11, <1>14, <2>3, <2>4, <2>5, ChainFails
  <2>7. Numbered(u) /\ u \in Seq(SoundAttempt)
    BY <1>3, <1>6, <1>11, <2>3, <2>4, NumberedStep, Succession
  <2> QED BY <1>10, <2>6, <2>7, OneMessage
<1> QED BY <1>13, <1>14

-----------------------------------------------------------------------------
(* The actions *)

LEMMA ProduceStep ==
  ASSUME DInv, NEW m \in Messages, Produce(m)
  PROVE  DInv'
<1>1. PICK q \in Sources[m], spent \in ProducerRetries :
        attempts' = [attempts EXCEPT ![m] = <<Attempt(q, spent, FALSE)>>]
  BY DEF Produce
<1>2. q \in Queues /\ spent \in Nat
  BY DeliveryAssumption
<1>3. PICK a : a = Attempt(q, spent, FALSE)
  OBVIOUS
<1>4. a \in SoundAttempt /\ a.state = "queued" /\ ~a.visibilityExpired
  BY <1>2, <1>3 DEF Attempt, SoundAttempt, Sound, AttemptType, IsLive
<1>5. PICK u \in Seq(SoundAttempt) :
        u = <<a>> /\ DOMAIN u = {1} /\ Len(u) = 1 /\ u[1] = a
  <2>1. /\ <<a>> \in Seq(SoundAttempt) /\ DOMAIN <<a>> = {1}
        /\ Len(<<a>>) = 1 /\ <<a>>[1] = a
    BY <1>4
  <2> QED BY <2>1, Zenon
<1>6. Chain(u)
  BY <1>4, <1>5 DEF Chain, OneLive, GivenUp
<1>7. Numbered(u)
  BY <1>5 DEF Numbered
<1> QED BY <1>1, <1>3, <1>5, <1>6, <1>7, OneMessage

LEMMA SoundAt ==
  ASSUME DInv, NEW id \in Ids
  PROVE  At(id) \in SoundAttempt
BY IdParts DEF DInv

LEMMA AttemptStepKeeps ==
  ASSUME DInv, NEW id \in Ids, AttemptStep(id)
  PROVE  DInv'
<1> DEFINE x == At(id)
<1>1. x \in AttemptType /\ Sound(x)
  BY SoundAt DEF SoundAttempt
<1> HIDE DEF x
<1>0. x.expiries + 1 \in Nat /\ x.staleTimers + 1 \in Nat
  BY <1>1 DEF AttemptType
<1>2. CASE BeginProcessing(id)
  <2>1. PICK armed \in BOOLEAN : Become(id, [x EXCEPT !.state = "processing", !.timer = armed])
    BY <1>2 DEF BeginProcessing, ArmsTimer, x
  <2>2. Live(id) /\ IsLive(x)
    BY <1>2 DEF BeginProcessing, Live, IsLive, x
  <2>3. PICK a : a = [x EXCEPT !.state = "processing", !.timer = armed]
    OBVIOUS
  <2>4. /\ a \in SoundAttempt /\ a.state = "processing" /\ a.queue = x.queue
        /\ a.retryCount = x.retryCount /\ a.visibilityExpired = x.visibilityExpired
        /\ a.expiries = x.expiries
    BY <1>1, <2>2, <2>3 DEF SoundAttempt, Sound, AttemptType, IsLive
  <2> QED BY <2>1, <2>2, <2>3, <2>4, QuietStep DEF x
<1>3. CASE ResumeProcessing(id)
  <2>1. PICK armed \in BOOLEAN :
          Become(id, [x EXCEPT !.timer = armed,
                               !.staleTimers = IF x.timer THEN @ + 1 ELSE @])
    BY <1>3 DEF ResumeProcessing, ArmsTimer, x
  <2>2. Live(id) /\ IsLive(x) /\ x.state = "processing"
    BY <1>3 DEF ResumeProcessing, Live, IsLive, x
  <2>3. PICK k \in Nat : k = IF x.timer THEN x.staleTimers + 1 ELSE x.staleTimers
    BY <1>0, <1>1 DEF AttemptType
  <2>4. PICK a : a = [x EXCEPT !.timer = armed, !.staleTimers = k]
    OBVIOUS
  <2>5. /\ a \in SoundAttempt /\ a.state = "processing" /\ a.queue = x.queue
        /\ a.retryCount = x.retryCount /\ a.visibilityExpired = x.visibilityExpired
        /\ a.expiries = x.expiries
    BY <1>1, <2>2, <2>4 DEF SoundAttempt, Sound, AttemptType, IsLive
  <2>6. Become(id, a)
    BY <2>1, <2>3, <2>4
  <2> QED BY <2>2, <2>5, <2>6, QuietStep DEF x
<1>4. CASE HandleVisibilityExpire(id)
  <2>1. Live(id)
    BY <1>4 DEF HandleVisibilityExpire
  <2>2. PICK e : e = [x EXCEPT !.visibilityExpired = TRUE, !.expiries = @ + 1]
    OBVIOUS
  <2>3. /\ e \in AttemptType /\ e.queue = x.queue /\ e.retryCount = x.retryCount
        /\ e.followUps = x.followUps /\ e.visibilityExpired = TRUE
        /\ e.expiries = x.expiries + 1 /\ e.staleTimers = x.staleTimers
    <3>1. PICK k \in Nat : k = x.expiries + 1
      BY <1>0
    <3>2. e = [x EXCEPT !.visibilityExpired = TRUE, !.expiries = k]
      BY <2>2, <3>1
    <3> QED BY <1>1, <3>1, <3>2 DEF AttemptType
  <2>4. CASE BecomeAndFollowUp(id, [e EXCEPT !.timer = FALSE], TRUE)
    <3>1. PICK a : a = [e EXCEPT !.timer = FALSE]
      OBVIOUS
    <3>2. /\ a \in AttemptType /\ a.queue = x.queue /\ a.retryCount = x.retryCount
          /\ a.followUps = x.followUps /\ a.visibilityExpired = TRUE
          /\ a.expiries = x.expiries + 1
      BY <2>3, <3>1 DEF AttemptType
    <3> QED BY <2>1, <2>4, <3>1, <3>2, ForkingStep DEF x
  <2>5. CASE x.staleTimers > 0 /\ BecomeAndFollowUp(id, [e EXCEPT !.staleTimers = @ - 1], TRUE)
    <3>1. PICK a : a = [e EXCEPT !.staleTimers = @ - 1]
      OBVIOUS
    <3>2. /\ a \in AttemptType /\ a.queue = x.queue /\ a.retryCount = x.retryCount
          /\ a.followUps = x.followUps /\ a.visibilityExpired = TRUE
          /\ a.expiries = x.expiries + 1
      BY <1>1, <2>3, <2>5, <3>1 DEF AttemptType
    <3> QED BY <2>1, <2>5, <3>1, <3>2, ForkingStep DEF x
  <2> QED BY <1>4, <2>2, <2>4, <2>5 DEF HandleVisibilityExpire, x
<1>5. CASE FinishProcessing(id)
  <2>1. Become(id, [x EXCEPT !.state = "consuming"])
    BY <1>5 DEF FinishProcessing, x
  <2>2. Live(id) /\ IsLive(x)
    BY <1>5 DEF FinishProcessing, Live, IsLive, x
  <2>3. PICK a : a = [x EXCEPT !.state = "consuming"]
    OBVIOUS
  <2>4. /\ a \in SoundAttempt /\ a.state = "consuming" /\ a.queue = x.queue
        /\ a.retryCount = x.retryCount /\ a.visibilityExpired = x.visibilityExpired
        /\ a.expiries = x.expiries
    BY <1>1, <2>2, <2>3 DEF SoundAttempt, Sound, AttemptType, IsLive
  <2> QED BY <2>1, <2>2, <2>3, <2>4, QuietStep DEF x
<1>6. CASE Deliver(id)
  <2>1. Become(id, [x EXCEPT !.state = "delivered"])
    BY <1>6 DEF Deliver, x
  <2>2. Live(id) /\ IsLive(x)
    BY <1>6 DEF Deliver, Live, IsLive, x
  <2>3. PICK a : a = [x EXCEPT !.state = "delivered"]
    OBVIOUS
  <2>4. /\ a \in SoundAttempt /\ a.state = "delivered" /\ a.queue = x.queue
        /\ a.retryCount = x.retryCount /\ a.visibilityExpired = x.visibilityExpired
        /\ a.expiries = x.expiries
    BY <1>1, <2>2, <2>3 DEF SoundAttempt, Sound, AttemptType, IsLive
  <2> QED BY <2>1, <2>2, <2>3, <2>4, QuietStep DEF x
<1>7. CASE FailAttempt(id)
  <2>1. Live(id) /\ BecomeAndFollowUp(id, [x EXCEPT !.state = "failed"], FALSE)
    BY <1>7 DEF FailAttempt, x
  <2>2. PICK a : a = [x EXCEPT !.state = "failed"]
    OBVIOUS
  <2>3. /\ a \in AttemptType /\ a.queue = x.queue /\ a.retryCount = x.retryCount
        /\ a.followUps = x.followUps /\ a.visibilityExpired = x.visibilityExpired
        /\ a.expiries = x.expiries /\ a.state = "failed"
    BY <1>1, <2>2 DEF AttemptType
  <2> QED BY <2>1, <2>2, <2>3, ForkingStep DEF x
<1> QED BY <1>2, <1>3, <1>4, <1>5, <1>6, <1>7 DEF AttemptStep

LEMMA DeliveryStarts == DeliveryInit => DInv
<1> SUFFICES ASSUME DeliveryInit PROVE DInv
  OBVIOUS
<1>1. attempts = [m \in Messages |-> <<>>]
  BY DEF DeliveryInit
<1>2. PICK e \in Seq(SoundAttempt) : e = <<>> /\ DOMAIN e = {}
  <2>1. <<>> \in Seq(SoundAttempt) /\ DOMAIN <<>> = {}
    OBVIOUS
  <2> QED BY <2>1, Zenon
<1>3. Chain(e) /\ Numbered(e)
  BY <1>2 DEF Chain, Numbered, OneLive, GivenUp
<1> QED BY <1>1, <1>2, <1>3 DEF DInv

LEMMA DeliveryStep ==
  ASSUME DInv, [DeliveryNext]_deliveryVars
  PROVE  DInv'
<1>1. CASE DeliveryNext
  BY <1>1, ProduceStep, AttemptStepKeeps DEF DeliveryNext
<1>2. CASE UNCHANGED deliveryVars
  BY <1>2 DEF deliveryVars, DInv, Chain, Numbered, Unexpired, OneLive, GivenUp,
              AtLimit, IsLive
<1> QED BY <1>1, <1>2

LEMMA DeliveryInvariant == DeliverySpec => []DInv
BY DeliveryStarts, DeliveryStep, PTL DEF DeliverySpec

LEMMA DeliverySafe ==
  ASSUME DInv
  PROVE  RedeliveredOnce /\ ReceiveLimitHeld
<1>1. FollowedOnce
  BY SoundAt DEF FollowedOnce, SoundAttempt, Sound
<1>2. OneConsumerAtATime
  BY DEF OneConsumerAtATime, DInv, Chain, OneLive, Unexpired, Live, IsLive, At
<1>3. ReceivesBounded
  BY DEF ReceivesBounded, DInv, Numbered
<1>4. GivenUpOnlyAtLimit
  <2> SUFFICES ASSUME NEW m \in Messages, attempts[m] # <<>>,
                      \A n \in DOMAIN attempts[m] : attempts[m][n].state = "failed",
                      \A n \in DOMAIN attempts[m] : attempts[m][n].expiries = 0
               PROVE  AtLimit(attempts[m][Len(attempts[m])])
    BY DEF GivenUpOnlyAtLimit
  <2>1. PICK s \in Seq(SoundAttempt) : s = attempts[m] /\ s # <<>>
    BY DEF DInv
  <2>2. GivenUp(s)
    BY <2>1 DEF DInv, Chain, Unexpired
  <2>3. Len(s) \in DOMAIN s
    BY <2>1
  <2> QED BY <2>1, <2>2, <2>3 DEF GivenUp
<1> QED BY <1>1, <1>2, <1>3, <1>4 DEF RedeliveredOnce, ReceiveLimitHeld

\* Every attempt is followed at most once, or once for each time its own visibility
\* ran out; without that, a message is in one consumer's hands.
THEOREM RedeliveryNeverDoubles == DeliverySpec => []RedeliveredOnce
BY DeliveryInvariant, DeliverySafe, PTL

\* No attempt exceeds the receive limit of its queue, and without an expired
\* visibility none is given up before it.
THEOREM ReceiveLimitIsKept == DeliverySpec => []ReceiveLimitHeld
BY DeliveryInvariant, DeliverySafe, PTL

-----------------------------------------------------------------------------
(* One step of one attempt *)

\* What every step of an attempt comes to: it becomes a, and next is forked.
Moved(id, a, next) ==
  attempts' = [attempts EXCEPT ![id[1]] = [attempts[id[1]] EXCEPT ![id[2]] = a] \o next]

Ledger(a, id) ==
  \/ IsLive(a) /\ UNCHANGED conservation
  \/ /\ a.state = "delivered"
     /\ conservation' = [conservation EXCEPT !.delivered = @ + 1]
  \/ /\ a.state = "failed"
     /\ conservation' = [conservation EXCEPT !.lost = IF a.followUps > 0 THEN @ ELSE @ + 1]

\* The attempt forked, if any, is under way and has no follower; an attempt whose
\* visibility does not run out in this step forks one only as it fails.
Shape(id, a, next) ==
  /\ Moved(id, a, next)
  /\ a.queue = At(id).queue /\ a.expiries >= At(id).expiries
  /\ Len(next) \in {0, 1}
  /\ Len(next) = 1 => IsLive(next[1]) /\ next[1].followUps = 0
  /\ a.followUps = At(id).followUps + Len(next)
  /\ a.expiries = At(id).expiries /\ Len(next) = 1 => a.state = "failed"
  /\ Ledger(a, id)

LEMMA QuietShape ==
  ASSUME DInv, NEW id \in Ids, NEW a \in AttemptType, Become(id, a),
         a.queue = At(id).queue, a.expiries = At(id).expiries,
         a.followUps = At(id).followUps, Ledger(a, id)
  PROVE  \E next \in Seq(SoundAttempt) : Shape(id, a, next)
<1>1. PICK s \in Seq(SoundAttempt) : s = attempts[id[1]] /\ id[2] \in DOMAIN s
  BY IdParts DEF DInv
<1>2. PICK next \in Seq(SoundAttempt) : next = <<>> /\ Len(next) = 0
  <2>1. <<>> \in Seq(SoundAttempt) /\ Len(<<>>) = 0
    OBVIOUS
  <2> QED BY <2>1, Zenon
<1>3. PICK u : u = [s EXCEPT ![id[2]] = a]
  OBVIOUS
<1>4. u \in Seq(AttemptType)
  BY <1>1, <1>3 DEF SoundAttempt
<1>5. u \o next = u
  BY <1>2, <1>4, ConcatEmptySeq
<1>6. attempts' = [attempts EXCEPT ![id[1]] = u \o next]
  BY <1>1, <1>3, <1>5 DEF Become
<1>7. At(id).expiries \in Nat /\ At(id).followUps \in Nat
  BY SoundAt DEF SoundAttempt, AttemptType
<1>8. Moved(id, a, next)
  BY <1>1, <1>3, <1>6 DEF Moved
<1>9. /\ Len(next) # 1 /\ Len(next) \in {0, 1}
      /\ a.followUps = At(id).followUps + Len(next) /\ a.expiries >= At(id).expiries
  BY <1>2, <1>7
<1> QED BY <1>8, <1>9 DEF Shape

LEMMA ForkingShape ==
  ASSUME DInv, NEW id \in Ids, NEW x \in AttemptType, NEW byExpiry \in BOOLEAN,
         BecomeAndFollowUp(id, x, byExpiry),
         x.queue = At(id).queue, x.followUps = At(id).followUps,
         IF byExpiry
           THEN x.expiries = At(id).expiries + 1 /\ IsLive(x) /\ UNCHANGED conservation
           ELSE x.expiries = At(id).expiries /\ x.state = "failed" /\ CountFailure(id)
  PROVE  \E a \in AttemptType, next \in Seq(SoundAttempt) : Shape(id, a, next)
<1>1. PICK s \in Seq(SoundAttempt) : s = attempts[id[1]] /\ id[2] \in DOMAIN s
  BY IdParts DEF DInv
<1>2. PICK next : next = FollowUps(x, byExpiry)
  OBVIOUS
<1>3. /\ next \in Seq(SoundAttempt) /\ Len(next) \in {0, 1}
      /\ Len(next) = 1 => IsLive(next[1]) /\ next[1].followUps = 0
  BY <1>2, FollowUpsType
<1>4. PICK f \in {0, 1} : f = Len(next)
  BY <1>3
<1>5. PICK a : a = [x EXCEPT !.followUps = @ + f]
  OBVIOUS
<1>6. /\ a \in AttemptType /\ a.queue = x.queue /\ a.expiries = x.expiries
      /\ a.state = x.state /\ a.followUps = x.followUps + f
  BY <1>4, <1>5 DEF AttemptType
<1>7. Moved(id, a, next)
  BY <1>2, <1>4, <1>5 DEF BecomeAndFollowUp, Moved
<1>8. At(id).expiries \in Nat /\ At(id).followUps \in Nat
  BY SoundAt DEF SoundAttempt, AttemptType
<1>9. Ledger(a, id)
  <2>1. CASE byExpiry
    BY <1>6, <2>1 DEF Ledger, IsLive
  <2>2. CASE ~byExpiry
    <3>1. attempts'[id[1]][id[2]] = a
      <4>1. PICK u : u = [s EXCEPT ![id[2]] = a] \o next
        OBVIOUS
      <4>2. s \in Seq(AttemptType) /\ next \in Seq(AttemptType)
        BY <1>3 DEF SoundAttempt
      <4>3. u[id[2]] = a
        BY <1>1, <1>6, <4>1, <4>2, Regrown
      <4>4. attempts'[id[1]] = u
        BY <1>1, <1>7, <4>1, IdParts DEF Moved, DInv
      <4> QED BY <4>3, <4>4
    <3> QED BY <1>6, <2>2, <3>1 DEF Ledger, CountFailure
  <2> QED BY <2>1, <2>2
<1>10. a.expiries = At(id).expiries /\ Len(next) = 1 => a.state = "failed"
  BY <1>6, <1>8
<1>11. a.expiries >= At(id).expiries
  BY <1>6, <1>8
<1>12. a.followUps = At(id).followUps + Len(next)
  BY <1>4, <1>6
<1> QED BY <1>3, <1>6, <1>7, <1>9, <1>10, <1>11, <1>12 DEF Shape

LEMMA StepShape ==
  ASSUME DInv, NEW id \in Ids, AttemptStep(id)
  PROVE  /\ Live(id)
         /\ \E a \in AttemptType, next \in Seq(SoundAttempt) : Shape(id, a, next)
<1> DEFINE x == At(id)
<1>1. x \in AttemptType
  BY SoundAt DEF SoundAttempt
<1> HIDE DEF x
<1>0. x.expiries + 1 \in Nat /\ x.staleTimers + 1 \in Nat
  BY <1>1 DEF AttemptType
<1>2. CASE BeginProcessing(id)
  <2>1. PICK armed \in BOOLEAN : Become(id, [x EXCEPT !.state = "processing", !.timer = armed])
    BY <1>2 DEF BeginProcessing, ArmsTimer, x
  <2>2. PICK a : a = [x EXCEPT !.state = "processing", !.timer = armed]
    OBVIOUS
  <2>3. /\ a \in AttemptType /\ a.state = "processing" /\ a.queue = x.queue
        /\ a.followUps = x.followUps /\ a.expiries = x.expiries
    BY <1>1, <2>2 DEF AttemptType
  <2>4. Ledger(a, id) /\ Live(id)
    BY <1>2, <2>3 DEF BeginProcessing, Ledger, IsLive, Live
  <2> QED BY <2>1, <2>2, <2>3, <2>4, QuietShape DEF x
<1>3. CASE ResumeProcessing(id)
  <2>1. PICK armed \in BOOLEAN :
          Become(id, [x EXCEPT !.timer = armed,
                               !.staleTimers = IF x.timer THEN @ + 1 ELSE @])
    BY <1>3 DEF ResumeProcessing, ArmsTimer, x
  <2>2. PICK k \in Nat : k = IF x.timer THEN x.staleTimers + 1 ELSE x.staleTimers
    BY <1>0, <1>1 DEF AttemptType
  <2>3. PICK a : a = [x EXCEPT !.timer = armed, !.staleTimers = k]
    OBVIOUS
  <2>4. /\ a \in AttemptType /\ a.state = "processing" /\ a.queue = x.queue
        /\ a.followUps = x.followUps /\ a.expiries = x.expiries
    BY <1>1, <1>3, <2>3 DEF AttemptType, ResumeProcessing, x
  <2>5. Ledger(a, id) /\ Live(id)
    BY <1>3, <2>4 DEF ResumeProcessing, Ledger, IsLive, Live
  <2>6. Become(id, a)
    BY <2>1, <2>2, <2>3
  <2> QED BY <2>4, <2>5, <2>6, QuietShape DEF x
<1>4. CASE HandleVisibilityExpire(id)
  <2>1. Live(id) /\ UNCHANGED conservation
    BY <1>4 DEF HandleVisibilityExpire
  <2>2. PICK e : e = [x EXCEPT !.visibilityExpired = TRUE, !.expiries = @ + 1]
    OBVIOUS
  <2>3. /\ e \in AttemptType /\ e.queue = x.queue /\ e.followUps = x.followUps
        /\ e.state = x.state /\ e.expiries = x.expiries + 1
        /\ e.staleTimers = x.staleTimers
    <3>1. PICK k \in Nat : k = x.expiries + 1
      BY <1>0
    <3>2. e = [x EXCEPT !.visibilityExpired = TRUE, !.expiries = k]
      BY <2>2, <3>1
    <3> QED BY <1>1, <3>1, <3>2 DEF AttemptType
  <2>4. IsLive(e)
    BY <2>1, <2>3 DEF Live, IsLive, x
  <2>5. CASE BecomeAndFollowUp(id, [e EXCEPT !.timer = FALSE], TRUE)
    <3>1. PICK a : a = [e EXCEPT !.timer = FALSE]
      OBVIOUS
    <3>2. /\ a \in AttemptType /\ a.queue = x.queue /\ a.followUps = x.followUps
          /\ a.expiries = x.expiries + 1 /\ IsLive(a)
      BY <2>3, <2>4, <3>1 DEF AttemptType, IsLive
    <3> QED BY <2>1, <2>5, <3>1, <3>2, ForkingShape DEF x
  <2>6. CASE x.staleTimers > 0 /\ BecomeAndFollowUp(id, [e EXCEPT !.staleTimers = @ - 1], TRUE)
    <3>1. PICK d \in Nat : d = e.staleTimers - 1
      BY <1>1, <2>3, <2>6 DEF AttemptType
    <3>2. PICK a : a = [e EXCEPT !.staleTimers = d]
      OBVIOUS
    <3>3. /\ a \in AttemptType /\ a.queue = x.queue /\ a.followUps = x.followUps
          /\ a.expiries = x.expiries + 1 /\ IsLive(a)
      BY <2>3, <2>4, <3>2 DEF AttemptType, IsLive
    <3>4. BecomeAndFollowUp(id, a, TRUE)
      BY <2>6, <3>1, <3>2
    <3> QED BY <2>1, <3>3, <3>4, ForkingShape DEF x
  <2> QED BY <1>4, <2>1, <2>2, <2>5, <2>6 DEF HandleVisibilityExpire, x
<1>5. CASE FinishProcessing(id)
  <2>1. Become(id, [x EXCEPT !.state = "consuming"])
    BY <1>5 DEF FinishProcessing, x
  <2>2. PICK a : a = [x EXCEPT !.state = "consuming"]
    OBVIOUS
  <2>3. /\ a \in AttemptType /\ a.state = "consuming" /\ a.queue = x.queue
        /\ a.followUps = x.followUps /\ a.expiries = x.expiries
    BY <1>1, <2>2 DEF AttemptType
  <2>4. Ledger(a, id) /\ Live(id)
    BY <1>5, <2>3 DEF FinishProcessing, Ledger, IsLive, Live
  <2> QED BY <2>1, <2>2, <2>3, <2>4, QuietShape DEF x
<1>6. CASE Deliver(id)
  <2>1. Become(id, [x EXCEPT !.state = "delivered"])
    BY <1>6 DEF Deliver, x
  <2>2. PICK a : a = [x EXCEPT !.state = "delivered"]
    OBVIOUS
  <2>3. /\ a \in AttemptType /\ a.state = "delivered" /\ a.queue = x.queue
        /\ a.followUps = x.followUps /\ a.expiries = x.expiries
    BY <1>1, <2>2 DEF AttemptType
  <2>4. Ledger(a, id) /\ Live(id)
    BY <1>6, <2>3 DEF Deliver, Ledger, Live
  <2> QED BY <2>1, <2>2, <2>3, <2>4, QuietShape DEF x
<1>7. CASE FailAttempt(id)
  <2>1. /\ Live(id) /\ BecomeAndFollowUp(id, [x EXCEPT !.state = "failed"], FALSE)
        /\ CountFailure(id)
    BY <1>7 DEF FailAttempt, x
  <2>2. PICK a : a = [x EXCEPT !.state = "failed"]
    OBVIOUS
  <2>3. /\ a \in AttemptType /\ a.queue = x.queue /\ a.followUps = x.followUps
        /\ a.expiries = x.expiries /\ a.state = "failed"
    BY <1>1, <2>2 DEF AttemptType
  <2> QED BY <2>1, <2>2, <2>3, ForkingShape DEF x
<1> QED BY <1>2, <1>3, <1>4, <1>5, <1>6, <1>7 DEF AttemptStep

-----------------------------------------------------------------------------
(* The ledger *)

\* An attempt the ledger has counted: it ended, and no other follows it.
Final(a) == a.state = "delivered" \/ (a.state = "failed" /\ a.followUps = 0)
Ended == {id \in Ids : Final(At(id))}
Sent == {m \in Messages : attempts[m] # <<>>}

\* A message's last attempt has no follower yet, and those before it are spent where
\* no visibility ran out.
LastIsFresh(s) == s # <<>> => s[Len(s)].followUps = 0
FormerAreSpent(s) ==
  Unexpired(s) =>
    \A n \in DOMAIN s : n # Len(s) => s[n].state = "failed" /\ s[n].followUps > 0

LedgerInv ==
  /\ \A m \in Messages : LastIsFresh(attempts[m]) /\ FormerAreSpent(attempts[m])
  /\ IsFiniteSet(Sent) /\ IsFiniteSet(Ended)
  /\ conservation \in [accepted : Nat, delivered : Nat, lost : Nat]
  /\ conservation.accepted = Cardinality(Sent)
  /\ conservation.delivered + conservation.lost = Cardinality(Ended)

\* What a step makes of the attempts s of its message: the i-th becomes a, and next,
\* if there is one, comes last.
Grown(s, u, i, a, next, l, k) ==
  /\ i \in 1 .. l /\ DOMAIN s = 1 .. l /\ Len(s) = l /\ DOMAIN u = 1 .. k /\ Len(u) = k
  /\ u[i] = a /\ \A j \in 1 .. l : j # i => u[j] = s[j]
  /\ \/ k = l /\ Len(next) = 0
     \/ k = l + 1 /\ Len(next) = 1 /\ u[k] = next[1]

LEMMA ShapeOfMessage ==
  ASSUME DInv, NEW id \in Ids, NEW a \in AttemptType, NEW next \in Seq(SoundAttempt),
         Shape(id, a, next)
  PROVE  \E m \in Messages, l, k \in Nat :
           /\ m = id[1] /\ Grown(attempts[m], attempts'[m], id[2], a, next, l, k)
           /\ \A p \in Messages \ {m} : attempts'[p] = attempts[p]
<1>1. PICK m \in Messages : m = id[1] /\ id[2] \in DOMAIN attempts[m]
  BY IdParts
<1>2. PICK s \in Seq(AttemptType) : s = attempts[m] /\ id[2] \in DOMAIN s
  BY <1>1 DEF DInv, SoundAttempt
<1>3. PICK u : u = [s EXCEPT ![id[2]] = a] \o next
  OBVIOUS
<1>4. next \in Seq(AttemptType)
  BY DEF SoundAttempt
<1>5. /\ u \in Seq(AttemptType) /\ Len(u) = Len(s) + Len(next) /\ u[id[2]] = a
      /\ \A j \in DOMAIN s \ {id[2]} : u[j] = s[j]
      /\ \A j \in DOMAIN u \ DOMAIN s : u[j] = next[j - Len(s)]
  BY <1>2, <1>3, <1>4, Regrown
<1>6. attempts'[m] = u /\ \A p \in Messages \ {m} : attempts'[p] = attempts[p]
  BY <1>1, <1>2, <1>3 DEF Shape, Moved, DInv
<1>7. PICK l \in Nat : l = Len(s) /\ DOMAIN s = 1 .. l
  BY <1>2
<1>8. PICK k \in Nat : k = Len(u) /\ DOMAIN u = 1 .. k
  BY <1>5
<1>9. PICK f \in {0, 1} : f = Len(next)
  BY DEF Shape
<1>10. k = l + f
  BY <1>5, <1>7, <1>8, <1>9
<1>11. f = 1 => u[k] = next[1]
  <2>1. f = 1 => k \in DOMAIN u \ DOMAIN s /\ k - l = 1
    BY <1>7, <1>8, <1>10
  <2> QED BY <1>5, <1>7, <2>1
<1>12. \/ k = l /\ Len(next) = 0
       \/ k = l + 1 /\ Len(next) = 1 /\ u[k] = next[1]
  <2>1. CASE f = 0
    BY <1>9, <1>10, <2>1
  <2>2. CASE f = 1
    BY <1>9, <1>10, <1>11, <2>2
  <2> QED BY <2>1, <2>2
<1>13. Grown(s, u, id[2], a, next, l, k)
  BY <1>2, <1>5, <1>7, <1>8, <1>12 DEF Grown
<1> QED BY <1>1, <1>2, <1>6, <1>13

\* The attempts that were there are there still; the one forked is nobody's end.
LEMMA ShapeOfIds ==
  ASSUME DInv, NEW id \in Ids, NEW a \in AttemptType, NEW next \in Seq(SoundAttempt),
         Shape(id, a, next)
  PROVE  /\ At(id)' = a
         /\ \A o \in Ids : o \in Ids' /\ (o # id => At(o)' = At(o))
         /\ \A o \in Ids' \ Ids : IsLive(At(o)')
<1>1. PICK m \in Messages, l, k \in Nat :
        /\ m = id[1] /\ Grown(attempts[m], attempts'[m], id[2], a, next, l, k)
        /\ \A p \in Messages \ {m} : attempts'[p] = attempts[p]
  BY ShapeOfMessage
<1>2. At(id)' = a
  BY <1>1 DEF At, Grown
<1>3. ASSUME NEW o \in Ids
      PROVE  o \in Ids' /\ (o # id => At(o)' = At(o))
  <2>1a. PICK p \in Messages : \E n \in DOMAIN attempts[p] : o = <<p, n>>
    BY DEF Ids
  <2>1. PICK n \in DOMAIN attempts[p] : o = <<p, n>>
    BY <2>1a
  <2>2. PICK i \in DOMAIN attempts[m] : id = <<m, i>> /\ i = id[2]
    BY <1>1 DEF Ids, Grown
  <2>3. CASE p = m
    <3>1. n \in DOMAIN attempts'[m] /\ (o # id => attempts'[m][n] = attempts[m][n])
      BY <1>1, <2>1, <2>2, <2>3 DEF Grown
    <3> QED BY <2>1, <2>3, <3>1 DEF Ids, At
  <2>4. CASE p # m
    BY <1>1, <2>1, <2>4 DEF Ids, At
  <2> QED BY <2>3, <2>4
<1>4. ASSUME NEW o \in Ids' \ Ids
      PROVE  IsLive(At(o)')
  <2>1a. PICK p \in Messages : \E n \in DOMAIN attempts'[p] : o = <<p, n>>
    BY DEF Ids
  <2>1. PICK n \in DOMAIN attempts'[p] : o = <<p, n>>
    BY <2>1a
  <2>2. n \notin DOMAIN attempts[p]
    BY <2>1 DEF Ids
  <2>3. p = m /\ n = k /\ Len(next) = 1 /\ attempts'[m][k] = next[1]
    BY <1>1, <2>1, <2>2 DEF Grown
  <2> QED BY <1>1, <2>1, <2>3 DEF Shape, At
<1> QED BY <1>2, <1>3, <1>4

LEMMA LedgerMessage ==
  ASSUME NEW s \in Seq(SoundAttempt), NEW u, NEW i, NEW a \in AttemptType,
         NEW next \in Seq(SoundAttempt), NEW l \in Nat, NEW k \in Nat,
         Grown(s, u, i, a, next, l, k), Chain(s), LastIsFresh(s), FormerAreSpent(s),
         IsLive(s[i]), a.expiries >= s[i].expiries,
         Len(next) = 1 => next[1].followUps = 0,
         a.followUps = s[i].followUps + Len(next),
         a.expiries = s[i].expiries /\ Len(next) = 1 => a.state = "failed"
  PROVE  LastIsFresh(u) /\ FormerAreSpent(u) /\ s # <<>> /\ u # <<>>
<1>1. /\ i \in 1 .. l /\ DOMAIN s = 1 .. l /\ Len(s) = l /\ DOMAIN u = 1 .. k /\ Len(u) = k
      /\ u[i] = a /\ \A j \in 1 .. l : j # i => u[j] = s[j]
      /\ \/ k = l /\ Len(next) = 0
         \/ k = l + 1 /\ Len(next) = 1 /\ u[k] = next[1]
  BY DEF Grown
<1>2. s[i] \in SoundAttempt /\ s[i].expiries \in Nat /\ s[i].followUps \in Nat
  <2>1. i \in DOMAIN s
    BY <1>1
  <2>2. s[i] \in SoundAttempt
    BY <2>1
  <2> QED BY <2>2 DEF SoundAttempt, AttemptType
<1>3. s # <<>> /\ u # <<>>
  BY <1>1
<1>4. l \in 1 .. l /\ s[l].followUps = 0
  BY <1>1, <1>3 DEF LastIsFresh
<1>5. u[k].followUps = 0
  BY <1>1, <1>2, <1>4
<1>6. ASSUME Unexpired(u), NEW n \in 1 .. k, n # k
      PROVE  u[n].state = "failed" /\ u[n].followUps > 0
  <2>1. n \in 1 .. l /\ i \in 1 .. k /\ 1 .. l \subseteq 1 .. k
    BY <1>1, <1>6
  <2>2. a.expiries = 0
    BY <1>1, <1>6, <2>1 DEF Unexpired
  <2>3. a.expiries = s[i].expiries /\ s[i].expiries = 0
    BY <1>2, <2>2
  <2>4. Unexpired(s)
    BY <1>1, <1>6, <2>1, <2>3 DEF Unexpired
  <2>5. i = l
    BY <1>1, <2>4 DEF Chain, OneLive
  <2>6. CASE n = i
    <3>1. Len(next) = 1
      BY <1>1, <1>6, <2>5, <2>6
    <3>2. a.state = "failed" /\ a.followUps = s[i].followUps + 1
      BY <2>3, <3>1
    <3> QED BY <1>1, <1>2, <2>6, <3>2
  <2>7. CASE n # i
    BY <1>1, <2>1, <2>4, <2>5, <2>7 DEF FormerAreSpent
  <2> QED BY <2>6, <2>7
<1> QED BY <1>1, <1>3, <1>5, <1>6 DEF LastIsFresh, FormerAreSpent

LEMMA LedgerMessages ==
  ASSUME DInv, LedgerInv, NEW id \in Ids, Live(id),
         NEW a \in AttemptType, NEW next \in Seq(SoundAttempt), Shape(id, a, next)
  PROVE  /\ \A m \in Messages : LastIsFresh(attempts'[m]) /\ FormerAreSpent(attempts'[m])
         /\ Sent' = Sent
<1>1. PICK m \in Messages, l, k \in Nat :
        /\ m = id[1] /\ Grown(attempts[m], attempts'[m], id[2], a, next, l, k)
        /\ \A p \in Messages \ {m} : attempts'[p] = attempts[p]
  BY ShapeOfMessage
<1>2. PICK s \in Seq(SoundAttempt) : s = attempts[m] /\ s[id[2]] = At(id)
  BY <1>1, IdParts DEF DInv
<1>3. Chain(s) /\ LastIsFresh(s) /\ FormerAreSpent(s) /\ IsLive(s[id[2]])
  BY <1>2 DEF DInv, LedgerInv, Live, IsLive
<1>4. /\ LastIsFresh(attempts'[m]) /\ FormerAreSpent(attempts'[m])
      /\ s # <<>> /\ attempts'[m] # <<>>
  <2>1. PICK i, u : i = id[2] /\ u = attempts'[m]
    OBVIOUS
  <2>2. /\ a.expiries >= s[i].expiries
        /\ Len(next) = 1 => next[1].followUps = 0
        /\ a.followUps = s[i].followUps + Len(next)
        /\ a.expiries = s[i].expiries /\ Len(next) = 1 => a.state = "failed"
    BY <1>2, <2>1 DEF Shape
  <2>3. Grown(s, u, i, a, next, l, k) /\ IsLive(s[i])
    BY <1>1, <1>2, <1>3, <2>1
  <2>4. LastIsFresh(u) /\ FormerAreSpent(u) /\ s # <<>> /\ u # <<>>
    BY <1>3, <2>2, <2>3, LedgerMessage
  <2> QED BY <2>1, <2>4
<1>5. Sent' = Sent
  BY <1>1, <1>2, <1>4 DEF Sent
<1> QED BY <1>1, <1>4, <1>5 DEF LedgerInv

\* Nobody's queue ever changes, and an attempt that ended stays as it is.
LEMMA Kept ==
  ASSUME DInv, [DeliveryNext]_deliveryVars, NEW o \in Ids
  PROVE  /\ o \in Ids' /\ At(o)'.queue = At(o).queue
         /\ ~Live(o) => At(o)' = At(o)
<1>1. ASSUME NEW id \in Ids, AttemptStep(id)
      PROVE  /\ o \in Ids' /\ At(o)'.queue = At(o).queue
             /\ ~Live(o) => At(o)' = At(o)
  <2>1. PICK a \in AttemptType, next \in Seq(SoundAttempt) : Shape(id, a, next)
    BY <1>1, StepShape
  <2>2. Live(id) /\ At(id)' = a /\ a.queue = At(id).queue
    BY <1>1, <2>1, StepShape, ShapeOfIds DEF Shape
  <2>3. o \in Ids' /\ (o # id => At(o)' = At(o))
    BY <2>1, ShapeOfIds
  <2> QED BY <2>2, <2>3
<1>2. ASSUME NEW m \in Messages, Produce(m)
      PROVE  o \in Ids' /\ At(o)' = At(o)
  <2>1. PICK p \in Messages : \E n \in DOMAIN attempts[p] : o = <<p, n>>
    BY DEF Ids
  <2>2. PICK n \in DOMAIN attempts[p] : o = <<p, n>>
    BY <2>1
  <2>3. attempts[m] = <<>> /\ \A q \in Messages \ {m} : attempts'[q] = attempts[q]
    BY <1>2 DEF Produce, DInv
  <2>4. p # m /\ attempts'[p] = attempts[p]
    BY <2>2, <2>3
  <2> QED BY <2>2, <2>4 DEF Ids, At
<1>3. CASE UNCHANGED deliveryVars
  BY <1>3 DEF deliveryVars, Ids, At
<1> QED BY <1>1, <1>2, <1>3 DEF DeliveryNext

LEMMA LedgerAttempt ==
  ASSUME DInv, LedgerInv, NEW id \in Ids, AttemptStep(id)
  PROVE  LedgerInv'
<1>1. PICK a \in AttemptType, next \in Seq(SoundAttempt) : Shape(id, a, next)
  BY StepShape
<1>2. /\ Live(id) /\ At(id)' = a
      /\ \A o \in Ids : o \in Ids' /\ (o # id => At(o)' = At(o))
      /\ \A o \in Ids' \ Ids : IsLive(At(o)')
  BY <1>1, StepShape, ShapeOfIds
<1>3. /\ \A m \in Messages : LastIsFresh(attempts'[m]) /\ FormerAreSpent(attempts'[m])
      /\ Sent' = Sent
  BY <1>1, <1>2, LedgerMessages
<1>4. id \notin Ended /\ Ended' = IF Final(a) THEN Ended \cup {id} ELSE Ended
  <2>1. \A o \in Ids' \ Ids : ~Final(At(o)')
    BY <1>2 DEF Final, IsLive
  <2>2. id \notin Ended
    BY <1>2 DEF Ended, Final, Live
  <2>3. Ended' = {o \in Ids' : Final(At(o)')}
    BY DEF Ended, Final
  <2> QED BY <1>2, <2>1, <2>2, <2>3 DEF Ended
<1>5. /\ IsFiniteSet(Ended') /\ Cardinality(Ended) \in Nat
      /\ Cardinality(Ended') = IF Final(a) THEN Cardinality(Ended) + 1 ELSE Cardinality(Ended)
  BY <1>4, FS_AddElement, FS_CardinalityType DEF LedgerInv
<1>6. a.followUps \in Nat
  BY DEF AttemptType
<1>7. /\ conservation' \in [accepted : Nat, delivered : Nat, lost : Nat]
      /\ conservation'.accepted = conservation.accepted
      /\ conservation'.delivered + conservation'.lost =
           IF Final(a) THEN conservation.delivered + conservation.lost + 1
           ELSE conservation.delivered + conservation.lost
  <2>1. conservation \in [accepted : Nat, delivered : Nat, lost : Nat]
    BY DEF LedgerInv
  <2>2. Ledger(a, id)
    BY <1>1 DEF Shape
  <2>3. CASE IsLive(a) /\ UNCHANGED conservation
    BY <2>1, <2>3 DEF IsLive, Final
  <2>4. CASE /\ a.state = "delivered"
             /\ conservation' = [conservation EXCEPT !.delivered = @ + 1]
    BY <2>1, <2>4 DEF Final
  <2>5. CASE /\ a.state = "failed"
             /\ conservation' = [conservation EXCEPT !.lost = IF a.followUps > 0 THEN @ ELSE @ + 1]
    BY <1>6, <2>1, <2>5 DEF Final
  <2> QED BY <2>2, <2>3, <2>4, <2>5 DEF Ledger
<1>8. IsFiniteSet(Sent')
  BY <1>3 DEF LedgerInv
<1> QED BY <1>3, <1>5, <1>7, <1>8 DEF LedgerInv

LEMMA LedgerProduce ==
  ASSUME DInv, LedgerInv, NEW m \in Messages, Produce(m)
  PROVE  LedgerInv'
<1>1. PICK q \in Sources[m], spent \in ProducerRetries :
        attempts' = [attempts EXCEPT ![m] = <<Attempt(q, spent, FALSE)>>]
  BY DEF Produce
<1>2. PICK a : a = Attempt(q, spent, FALSE)
  OBVIOUS
<1>3. a.state = "queued" /\ a.followUps = 0
  BY <1>2 DEF Attempt
<1>4. PICK u : u = <<a>> /\ DOMAIN u = {1} /\ Len(u) = 1 /\ u[1] = a /\ u # <<>>
  <2>1. /\ DOMAIN <<a>> = {1} /\ Len(<<a>>) = 1 /\ <<a>>[1] = a /\ <<a>> # <<>>
    OBVIOUS
  <2> QED BY <2>1, Zenon
<1>5. attempts[m] = <<>> /\ attempts'[m] = u
      /\ \A p \in Messages \ {m} : attempts'[p] = attempts[p]
  BY <1>1, <1>2, <1>4 DEF Produce, DInv
<1>6. \A p \in Messages : LastIsFresh(attempts'[p]) /\ FormerAreSpent(attempts'[p])
  BY <1>3, <1>4, <1>5 DEF LedgerInv, LastIsFresh, FormerAreSpent
<1>7. m \notin Sent /\ Sent' = Sent \cup {m}
  BY <1>4, <1>5 DEF Sent
<1>8. IsFiniteSet(Sent') /\ Cardinality(Sent') = Cardinality(Sent) + 1
  BY <1>7, FS_AddElement DEF LedgerInv
<1>9. Ended' = Ended
  <2>1. ASSUME NEW o \in Ended PROVE o \in Ended'
    <3>1a. PICK p \in Messages : \E n \in DOMAIN attempts[p] : o = <<p, n>>
      BY DEF Ids, Ended
    <3>1. PICK n \in DOMAIN attempts[p] : o = <<p, n>>
      BY <3>1a
    <3>2. p # m
      BY <1>5, <3>1
    <3> QED BY <1>5, <3>1, <3>2 DEF Ended, Ids, At, Final
  <2>2. ASSUME NEW o \in Ended' PROVE o \in Ended
    <3>1a. PICK p \in Messages : \E n \in DOMAIN attempts'[p] : o = <<p, n>>
      BY DEF Ids, Ended
    <3>1. PICK n \in DOMAIN attempts'[p] : o = <<p, n>>
      BY <3>1a
    <3>2. p # m
      <4>1. Final(attempts'[p][n])
        BY <3>1 DEF Ended, At, Final
      <4> QED BY <1>3, <1>4, <1>5, <3>1, <4>1 DEF Final
    <3> QED BY <1>5, <3>1, <3>2 DEF Ended, Ids, At, Final
  <2> QED BY <2>1, <2>2
<1>10. /\ conservation' \in [accepted : Nat, delivered : Nat, lost : Nat]
       /\ conservation'.accepted = conservation.accepted + 1
       /\ conservation'.delivered = conservation.delivered
       /\ conservation'.lost = conservation.lost
  BY DEF Produce, LedgerInv
<1> QED BY <1>6, <1>8, <1>9, <1>10 DEF LedgerInv

LEMMA LedgerStep ==
  ASSUME DInv, LedgerInv, [DeliveryNext]_deliveryVars
  PROVE  LedgerInv'
<1>1. CASE DeliveryNext
  BY <1>1, LedgerAttempt, LedgerProduce DEF DeliveryNext
<1>2. CASE UNCHANGED deliveryVars
  <2>1. UNCHANGED <<attempts, conservation>>
    BY <1>2 DEF deliveryVars
  <2>2. Sent' = Sent /\ Ended' = Ended
    BY <2>1 DEF Sent, Ended, Ids, At, Final
  <2>3. \A m \in Messages : LastIsFresh(attempts'[m]) /\ FormerAreSpent(attempts'[m])
    BY <2>1 DEF LedgerInv
  <2> QED BY <2>1, <2>2, <2>3 DEF LedgerInv
<1> QED BY <1>1, <1>2

LEMMA LedgerStarts == DeliveryInit => LedgerInv
<1> SUFFICES ASSUME DeliveryInit PROVE LedgerInv
  OBVIOUS
<1>1. attempts = [m \in Messages |-> <<>>]
  BY DEF DeliveryInit
<1>2. \A m \in Messages : LastIsFresh(attempts[m]) /\ FormerAreSpent(attempts[m])
  BY <1>1 DEF LastIsFresh, FormerAreSpent
<1>3. Sent = {} /\ Ended = {}
  BY <1>1 DEF Sent, Ended, Ids
<1> QED BY <1>2, <1>3, FS_EmptySet DEF DeliveryInit, LedgerInv

\* The messages that came to rest have an attempt each that was counted, and where no
\* visibility ran out they are all that was counted.
LEMMA LedgerSafe ==
  ASSUME DInv, LedgerInv
  PROVE  AcceptedWorkConserved
<1> DEFINE AtRest == Sent \ OnItsWay
           f == [m \in AtRest |-> <<m, Len(attempts[m])>>]
<1>1. OnItsWay \subseteq Sent
  <2>1. \A m \in OnItsWay : DOMAIN attempts[m] # {}
    BY DEF OnItsWay
  <2>2. \A m \in Messages : attempts[m] = <<>> => DOMAIN attempts[m] = {}
    OBVIOUS
  <2> QED BY <2>1, <2>2 DEF OnItsWay, Sent
<1>2. /\ IsFiniteSet(OnItsWay) /\ IsFiniteSet(AtRest)
      /\ Cardinality(OnItsWay) \in Nat /\ Cardinality(AtRest) \in Nat
      /\ Cardinality(Sent) = Cardinality(AtRest) + Cardinality(OnItsWay)
  <2>1. IsFiniteSet(OnItsWay)
    BY <1>1, FS_Subset DEF LedgerInv
  <2>2. Sent \cap OnItsWay = OnItsWay
    BY <1>1
  <2>3. IsFiniteSet(AtRest) /\ Cardinality(AtRest) = Cardinality(Sent) - Cardinality(OnItsWay)
    <3>1. IsFiniteSet(Sent)
      BY DEF LedgerInv
    <3>2. /\ IsFiniteSet(Sent \ OnItsWay)
          /\ Cardinality(Sent \ OnItsWay) = Cardinality(Sent) - Cardinality(Sent \cap OnItsWay)
      BY <3>1, FS_Difference
    <3> QED BY <2>2, <3>2
  <2> HIDE DEF AtRest
  <2>4. /\ Cardinality(OnItsWay) \in Nat /\ Cardinality(AtRest) \in Nat
        /\ Cardinality(Sent) \in Nat
    BY <2>1, <2>3, FS_CardinalityType DEF LedgerInv
  <2> QED BY <2>1, <2>3, <2>4
<1>3. ASSUME NEW m \in AtRest
      PROVE  <<m, Len(attempts[m])>> \in Ended
  <2>1. PICK s \in Seq(SoundAttempt) : s = attempts[m] /\ s # <<>> /\ Len(s) \in DOMAIN s
    BY DEF Sent, DInv
  <2>2. <<m, Len(s)>> \in Ids /\ At(<<m, Len(s)>>) = s[Len(s)]
    BY <2>1 DEF Ids, At, Sent
  <2>3. ~Live(<<m, Len(s)>>)
    BY <2>1 DEF OnItsWay, Sent
  <2>4. s[Len(s)].followUps = 0
    BY <2>1 DEF LedgerInv, LastIsFresh, Sent
  <2> QED BY <2>1, <2>2, <2>3, <2>4 DEF Ended, Final, Live
<1>4. f \in Injection(AtRest, Ended)
  BY <1>3 DEF Injection, IsInjective
<1>5. Cardinality(AtRest) <= Cardinality(Ended) /\ Cardinality(Ended) \in Nat
  BY <1>4, FS_Injection, FS_CardinalityType DEF LedgerInv
<1>6. ASSUME \A id \in Ids : At(id).expiries = 0
      PROVE  Cardinality(AtRest) = Cardinality(Ended)
  <2>1. ASSUME NEW id \in Ended
        PROVE  \E m \in AtRest : f[m] = id
    <3>1a. PICK m \in Messages : \E n \in DOMAIN attempts[m] : id = <<m, n>>
      BY DEF Ended, Ids
    <3>1. PICK n \in DOMAIN attempts[m] : id = <<m, n>>
      BY <3>1a
    <3>2. PICK s \in Seq(SoundAttempt) : s = attempts[m] /\ n \in DOMAIN s
      BY <3>1 DEF DInv
    <3>3. Unexpired(s)
      <4> SUFFICES ASSUME NEW j \in DOMAIN s PROVE s[j].expiries = 0
        BY DEF Unexpired
      <4>1. <<m, j>> \in Ids
        BY <3>2 DEF Ids
      <4> QED BY <1>6, <3>2, <4>1 DEF At
    <3>4. Final(s[n])
      BY <3>1, <3>2 DEF Ended, At
    <3>5. n = Len(s)
      BY <3>2, <3>3, <3>4 DEF LedgerInv, FormerAreSpent, Final
    <3>6. m \notin OnItsWay
      <4>1. \A j \in DOMAIN s : ~IsLive(s[j])
        BY <3>2, <3>3, <3>4, <3>5 DEF DInv, Chain, OneLive, Final, IsLive
      <4> QED BY <3>2, <4>1 DEF OnItsWay, Live, At, IsLive
    <3>7. m \in AtRest
      BY <3>2, <3>6 DEF Sent
    <3> QED BY <3>1, <3>2, <3>5, <3>7
  <2>2. f \in Surjection(AtRest, Ended)
    <3>1. f \in [AtRest -> Ended]
      BY <1>3
    <3> QED BY <2>1, <3>1 DEF Surjection
  <2> QED BY <1>4, <2>2, FS_Injection DEF LedgerInv
<1> HIDE DEF AtRest, f
<1> QED BY <1>2, <1>5, <1>6 DEF AcceptedWorkConserved, LedgerInv

\* The run's ledger loses no accepted message: each was delivered, lost or is still on
\* its way, and exactly one of them where no visibility ran out.
THEOREM AcceptedWorkIsConserved == DeliverySpec => []AcceptedWorkConserved
BY DeliveryInvariant, DeliveryStarts, LedgerStarts, LedgerStep, LedgerSafe, PTL DEF DeliverySpec

-----------------------------------------------------------------------------
(* The guarded consumers *)

\* The lease table beside the attempts that hold its grants. Whoever is at work and
\* has not outlived a lease owns the one in the table, which has the newest token.
Leased(id) == tokenOf[id] > 0
LockTypes ==
  /\ Ids \subseteq AllIds /\ step \in [AllIds -> Steps]
  /\ tokenOf \in [AllIds -> Nat] /\ grants \in Nat /\ overrun \subseteq AllIds
  /\ lease \in [owner : AllIds \cup {<<>>}, token : Nat, expired : BOOLEAN]
LeaseTable ==
  lease # NoLease =>
    /\ lease.owner \in AllIds /\ Leased(lease.owner)
    /\ lease.token = tokenOf[lease.owner] /\ lease.token = grants
    /\ lease.expired <=> lease.owner \in overrun
Tokens ==
  \A a, b \in AllIds : /\ Leased(a) => tokenOf[a] <= grants
                       /\ Leased(a) /\ Leased(b) /\ a # b => tokenOf[a] # tokenOf[b]
Workers == \A id \in AllIds : Leased(id) \/ id \in overrun => step[id] = "working"
Owners ==
  \A id \in AllIds : Leased(id) /\ id \notin overrun => lease # NoLease /\ lease.owner = id

LockInv == LockTypes /\ LeaseTable /\ Tokens /\ Workers /\ Owners

-----------------------------------------------------------------------------
(* The lock *)

\* The lock cannot tell one step behind it from another.
LEMMA LockUntouched ==
  ASSUME LockInv, UNCHANGED lockVars, Ids' \subseteq AllIds, step' \in [AllIds -> Steps],
         \A id \in AllIds : step'[id] = step[id] \/ step[id] \in {"start", "admitted"}
  PROVE  LockInv'
BY DEF LockInv, LockTypes, LeaseTable, Tokens, Workers, Owners, Leased, lockVars, NoLease

LEMMA HoldersAreLate ==
  ASSUME LockInv, LeaseFree
  PROVE  \A id \in AllIds : Leased(id) => id \in overrun
BY DEF LockInv, LeaseTable, Owners, LeaseFree

LEMMA AcquireStep ==
  ASSUME LockInv, NEW id \in AllIds, step[id] = "admitted", Acquire(id), UNCHANGED attempts
  PROVE  LockInv'
<1>1. ~Leased(id) /\ id \notin overrun
  BY DEF LockInv, Workers
<1>2. \A o \in AllIds : Leased(o) => o \in overrun
  BY HoldersAreLate DEF Acquire
<1>3. PICK g \in Nat : g = grants + 1 /\ grants \in Nat /\ grants' = g
  BY DEF LockInv, LockTypes, Acquire
<1>4. /\ tokenOf' = [tokenOf EXCEPT ![id] = g] /\ step' = [step EXCEPT ![id] = "working"]
      /\ overrun' = overrun
  BY <1>3 DEF Acquire, GoTo
<1>5. /\ lease'.owner = id /\ lease'.token = g /\ lease'.expired = FALSE
  BY <1>3 DEF Acquire
<1>6. LockTypes'
  <2>1. lease' \in [owner : AllIds \cup {<<>>}, token : Nat, expired : BOOLEAN]
    BY <1>3 DEF Acquire
  <2>2. Ids' \subseteq AllIds /\ step' \in [AllIds -> Steps]
    BY <1>4 DEF LockInv, LockTypes, Steps, Ids
  <2>3. tokenOf' \in [AllIds -> Nat] /\ overrun' \subseteq AllIds
    BY <1>3, <1>4 DEF LockInv, LockTypes
  <2>4. grants' \in Nat
    BY <1>3
  <2> QED BY <2>1, <2>2, <2>3, <2>4 DEF LockTypes
<1>7. tokenOf'[id] = g /\ \A o \in AllIds \ {id} : tokenOf'[o] = tokenOf[o]
  BY <1>4 DEF LockInv, LockTypes
<1>8. LeaseTable'
  <2>1. ~lease'.expired /\ id \notin overrun'
    BY <1>1, <1>4, <1>5
  <2>2. g > 0
    BY <1>3
  <2> QED BY <1>3, <1>5, <1>7, <2>1, <2>2 DEF LeaseTable, Leased
<1>9. Tokens'
  <2>1. \A o \in AllIds : Leased(o) => tokenOf[o] < g
    BY <1>3 DEF LockInv, LockTypes, Tokens, Leased
  <2>2. \A o \in AllIds : tokenOf[o] \in Nat
    BY DEF LockInv, LockTypes
  <2> QED BY <1>3, <1>7, <2>1, <2>2 DEF LockInv, Tokens, Leased
<1>10. Workers'
  BY <1>4, <1>7 DEF LockInv, LockTypes, Workers, Leased
<1>11. Owners'
  <2>1. lease' # NoLease
    BY <1>3, <1>5 DEF NoLease
  <2> QED BY <1>2, <1>4, <1>5, <1>7, <2>1 DEF Owners, Leased
<1> QED BY <1>6, <1>8, <1>9, <1>10, <1>11 DEF LockInv

LEMMA ReleaseStep ==
  ASSUME LockInv, NEW id \in AllIds, ReleaseLease(id), UNCHANGED step, Ids' \subseteq AllIds
  PROVE  LockInv'
<1>1. tokenOf'[id] = 0 /\ \A o \in AllIds \ {id} : tokenOf'[o] = tokenOf[o]
  BY DEF ReleaseLease, LockInv, LockTypes
<1>2. UNCHANGED <<grants, overrun>>
  BY DEF ReleaseLease
<1>3. lease' = NoLease \/ (lease' = lease /\ (lease # NoLease => lease.owner # id))
  BY DEF ReleaseLease, LockInv, LeaseTable
<1>4. LockTypes'
  BY <1>2 DEF ReleaseLease, LockInv, LockTypes, NoLease
<1>5. LeaseTable'
  BY <1>1, <1>2, <1>3 DEF LockInv, LeaseTable, Leased, NoLease
<1>6. Tokens' /\ Workers'
  BY <1>1, <1>2 DEF LockInv, Tokens, Workers, Leased
<1>7. Owners'
  <2> SUFFICES ASSUME NEW o \in AllIds, Leased(o)', o \notin overrun
               PROVE  lease' # NoLease /\ lease'.owner = o
    BY <1>2 DEF Owners
  <2>1. o # id /\ Leased(o)
    BY <1>1 DEF Leased
  <2>2. lease # NoLease /\ lease.owner = o
    BY <2>1 DEF LockInv, Owners
  <2>3. lease' = lease
    BY <2>1, <2>2 DEF ReleaseLease
  <2> QED BY <2>2, <2>3
<1> QED BY <1>4, <1>5, <1>6, <1>7 DEF LockInv

LEMMA RunOutStep ==
  ASSUME LockInv, LeaseRunsOut
  PROVE  /\ lease.owner \in AllIds /\ Leased(lease.owner) /\ lease.owner \notin overrun
         /\ LockInv'
<1>1. /\ lease # NoLease /\ lease.owner \in AllIds /\ Leased(lease.owner)
      /\ lease.owner \notin overrun
  BY DEF LockInv, LeaseTable, LeaseRunsOut, LeaseFree
<1>2. /\ lease' = [lease EXCEPT !.expired = TRUE] /\ overrun' = overrun \cup {lease.owner}
      /\ UNCHANGED <<attempts, step, tokenOf, grants>>
  BY DEF LeaseRunsOut, deliveryVars
<1>3. PICK o \in AllIds : o = lease.owner /\ Leased(o) /\ o \notin overrun
  BY <1>1
<1>4. lease'.owner = o /\ lease'.token = lease.token /\ lease'.expired = TRUE
  BY <1>2, <1>3 DEF LockInv, LockTypes
<1>5. LockTypes'
  <2>1. lease' \in [owner : AllIds \cup {<<>>}, token : Nat, expired : BOOLEAN]
    BY <1>2 DEF LockInv, LockTypes
  <2>2. Ids' \subseteq AllIds
    BY <1>2 DEF LockInv, LockTypes, Ids
  <2>3. overrun' \subseteq AllIds
    BY <1>2, <1>3 DEF LockInv, LockTypes
  <2> QED BY <1>2, <2>1, <2>2, <2>3 DEF LockInv, LockTypes
<1>6. LeaseTable'
  <2>1. lease'.expired /\ o \in overrun'
    BY <1>2, <1>3, <1>4
  <2> QED BY <1>1, <1>2, <1>3, <1>4, <2>1 DEF LockInv, LeaseTable, Leased
<1>7. Tokens' /\ Workers'
  BY <1>2, <1>3 DEF LockInv, Tokens, Workers, Leased
<1>8. Owners'
  <2>1. lease' # NoLease
    BY <1>4 DEF NoLease
  <2> QED BY <1>2, <1>3, <1>4, <2>1 DEF LockInv, Owners, Leased
<1> QED BY <1>1, <1>5, <1>6, <1>7, <1>8 DEF LockInv

-----------------------------------------------------------------------------
(* The steps of the composition *)

\* What each of them is to the queue and to the lock.
LEMMA Parts ==
  ASSUME LockInv, [CoordNext]_coordVars
  PROVE  /\ [DeliveryNext]_deliveryVars /\ Ids' \subseteq AllIds
         /\ \/ /\ UNCHANGED lockVars /\ step' \in [AllIds -> Steps]
               /\ \A o \in AllIds : step'[o] = step[o] \/ step[o] \in {"start", "admitted"}
            \/ \E id \in AllIds : /\ step[id] = "admitted" /\ Acquire(id)
                                  /\ UNCHANGED attempts
            \/ \E id \in AllIds : ReleaseLease(id) /\ UNCHANGED step
            \/ LeaseRunsOut
<1>0. Ids \subseteq AllIds /\ step \in [AllIds -> Steps]
  BY DEF LockInv, LockTypes
<1>1. CASE UNCHANGED coordVars
  BY <1>0, <1>1 DEF coordVars, deliveryVars, lockVars, Ids
<1>2. ASSUME NEW m \in Messages, CoordProduce(m), WithinBound
      PROVE  DeliveryNext /\ UNCHANGED <<lockVars, step>> /\ Ids' \subseteq AllIds
  BY <1>2 DEF CoordProduce, DeliveryNext, WithinBound
<1>3. ASSUME NEW id \in Ids, QueueOnly(id), WithinBound
      PROVE  DeliveryNext /\ UNCHANGED <<lockVars, step>> /\ Ids' \subseteq AllIds
  BY <1>3 DEF QueueOnly, DeliveryNext, AttemptStep, WithinBound
<1>4. ASSUME NEW id \in Ids, CoordExpire(id), WithinBound
      PROVE  DeliveryNext /\ UNCHANGED <<lockVars, step>> /\ Ids' \subseteq AllIds
  BY <1>4 DEF CoordExpire, DeliveryNext, AttemptStep, WithinBound
<1>5. ASSUME NEW id \in Ids, CoordDeliver(id) \/ CoordFail(id), WithinBound
      PROVE  /\ DeliveryNext /\ Ids' \subseteq AllIds
             /\ id \in AllIds /\ ReleaseLease(id) /\ UNCHANGED step
  BY <1>0, <1>5 DEF CoordDeliver, CoordFail, DeliveryNext, AttemptStep, WithinBound
<1>6. ASSUME NEW id \in Ids, ReachGuard(id), WithinBound
      PROVE  /\ UNCHANGED <<deliveryVars, lockVars>> /\ Ids' \subseteq AllIds
             /\ step' \in [AllIds -> Steps]
             /\ \A o \in AllIds : step'[o] = step[o] \/ step[o] \in {"start", "admitted"}
  <2>1. step[id] = "start" /\ \E s \in Steps : GoTo(id, s)
    BY <1>6 DEF ReachGuard, DedupWindow, CommitJournal, FirstSeen, Committed, Reconcile,
                Blocked, Admit, Steps
  <2> QED BY <1>0, <1>6, <2>1 DEF ReachGuard, GoTo, WithinBound
<1>7. ASSUME NEW id \in Ids, ReachLock(id), WithinBound
      PROVE  /\ UNCHANGED deliveryVars /\ Ids' \subseteq AllIds
             /\ \/ step[id] = "admitted" /\ Acquire(id) /\ id \in AllIds
                \/ /\ UNCHANGED lockVars /\ step' \in [AllIds -> Steps]
                   /\ \A o \in AllIds : \/ step'[o] = step[o]
                                        \/ step[o] \in {"start", "admitted"}
  BY <1>0, <1>7 DEF ReachLock, Contended, GoTo, Steps, WithinBound
<1>8. ASSUME LeaseRunsOut
      PROVE  UNCHANGED deliveryVars /\ Ids' \subseteq AllIds
  BY <1>0, <1>8 DEF LeaseRunsOut, deliveryVars, Ids
<1>9. ASSUME NEW k \in Keys, WindowRunsOut(k)
      PROVE  UNCHANGED <<deliveryVars, lockVars, step>> /\ Ids' \subseteq AllIds
  BY <1>0, <1>9 DEF WindowRunsOut, deliveryVars, Ids
<1> QED BY <1>0, <1>1, <1>2, <1>3, <1>4, <1>5, <1>6, <1>7, <1>8, <1>9
        DEF CoordNext, Advance, deliveryVars

LEMMA LockStep ==
  ASSUME LockInv, [CoordNext]_coordVars
  PROVE  LockInv'
BY Parts, LockUntouched, AcquireStep, ReleaseStep, RunOutStep DEF LockInv, LockTypes

LEMMA LockInit == CoordInit => LockInv
<1> SUFFICES ASSUME CoordInit PROVE LockInv
  OBVIOUS
<1>1. Ids = {}
  BY DEF CoordInit, DeliveryInit, Ids
<1>2. /\ step = [id \in AllIds |-> "start"] /\ tokenOf = [id \in AllIds |-> 0]
      /\ grants = 0 /\ overrun = {} /\ lease = NoLease
  BY DEF CoordInit
<1>3. LockTypes
  BY <1>1, <1>2 DEF LockTypes, Steps, NoLease
<1>4. LeaseTable /\ Tokens /\ Workers /\ Owners
  BY <1>2 DEF LeaseTable, Tokens, Workers, Owners, Leased
<1> QED BY <1>3, <1>4 DEF LockInv

LEMMA LockInvariant == CoordSpec => []LockInv
BY LockInit, LockStep, PTL DEF CoordSpec

\* Every step of the lease table is a grant, an expiry or a release of the fenced
\* lock, or none of its business.
THEOREM LeaseTableIsAFencedLock == CoordSpec => ImplementsFencedLock
<1>1. CoordInit => Lock!Init
  BY DEF CoordInit, Lock!Init
<1>2. LockInv /\ [CoordNext]_coordVars => [Lock!Next]_Lock!lockVars
  <2> SUFFICES ASSUME LockInv, [CoordNext]_coordVars PROVE [Lock!Next]_Lock!lockVars
    OBVIOUS
  <2>1. CASE UNCHANGED lockVars
    BY <2>1 DEF lockVars, Lock!lockVars
  <2>2. ASSUME NEW id \in AllIds, step[id] = "admitted", Acquire(id)
        PROVE  Lock!Grant(id)
    <3>1. tokenOf[id] = 0 /\ id \notin overrun
      BY <2>2 DEF LockInv, LockTypes, Workers, Leased
    <3>2. Lock!Holders \subseteq {o \in overrun : tokenOf[o] > 0}
      BY <2>2, HoldersAreLate DEF Lock!Holders, Leased, Acquire
    <3>3. {o \in overrun : tokenOf[o] > 0}' = {o \in overrun : tokenOf[o] > 0}
      BY <2>2, <3>1 DEF Acquire, LockInv, LockTypes
    <3> QED BY <2>2, <3>1, <3>2, <3>3 DEF Acquire, Lock!Grant
  <2>3. ASSUME NEW id \in AllIds, ReleaseLease(id)
        PROVE  Lock!Release(id) \/ UNCHANGED Lock!lockVars
    <3>1. CASE Leased(id)
      <4>1. {o \in overrun : tokenOf[o] > 0}' = {o \in overrun : tokenOf[o] > 0} \ {id}
        BY <2>3 DEF ReleaseLease, LockInv, LockTypes
      <4> QED BY <2>3, <3>1, <4>1 DEF ReleaseLease, Lock!Release, Lock!Holders, Leased
    <3>2. CASE ~Leased(id)
      <4>1. tokenOf[id] = 0
        BY <3>2 DEF LockInv, LockTypes, Leased
      <4>2. UNCHANGED <<tokenOf, overrun, grants>>
        BY <2>3, <4>1 DEF ReleaseLease, LockInv, LockTypes
      <4> QED BY <4>2 DEF Lock!lockVars
    <3> QED BY <3>1, <3>2
  <2>4. ASSUME LeaseRunsOut
        PROVE  \E id \in AllIds : Lock!Expire(id)
    <3>1. PICK id \in AllIds : id = lease.owner /\ Leased(id) /\ id \notin overrun
      BY <2>4, RunOutStep
    <3>2. overrun' = overrun \cup {id} /\ UNCHANGED <<tokenOf, grants>>
      BY <2>4, <3>1 DEF LeaseRunsOut
    <3>3. {o \in overrun : tokenOf[o] > 0}' = {o \in overrun : tokenOf[o] > 0} \cup {id}
      BY <3>1, <3>2 DEF Leased
    <3> QED BY <3>1, <3>2, <3>3 DEF Lock!Expire, Lock!Holders, Leased
  <2> QED BY <2>1, <2>2, <2>3, <2>4, Parts DEF Lock!Next
<1> QED BY <1>1, <1>2, LockInvariant, PTL DEF CoordSpec, ImplementsFencedLock, Lock!Spec

-----------------------------------------------------------------------------
(* The queue behind the guards *)

LEMMA QueueInvariant == CoordSpec => []DInv
<1>1. CoordInit => DInv
  BY DeliveryStarts DEF CoordInit
<1>2. DInv /\ LockInv /\ [CoordNext]_coordVars => DInv'
  BY Parts, DeliveryStep
<1> QED BY <1>1, <1>2, LockInvariant, PTL DEF CoordSpec

\* The guards and the lock take nothing from what the queue promises.
THEOREM GuardedDeliveryKeepsLimits == CoordSpec => []RedeliveredOnce /\ []ReceiveLimitHeld
BY QueueInvariant, DeliverySafe, PTL

\* Nor is an accepted message forgotten between guards, lock and journal.
THEOREM GuardedWorkIsConserved == CoordSpec => []AcceptedWorkConserved
<1>1. CoordInit => LedgerInv
  BY LedgerStarts DEF CoordInit
<1>2. DInv /\ LockInv /\ LedgerInv /\ [CoordNext]_coordVars => LedgerInv'
  BY Parts, LedgerStep
<1> QED BY <1>1, <1>2, LockInvariant, QueueInvariant, LedgerSafe, PTL DEF CoordSpec

\* A step of one attempt leaves the others as they are, and forgets none.
LEMMA OthersStay ==
  ASSUME DInv, NEW id \in Ids, NEW u, attempts' = [attempts EXCEPT ![id[1]] = u],
         DOMAIN attempts[id[1]] \subseteq DOMAIN u,
         \A j \in DOMAIN attempts[id[1]] \ {id[2]} : u[j] = attempts[id[1]][j]
  PROVE  /\ \A o \in Ids : o \in Ids' /\ (o # id => At(o)' = At(o))
         /\ At(id)' = u[id[2]]
<1>1. PICK m \in Messages : m = id[1] /\ attempts'[m] = u
  BY IdParts DEF DInv
<1>2. PICK n \in DOMAIN attempts[m] : n = id[2]
  BY <1>1, IdParts
<1>3. At(id)' = u[id[2]]
  BY <1>1 DEF At
<1> SUFFICES ASSUME NEW o \in Ids
             PROVE  o \in Ids' /\ (o # id => At(o)' = At(o))
  BY <1>3
<1>4. PICK p \in Messages : \E k \in DOMAIN attempts[p] : o = <<p, k>>
  BY DEF Ids
<1>5. PICK k \in DOMAIN attempts[p] : o = <<p, k>>
  BY <1>4
<1>6. k \in DOMAIN attempts'[p] /\ (o # id => attempts'[p][k] = attempts[p][k])
  <2>1. CASE p = m
    <3>1. o # id => k # n
      BY <1>1, <1>2, <1>5, <2>1 DEF Ids
    <3> QED BY <1>1, <1>2, <2>1, <3>1
  <2>2. CASE p # m
    BY <1>1, <2>2 DEF DInv
  <2> QED BY <2>1, <2>2
<1>7. <<p, k>> \in {<<p, i>> : i \in DOMAIN attempts'[p]}
  BY <1>6
<1>8. o \in Ids'
  <2>1. Ids' = UNION {{<<q, i>> : i \in DOMAIN attempts'[q]} : q \in Messages}
    BY DEF Ids
  <2>2. {<<p, i>> : i \in DOMAIN attempts'[p]}
          \in {{<<q, i>> : i \in DOMAIN attempts'[q]} : q \in Messages}
    OBVIOUS
  <2> QED BY <1>5, <1>7, <2>1, <2>2, Zenon
<1>9. o # id => At(o)' = At(o)
  BY <1>5, <1>6 DEF At
<1> QED BY <1>8, <1>9

LEMMA LocalBecome ==
  ASSUME DInv, NEW id \in Ids, NEW a, Become(id, a)
  PROVE  /\ \A o \in Ids : o \in Ids' /\ (o # id => At(o)' = At(o))
         /\ At(id)' = a
<1>1. PICK s \in Seq(SoundAttempt) : s = attempts[id[1]] /\ id[2] \in DOMAIN s
  BY IdParts DEF DInv
<1>2. PICK u : u = [s EXCEPT ![id[2]] = a]
  OBVIOUS
<1>3. DOMAIN u = DOMAIN s /\ u[id[2]] = a /\ \A j \in DOMAIN s \ {id[2]} : u[j] = s[j]
  BY <1>1, <1>2
<1>4. attempts' = [attempts EXCEPT ![id[1]] = u]
  BY <1>1, <1>2 DEF Become
<1> QED BY <1>1, <1>3, <1>4, OthersStay

LEMMA LocalFork ==
  ASSUME DInv, NEW id \in Ids, NEW a \in AttemptType, NEW byExpiry \in BOOLEAN,
         BecomeAndFollowUp(id, a, byExpiry)
  PROVE  /\ \A o \in Ids : o \in Ids' /\ (o # id => At(o)' = At(o))
         /\ At(id)'.state = a.state
<1>1. PICK s \in Seq(SoundAttempt) : s = attempts[id[1]] /\ id[2] \in DOMAIN s
  BY IdParts DEF DInv
<1>2. PICK next \in Seq(SoundAttempt) : next = FollowUps(a, byExpiry) /\ Len(next) \in {0, 1}
  BY FollowUpsType
<1>3. PICK f \in {0, 1} : f = Len(next)
  BY <1>2
<1>4. PICK done : done = [a EXCEPT !.followUps = @ + f]
  OBVIOUS
<1>5. done \in AttemptType /\ done.state = a.state
  BY <1>3, <1>4 DEF AttemptType
<1>6. s \in Seq(AttemptType) /\ next \in Seq(AttemptType)
  BY DEF SoundAttempt
<1>7. PICK u : u = [s EXCEPT ![id[2]] = done] \o next
  OBVIOUS
<1>8. /\ u \in Seq(AttemptType) /\ Len(u) = Len(s) + Len(next) /\ u[id[2]] = done
      /\ \A j \in DOMAIN s \ {id[2]} : u[j] = s[j]
  BY <1>1, <1>5, <1>6, <1>7, Regrown
<1>9. DOMAIN s \subseteq DOMAIN u
  BY <1>3, <1>8
<1>10. attempts' = [attempts EXCEPT ![id[1]] = u]
  BY <1>1, <1>2, <1>3, <1>4, <1>7 DEF BecomeAndFollowUp
<1> QED BY <1>1, <1>5, <1>8, <1>9, <1>10, OthersStay

\* A delivery or a failure ends one attempt; no other step ends any.
LEMMA EndingStep ==
  ASSUME DInv, NEW id \in Ids, Deliver(id) \/ FailAttempt(id)
  PROVE  \A o \in Ids : o \in Ids' /\ (o # id => At(o)' = At(o))
<1>1. At(id) \in AttemptType
  BY SoundAt DEF SoundAttempt
<1>2. [At(id) EXCEPT !.state = "failed"] \in AttemptType
  BY <1>1 DEF AttemptType
<1>3. CASE Deliver(id)
  BY <1>3, LocalBecome DEF Deliver
<1>4. CASE FailAttempt(id)
  BY <1>2, <1>4, LocalFork DEF FailAttempt
<1> QED BY <1>3, <1>4

LEMMA ContinuingStep ==
  ASSUME DInv, NEW id \in Ids, Live(id),
         \/ BeginProcessing(id) \/ ResumeProcessing(id)
         \/ FinishProcessing(id) \/ HandleVisibilityExpire(id)
  PROVE  (\A o \in Ids : o \in Ids' /\ (o # id => At(o)' = At(o))) /\ Live(id)'
<1> DEFINE x == At(id)
<1>1. x \in AttemptType
  BY SoundAt DEF SoundAttempt
<1> HIDE DEF x
<1>2. CASE BeginProcessing(id) \/ ResumeProcessing(id) \/ FinishProcessing(id)
  <2>1. PICK a : Become(id, a) /\ a.state \in {"processing", "consuming"}
    <3>1. CASE BeginProcessing(id)
      <4>1. PICK armed : Become(id, [x EXCEPT !.state = "processing", !.timer = armed])
        BY <3>1 DEF BeginProcessing, x
      <4>2. [x EXCEPT !.state = "processing", !.timer = armed].state = "processing"
        BY <1>1 DEF AttemptType
      <4> QED BY <4>1, <4>2
    <3>2. CASE ResumeProcessing(id)
      <4>1. PICK armed : Become(id, [x EXCEPT !.timer = armed,
                                       !.staleTimers = IF x.timer THEN @ + 1 ELSE @])
        BY <3>2 DEF ResumeProcessing, x
      <4>2. [x EXCEPT !.timer = armed,
                      !.staleTimers = IF x.timer THEN @ + 1 ELSE @].state = "processing"
        BY <1>1, <3>2 DEF AttemptType, ResumeProcessing, x
      <4> QED BY <4>1, <4>2
    <3>3. CASE FinishProcessing(id)
      <4>1. Become(id, [x EXCEPT !.state = "consuming"])
        BY <3>3 DEF FinishProcessing, x
      <4>2. [x EXCEPT !.state = "consuming"].state = "consuming"
        BY <1>1 DEF AttemptType
      <4> QED BY <4>1, <4>2
    <3> QED BY <1>2, <3>1, <3>2, <3>3
  <2> QED BY <2>1, LocalBecome DEF Live
<1>3. CASE HandleVisibilityExpire(id)
  <2>1. PICK e : e = [x EXCEPT !.visibilityExpired = TRUE, !.expiries = @ + 1]
    OBVIOUS
  <2>2. PICK k \in Nat : k = x.expiries + 1
    BY <1>1 DEF AttemptType
  <2>3. e = [x EXCEPT !.visibilityExpired = TRUE, !.expiries = k]
    BY <2>1, <2>2
  <2>4. e \in AttemptType /\ e.state = x.state /\ e.staleTimers = x.staleTimers
    BY <1>1, <2>3 DEF AttemptType
  <2>5. PICK a \in AttemptType : BecomeAndFollowUp(id, a, TRUE) /\ a.state = x.state
    <3>1. CASE BecomeAndFollowUp(id, [e EXCEPT !.timer = FALSE], TRUE)
      <4>1. /\ [e EXCEPT !.timer = FALSE] \in AttemptType
            /\ [e EXCEPT !.timer = FALSE].state = x.state
        BY <2>4 DEF AttemptType
      <4> QED BY <3>1, <4>1
    <3>2. CASE /\ x.staleTimers > 0
               /\ BecomeAndFollowUp(id, [e EXCEPT !.staleTimers = @ - 1], TRUE)
      <4>1. PICK d \in Nat : d = e.staleTimers - 1
        BY <1>1, <2>4, <3>2 DEF AttemptType
      <4>2. /\ [e EXCEPT !.staleTimers = d] \in AttemptType
            /\ [e EXCEPT !.staleTimers = d].state = x.state
        BY <2>4, <4>1 DEF AttemptType
      <4>3. [e EXCEPT !.staleTimers = @ - 1] = [e EXCEPT !.staleTimers = d]
        BY <4>1
      <4> QED BY <3>2, <4>2, <4>3
    <3> QED BY <1>3, <2>1, <3>1, <3>2 DEF HandleVisibilityExpire, x
  <2> QED BY <2>5, LocalFork DEF Live, x
<1> QED BY <1>2, <1>3

-----------------------------------------------------------------------------
(* The journal *)

GuardTypes ==
  /\ keyOf \in [Messages -> Keys] /\ step \in [AllIds -> Steps]
  /\ journal \in [Keys -> {"none", "pending", "committed", "unknown"}]
JournalHolds ==
  guard.journal /\ ~guard.reconcile =>
    \A id \in AllIds : PastGuard(id) => journal[KeyOf(id)] # "none"
GuardInv == GuardTypes /\ JournalHolds /\ ExecutedOnce

\* An outcome is never taken back.
LEMMA OutcomeStep ==
  ASSUME GuardInv, NEW id \in Ids, id \in AllIds, UNCHANGED <<guard, keyOf, step>>,
         JournalSuccess(id) \/ JournalFailure(id)
  PROVE  GuardInv'
<1>1. KeyOf(id) \in Keys
  BY DEF GuardInv, GuardTypes, KeyOf, AllIds
<1>2. \/ UNCHANGED journal
      \/ \E x \in {"committed", "unknown"} : journal' = [journal EXCEPT ![KeyOf(id)] = x]
  BY DEF JournalSuccess, JournalFailure, Journal
<1>3. GuardTypes'
  BY <1>1, <1>2 DEF GuardInv, GuardTypes
<1>4. JournalHolds'
  <2>1. \A k \in Keys : journal[k] # "none" => journal'[k] # "none"
    BY <1>1, <1>2 DEF GuardInv, GuardTypes
  <2>2. \A o \in AllIds : KeyOf(o) \in Keys
    BY DEF GuardInv, GuardTypes, KeyOf, AllIds
  <2> QED BY <2>1, <2>2 DEF GuardInv, JournalHolds, PastGuard, KeyOf
<1>5. ExecutedOnce'
  BY DEF GuardInv, ExecutedOnce, PastGuard, KeyOf
<1> QED BY <1>3, <1>4, <1>5 DEF GuardInv

LEMMA ReachGuardStep ==
  ASSUME GuardInv, NEW id \in Ids, id \in AllIds, ReachGuard(id)
  PROVE  GuardInv'
<1>1. KeyOf(id) \in Keys
  BY DEF GuardInv, GuardTypes, KeyOf, AllIds
<1>2. step[id] = "start" /\ UNCHANGED <<guard, keyOf>>
  BY DEF ReachGuard, chosen
<1>3. PICK s \in Steps : step' = [step EXCEPT ![id] = s]
  BY DEF ReachGuard, DedupWindow, CommitJournal, FirstSeen, Committed, Reconcile,
         Blocked, Admit, GoTo, Steps
<1>4. GuardTypes'
  <2>1. \/ UNCHANGED journal
        \/ \E x \in {"none", "pending", "committed"} :
             journal' = [journal EXCEPT ![KeyOf(id)] = x]
    BY DEF ReachGuard, DedupWindow, CommitJournal, FirstSeen, Committed, Reconcile,
           Blocked, Journal
  <2> QED BY <1>1, <1>2, <1>3, <2>1 DEF GuardInv, GuardTypes
<1> SUFFICES ASSUME guard.journal, ~guard.reconcile
             PROVE  JournalHolds' /\ ExecutedOnce'
  BY <1>2, <1>4 DEF GuardInv, JournalHolds, ExecutedOnce
<1>5. FirstSeen(id) \/ Committed(id) \/ Blocked(id)
  BY DEF ReachGuard, DedupWindow, CommitJournal, Reconcile
<1>6. CASE FirstSeen(id)
  <2>1. /\ journal[KeyOf(id)] = "none"
        /\ journal' = [journal EXCEPT ![KeyOf(id)] = "pending"]
        /\ step' = [step EXCEPT ![id] = "admitted"]
    BY <1>6 DEF FirstSeen, Admit, Journal, GoTo
  <2>2. \A o \in AllIds : PastGuard(o) => KeyOf(o) # KeyOf(id)
    BY <2>1 DEF GuardInv, JournalHolds
  <2>3. \A o \in AllIds : PastGuard(o)' => PastGuard(o) \/ o = id
    BY <2>1 DEF GuardInv, GuardTypes, PastGuard
  <2>4. \A o \in AllIds : KeyOf(o)' = KeyOf(o)
    BY <1>2 DEF KeyOf
  <2>5. JournalHolds'
    BY <1>1, <2>1, <2>3, <2>4 DEF GuardInv, GuardTypes, JournalHolds
  <2>6. ExecutedOnce'
    BY <2>2, <2>3, <2>4 DEF GuardInv, ExecutedOnce
  <2> QED BY <2>5, <2>6
<1>7. CASE Committed(id) \/ Blocked(id)
  <2>1. UNCHANGED journal /\ \E x \in {"duplicate", "refused"} : step' = [step EXCEPT ![id] = x]
    BY <1>7 DEF Committed, Blocked, GoTo
  <2>2. \A o \in AllIds : PastGuard(o)' => PastGuard(o)
    BY <2>1 DEF GuardInv, GuardTypes, PastGuard
  <2>3. \A o \in AllIds : KeyOf(o)' = KeyOf(o)
    BY <1>2 DEF KeyOf
  <2> QED BY <2>1, <2>2, <2>3 DEF GuardInv, JournalHolds, ExecutedOnce
<1> QED BY <1>5, <1>6, <1>7

LEMMA GuardStep ==
  ASSUME GuardInv, LockInv, [CoordNext]_coordVars
  PROVE  GuardInv'
<1>0. Ids \subseteq AllIds /\ step \in [AllIds -> Steps]
  BY DEF LockInv, LockTypes
<1>1. CASE UNCHANGED <<guard, keyOf, journal, step>>
  BY <1>1 DEF GuardInv, GuardTypes, JournalHolds, ExecutedOnce, PastGuard, KeyOf
<1>2. ASSUME NEW id \in Ids, ReachLock(id)
      PROVE  GuardInv'
  <2>1. /\ step[id] = "admitted" /\ UNCHANGED <<guard, keyOf, journal>>
        /\ \E x \in {"working", "contended"} : step' = [step EXCEPT ![id] = x]
    BY <1>2 DEF ReachLock, Acquire, Contended, GoTo, chosen, guardVars
  <2>2. step' \in [AllIds -> Steps] /\ \A o \in AllIds : PastGuard(o)' <=> PastGuard(o)
    BY <1>0, <2>1 DEF PastGuard, Steps
  <2>3. \A o \in AllIds : KeyOf(o)' = KeyOf(o)
    BY <2>1 DEF KeyOf
  <2> QED BY <2>1, <2>2, <2>3 DEF GuardInv, GuardTypes, JournalHolds, ExecutedOnce
<1>3. ASSUME NEW id \in Ids, CoordDeliver(id) \/ CoordFail(id)
      PROVE  GuardInv'
  BY <1>0, <1>3, OutcomeStep DEF CoordDeliver, CoordFail, chosen
<1>4. ASSUME NEW id \in Ids, ReachGuard(id)
      PROVE  GuardInv'
  BY <1>0, <1>4, ReachGuardStep
<1>5. ASSUME NEW id \in Ids, CoordExpire(id) \/ QueueOnly(id)
      PROVE  UNCHANGED <<guard, keyOf, journal, step>>
  BY <1>5 DEF CoordExpire, QueueOnly, chosen, guardVars
<1>6. ASSUME NEW m \in Messages, CoordProduce(m)
      PROVE  UNCHANGED <<guard, keyOf, journal, step>>
  BY <1>6 DEF CoordProduce, chosen, guardVars
<1>7. ASSUME LeaseRunsOut \/ \E k \in Keys : WindowRunsOut(k)
      PROVE  UNCHANGED <<guard, keyOf, journal, step>>
  BY <1>7 DEF LeaseRunsOut, WindowRunsOut, chosen, guardVars
<1>8. UNCHANGED coordVars => UNCHANGED <<guard, keyOf, journal, step>>
  BY DEF coordVars, chosen, guardVars
<1> QED BY <1>1, <1>2, <1>3, <1>4, <1>5, <1>6, <1>7, <1>8 DEF CoordNext, Advance

LEMMA GuardInit == CoordInit => GuardInv
BY CoordinationAssumption
   DEF CoordInit, GuardInv, GuardTypes, JournalHolds, ExecutedOnce, PastGuard, Steps

\* Without reconciliation the journal lets one attempt of a key past the guard and
\* never a second, whatever is redelivered and however the first ended.
THEOREM JournalAdmitsOnce == CoordSpec => []ExecutedOnce
<1>1. CoordInit => GuardInv
  BY GuardInit
<1>2. LockInv /\ GuardInv /\ [CoordNext]_coordVars => GuardInv'
  BY GuardStep
<1>3. GuardInv => ExecutedOnce
  BY DEF GuardInv
<1> QED BY <1>1, <1>2, <1>3, LockInvariant, PTL DEF CoordSpec

-----------------------------------------------------------------------------
(* The answers to duplicates *)

\* Only attempts that were forked, in a guarded queue, got past "start".
StepsGuarded ==
  \A id \in AllIds : step[id] # "start" => id \in Ids /\ At(id).queue \in Guarded

\* Some attempt of k did the work and was delivered.
WorkDone(k) ==
  \E done \in Ids : /\ KeyOf(done) = k
                    /\ step[done] = "working" /\ At(done).state = "delivered"
Answered ==
  guard.journal /\ ~guard.reconcile =>
    /\ \A k \in Keys : journal[k] = "committed" => WorkDone(k)
    /\ \A id \in AllIds : step[id] = "duplicate" => WorkDone(KeyOf(id))
AnswerInv == StepsGuarded /\ Answered

LEMMA KeptInComposition ==
  ASSUME DInv, LockInv, [CoordNext]_coordVars, NEW o \in Ids
  PROVE  /\ o \in Ids' /\ At(o)'.queue = At(o).queue
         /\ ~Live(o) => At(o)' = At(o)
BY Parts, Kept

\* What was done stays done: a worker stays one, and delivered.
LEMMA DoneStays ==
  ASSUME DInv, LockInv, [CoordNext]_coordVars, UNCHANGED keyOf, NEW k, WorkDone(k),
         \A id \in AllIds : step[id] = "working" => step'[id] = "working"
  PROVE  WorkDone(k)'
<1>1. PICK done \in Ids : /\ KeyOf(done) = k
                          /\ step[done] = "working" /\ At(done).state = "delivered"
  BY DEF WorkDone
<1>2. done \in Ids' /\ At(done)' = At(done) /\ done \in AllIds
  BY <1>1, KeptInComposition DEF Live, LockInv, LockTypes
<1>3. KeyOf(done)' = k /\ step'[done] = "working" /\ At(done)'.state = "delivered"
  BY <1>1, <1>2 DEF KeyOf
<1> QED BY <1>2, <1>3 DEF WorkDone

LEMMA StepsGuardedStep ==
  ASSUME DInv, LockInv, StepsGuarded, [CoordNext]_coordVars
  PROVE  StepsGuarded'
<1>0. Ids \subseteq AllIds /\ step \in [AllIds -> Steps]
  BY DEF LockInv, LockTypes
<1>1. CASE UNCHANGED step
  BY <1>1, KeptInComposition DEF StepsGuarded
<1>2. ASSUME NEW id \in Ids, NEW s, GoTo(id, s), AtConsumer(id), UNCHANGED attempts
      PROVE  StepsGuarded'
  <2>1. \A o \in AllIds : step'[o] # step[o] => o = id
    BY <1>0, <1>2 DEF GoTo
  <2>2. Ids' = Ids /\ \A o : At(o)' = At(o)
    BY <1>2 DEF Ids, At
  <2> QED BY <1>2, <2>1, <2>2 DEF StepsGuarded, AtConsumer
<1>3. ASSUME NEW id \in Ids, ReachGuard(id)
      PROVE  AtConsumer(id) /\ UNCHANGED attempts /\ \E s : GoTo(id, s)
  BY <1>3 DEF ReachGuard, DedupWindow, CommitJournal, FirstSeen, Committed, Reconcile,
              Blocked, Admit, deliveryVars
<1>4. ASSUME NEW id \in Ids, ReachLock(id)
      PROVE  AtConsumer(id) /\ UNCHANGED attempts /\ \E s : GoTo(id, s)
  BY <1>4 DEF ReachLock, Acquire, Contended, deliveryVars
<1>5. \/ UNCHANGED step
      \/ \E id \in Ids : ReachGuard(id) \/ ReachLock(id)
  BY DEF CoordNext, Advance, CoordProduce, QueueOnly, CoordExpire, CoordDeliver, CoordFail,
         LeaseRunsOut, WindowRunsOut, coordVars
<1> QED BY <1>1, <1>2, <1>3, <1>4, <1>5

\* A delivery commits the key of an attempt that worked, or one that was answered
\* because another had.
LEMMA DeliveryCommits ==
  ASSUME DInv, LockInv, GuardTypes, AnswerInv, NEW id \in Ids, CoordDeliver(id),
         [CoordNext]_coordVars, guard.journal, ~guard.reconcile
  PROVE  Answered'
<1>0. Ids \subseteq AllIds /\ step \in [AllIds -> Steps] /\ UNCHANGED <<keyOf, step>>
  BY DEF LockInv, LockTypes, CoordDeliver, chosen
<1>1. ASSUME NEW k, WorkDone(k) PROVE WorkDone(k)'
  BY <1>0, <1>1, DoneStays
<1>2. \A o \in AllIds : step'[o] = "duplicate" => WorkDone(KeyOf(o))'
  BY <1>0, <1>1 DEF AnswerInv, Answered, KeyOf
<1>3. CASE ~Settles(id)
  <2>1. UNCHANGED journal
    BY <1>3 DEF CoordDeliver, JournalSuccess
  <2> QED BY <1>0, <1>1, <1>2, <2>1 DEF AnswerInv, Answered, CoordDeliver, chosen
<1>4. CASE Settles(id)
  <2>1. journal' = [journal EXCEPT ![KeyOf(id)] = "committed"]
    BY <1>4 DEF CoordDeliver, JournalSuccess, Journal
  <2>2. step[id] \in {"duplicate", "working"}
    BY <1>0, <1>4 DEF Settles, AnswerInv, StepsGuarded, CoordDeliver, MayDeliver
  <2>3. WorkDone(KeyOf(id))'
    <3>1. CASE step[id] = "duplicate"
      <4>1. PICK k : k = KeyOf(id) /\ KeyOf(id)' = k
        BY <1>0 DEF KeyOf
      <4>2. WorkDone(k)
        BY <1>0, <3>1, <4>1 DEF AnswerInv, Answered
      <4>3. WorkDone(k)'
        BY <1>1, <4>2
      <4> QED BY <4>1, <4>3
    <3>2. CASE step[id] = "working"
      <4>1. At(id) \in AttemptType
        BY SoundAt DEF SoundAttempt
      <4>2. [At(id) EXCEPT !.state = "delivered"].state = "delivered"
        BY <4>1 DEF AttemptType
      <4>3. id \in Ids' /\ At(id)'.state = "delivered"
        BY <4>2, LocalBecome DEF CoordDeliver, Deliver
      <4> QED BY <1>0, <3>2, <4>3 DEF WorkDone, KeyOf
    <3> QED BY <2>2, <3>1, <3>2
  <2>4. \A k \in Keys : journal'[k] = "committed" => WorkDone(k)'
    <3> SUFFICES ASSUME NEW k \in Keys, journal'[k] = "committed"
                 PROVE  WorkDone(k)'
      OBVIOUS
    <3>1. CASE k = KeyOf(id)
      <4>1. KeyOf(id)' = k
        BY <1>0, <3>1 DEF KeyOf
      <4> QED BY <2>3, <4>1
    <3>2. CASE k # KeyOf(id)
      <4>1. journal[k] = "committed"
        BY <2>1, <3>2 DEF GuardTypes
      <4> QED BY <1>1, <4>1 DEF AnswerInv, Answered
    <3> QED BY <3>1, <3>2
  <2> QED BY <1>2, <2>4 DEF Answered
<1> QED BY <1>3, <1>4

LEMMA AnswerStep ==
  ASSUME DInv, LockInv, GuardInv, AnswerInv, [CoordNext]_coordVars
  PROVE  AnswerInv'
<1>0. Ids \subseteq AllIds /\ step \in [AllIds -> Steps] /\ GuardTypes
  BY DEF LockInv, LockTypes, GuardInv
<1>1. UNCHANGED chosen
  BY DEF CoordNext, Advance, CoordProduce, QueueOnly, CoordExpire, CoordDeliver, CoordFail,
         LeaseRunsOut, WindowRunsOut, coordVars, ReachGuard, ReachLock
<1> SUFFICES ASSUME guard.journal, ~guard.reconcile
             PROVE  Answered'
  BY <1>1, StepsGuardedStep DEF AnswerInv, Answered, chosen
<1>2. \A o : KeyOf(o)' = KeyOf(o)
  BY <1>1 DEF KeyOf, chosen
\* A step that commits nothing and answers nobody.
<1>3. ASSUME \A k \in Keys : journal'[k] = "committed" => journal[k] = "committed",
             \A o \in AllIds : step[o] = "working" => step'[o] = "working",
             \A o \in AllIds : step'[o] = "duplicate" => step[o] = "duplicate"
      PROVE  Answered'
  <2>1. \A k : WorkDone(k) => WorkDone(k)'
    BY <1>1, <1>3, DoneStays DEF chosen
  <2> QED BY <1>2, <1>3, <2>1 DEF AnswerInv, Answered
<1>4. CASE UNCHANGED <<journal, step>>
  BY <1>3, <1>4
<1>5. ASSUME NEW id \in Ids, ReachLock(id)
      PROVE  Answered'
  <2>1. /\ UNCHANGED journal /\ step[id] = "admitted"
        /\ \E x \in {"working", "contended"} : step' = [step EXCEPT ![id] = x]
    BY <1>5 DEF ReachLock, Acquire, Contended, GoTo, guardVars
  <2> QED BY <1>0, <1>3, <2>1
<1>6. ASSUME NEW id \in Ids, CoordFail(id)
      PROVE  Answered'
  <2>1. UNCHANGED step
    BY <1>6 DEF CoordFail
  <2>2. UNCHANGED journal \/ journal' = [journal EXCEPT ![KeyOf(id)] = "unknown"]
    BY <1>6 DEF CoordFail, JournalFailure, Journal
  <2>3. \A k \in Keys : journal'[k] = "committed" => journal[k] = "committed"
    BY <1>0, <2>2 DEF GuardTypes
  <2> QED BY <1>3, <2>1, <2>3
<1>7. ASSUME NEW id \in Ids, ReachGuard(id)
      PROVE  Answered'
  <2>1. step[id] = "start" /\ (FirstSeen(id) \/ Committed(id) \/ Blocked(id))
    BY <1>7 DEF ReachGuard, DedupWindow, CommitJournal, Reconcile
  <2>2. CASE FirstSeen(id) \/ Blocked(id)
    <3>1. \E x \in {"admitted", "refused"} : step' = [step EXCEPT ![id] = x]
      BY <2>2 DEF FirstSeen, Blocked, Admit, GoTo
    <3>2. UNCHANGED journal \/ journal' = [journal EXCEPT ![KeyOf(id)] = "pending"]
      BY <2>2 DEF FirstSeen, Blocked, Journal
    <3>3. \A k \in Keys : journal'[k] = "committed" => journal[k] = "committed"
      BY <1>0, <3>2 DEF GuardTypes
    <3> QED BY <1>0, <1>3, <2>1, <3>1, <3>3
  <2>3. CASE Committed(id)
    <3>1. /\ journal[KeyOf(id)] = "committed" /\ UNCHANGED journal
          /\ step' = [step EXCEPT ![id] = "duplicate"]
      BY <2>3 DEF Committed, GoTo
    <3>2. \A k : WorkDone(k) => WorkDone(k)'
      BY <1>0, <1>1, <2>1, <3>1, DoneStays DEF chosen
    <3>3. KeyOf(id) \in Keys
      BY <1>0 DEF GuardTypes, KeyOf, AllIds
    <3>4. WorkDone(KeyOf(id))
      BY <3>1, <3>3 DEF AnswerInv, Answered
    <3> QED BY <1>0, <1>2, <3>1, <3>2, <3>4 DEF AnswerInv, Answered
  <2> QED BY <2>1, <2>2, <2>3
<1>8. ASSUME NEW id \in Ids, CoordDeliver(id)
      PROVE  Answered'
  BY <1>0, <1>8, DeliveryCommits
<1>9. \/ UNCHANGED <<journal, step>>
      \/ \E id \in Ids : ReachLock(id) \/ CoordFail(id) \/ ReachGuard(id) \/ CoordDeliver(id)
  BY DEF CoordNext, Advance, CoordProduce, QueueOnly, CoordExpire,
         LeaseRunsOut, WindowRunsOut, coordVars, guardVars
<1> QED BY <1>4, <1>5, <1>6, <1>7, <1>8, <1>9

\* Without reconciliation a duplicate is answered only if the work was done, for any
\* number of attempts and keys and whatever the failures in between.
THEOREM AnswersAreTrue == CoordSpec => []AnsweredOnlyIfDone
<1>1. CoordInit => GuardInv /\ AnswerInv
  <2> SUFFICES ASSUME CoordInit PROVE GuardInv /\ AnswerInv
    OBVIOUS
  <2>1. GuardInv
    BY GuardInit
  <2>2. StepsGuarded
    BY DEF CoordInit, StepsGuarded
  <2>3. Answered
    BY DEF CoordInit, Answered
  <2> QED BY <2>1, <2>2, <2>3 DEF AnswerInv
<1>2. DInv /\ LockInv /\ GuardInv /\ AnswerInv /\ [CoordNext]_coordVars => AnswerInv'
  BY AnswerStep
<1>3. LockInv /\ GuardInv /\ [CoordNext]_coordVars => GuardInv'
  BY GuardStep
<1>4. AnswerInv => AnsweredOnlyIfDone
  BY DEF AnswerInv, Answered, AnsweredOnlyIfDone, WorkDone
<1> QED BY <1>1, <1>2, <1>3, <1>4, LockInvariant, QueueInvariant, PTL DEF CoordSpec

-----------------------------------------------------------------------------
(* The owner of the lease *)

LiveOwner == lease # NoLease => lease.owner \in Ids /\ Live(lease.owner)

LEMMA OwnerStep ==
  ASSUME DInv, LockInv, LiveOwner, [CoordNext]_coordVars
  PROVE  LiveOwner'
<1>1. CASE UNCHANGED <<attempts, lease>>
  BY <1>1 DEF LiveOwner, Ids, Live, At
<1>2. ASSUME NEW m \in Messages, CoordProduce(m)
      PROVE  LiveOwner'
  <2>1. /\ lease' = lease /\ attempts[m] = <<>>
        /\ \E u : attempts' = [attempts EXCEPT ![m] = u]
    BY <1>2 DEF CoordProduce, Produce, lockVars
  <2>2. \A p \in Messages \ {m} : attempts'[p] = attempts[p]
    BY <2>1 DEF DInv
  <2>3. \A o \in Ids : o \in Ids' /\ At(o)' = At(o)
    <3> SUFFICES ASSUME NEW o \in Ids PROVE o \in Ids' /\ At(o)' = At(o)
      OBVIOUS
    <3>1. PICK p \in Messages : \E k \in DOMAIN attempts[p] : o = <<p, k>>
      BY DEF Ids
    <3>2. PICK k \in DOMAIN attempts[p] : o = <<p, k>>
      BY <3>1
    <3>3. p # m
      BY <2>1, <3>2
    <3>4. attempts'[p] = attempts[p]
      BY <2>2, <3>3
    <3>5. o \in Ids'
      BY <3>2, <3>4 DEF Ids
    <3> QED BY <3>2, <3>4, <3>5 DEF At
  <2> QED BY <2>1, <2>3 DEF LiveOwner, Live
<1>3. ASSUME NEW id \in Ids, ReachLock(id)
      PROVE  LiveOwner'
  <2>1. UNCHANGED attempts /\ (lease' = lease \/ lease'.owner = id) /\ Live(id)
    BY <1>3 DEF ReachLock, Acquire, Contended, deliveryVars, lockVars, AtConsumer, Live
  <2> QED BY <2>1 DEF LiveOwner, Ids, Live, At
<1>4. ASSUME NEW id \in Ids, CoordDeliver(id) \/ CoordFail(id)
      PROVE  LiveOwner'
  <2>1. (Deliver(id) \/ FailAttempt(id)) /\ ReleaseLease(id)
    BY <1>4 DEF CoordDeliver, CoordFail
  <2>2. lease' = NoLease \/ (lease' = lease /\ (lease # NoLease => lease.owner # id))
    BY <2>1 DEF ReleaseLease, LockInv, LeaseTable
  <2> QED BY <2>1, <2>2, EndingStep DEF LiveOwner, Live
<1>5. ASSUME NEW id \in Ids, CoordExpire(id) \/ QueueOnly(id)
      PROVE  LiveOwner'
  <2>1. lease' = lease
    BY <1>5 DEF CoordExpire, QueueOnly, lockVars
  <2>2. Live(id) /\ (\/ BeginProcessing(id) \/ FinishProcessing(id)
                     \/ HandleVisibilityExpire(id))
    BY <1>5 DEF CoordExpire, QueueOnly, BeginProcessing, FinishProcessing,
                HandleVisibilityExpire, Live
  <2> QED BY <2>1, <2>2, ContinuingStep DEF LiveOwner, Live
<1>6. ASSUME NEW id \in Ids, ReachGuard(id)
      PROVE  UNCHANGED <<attempts, lease>>
  BY <1>6 DEF ReachGuard, deliveryVars, lockVars
<1>7. ASSUME LeaseRunsOut
      PROVE  LiveOwner'
  <2>1. UNCHANGED attempts /\ lease # NoLease /\ lease'.owner = lease.owner
    BY <1>7 DEF LeaseRunsOut, deliveryVars, LockInv, LockTypes, LeaseFree
  <2> QED BY <2>1 DEF LiveOwner, Ids, Live, At
<1>8. ASSUME NEW k \in Keys, WindowRunsOut(k)
      PROVE  UNCHANGED <<attempts, lease>>
  BY <1>8 DEF WindowRunsOut, deliveryVars, lockVars
<1>9. UNCHANGED coordVars => UNCHANGED <<attempts, lease>>
  BY DEF coordVars, deliveryVars, lockVars
<1> QED BY <1>1, <1>2, <1>3, <1>4, <1>5, <1>6, <1>7, <1>8, <1>9 DEF CoordNext, Advance

\* Mutual exclusion by token, for any number of messages, attempts and leases: the
\* lease in the table belongs to an attempt that is still under way, and whoever works
\* on beyond its own lease holds an older token.
THEOREM LateHoldersAreFencedOff == CoordSpec => []Fenced
<1>1. CoordInit => LiveOwner
  BY DEF CoordInit, LiveOwner
<1>2. DInv /\ LockInv /\ LiveOwner /\ [CoordNext]_coordVars => LiveOwner'
  BY OwnerStep
<1>3. LockInv /\ LiveOwner => LeaseHasLiveOwner
  BY DEF LockInv, LeaseTable, LiveOwner, LeaseHasLiveOwner
<1>4. LockInv => NewestTokenHolds
  BY DEF LockInv, LockTypes, LeaseTable, Tokens, Owners, Leased, NewestTokenHolds
<1>5. LockInv /\ LiveOwner => Fenced
  BY <1>3, <1>4 DEF Fenced
<1> QED BY <1>1, <1>2, <1>5, LockInvariant, QueueInvariant, PTL DEF CoordSpec

=============================================================================
