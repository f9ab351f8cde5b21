------------------------ MODULE ConsistencyModelProofs ------------------------
(***************************************************************************)
(* Machine-checked proofs, for any number of reads, writes, followers,     *)
(* lags, sessions and retries, that every consistency model keeps its      *)
(* promise: what a read waited for when it arrived still covers what it is *)
(* held against when it is observed, though commits and acknowledgements   *)
(* went on in between, unless what an earlier attempt left behind ends the *)
(* wait too soon; and that the ledger's count of stale reads and the       *)
(* linearizability of the history agree, by a witness built from the       *)
(* ledger: versions in order, each write before the reads that return it.  *)
(***************************************************************************)
EXTENDS ConsistencyModel, WellFoundedInduction, SequenceTheorems, FiniteSetTheorems, TLAPS

CompletionType == [node : Nodes, attempt : Nat, from : Nat]
RequestType ==
  [state : {"new", "sent", "serving", "answered", "terminal"}, created : Nat,
   node : Nodes, arrived : Nat, waitUntil : Nat, attempts : Nat \ {0}, seen : BOOLEAN,
   left : SUBSET CompletionType]
CommitType == [at : Nat, holders : SUBSET Followers]
OpType == [kind : {"read", "write"}, start : Nat, end : Nat, value : Nat, dropped : BOOLEAN]

Types ==
  /\ model \in Models /\ now \in Nat
  /\ request \in [Requests -> RequestType]
  /\ commits \in Seq(CommitType)
  /\ newest \in [Requests -> [Nodes -> Nat \cup {Unstamped}]]
  /\ pending \in [Requests -> [Nodes -> [version : Nat, op : Nat]]]
  /\ history \in Seq(OpType)

\* Commits are in the past.
Past == \A v \in DOMAIN commits : commits[v].at <= now

\* A version is known to someone only once it is committed.
Known(acks) == \A a \in acks : a.at \in Nat /\ a.version \in 0 .. Len(commits)
Existing ==
  /\ Known(writeAcks) /\ Known(readAcks)
  /\ \A r \in Requests : \A n \in Nodes :
       /\ newest[r][n] <= Len(commits)
       /\ pending[r][n].version <= Len(commits)

\* By the time t, follower n has applied version v.
Covered(v, n, t) == v = 0 \/ ApplyAt(v, n) <= t

\* What a read was to find applied is applied when its wait is over.
Waits(r) ==
  LET at == request[r]
      n == at.node
  IN  at.state = "serving" /\ at.seen =>
        /\ newest[r][n] # Unstamped
        /\ n \in Followers =>
             /\ model = "strong" => Covered(newest[r][n], n, at.waitUntil)
             /\ model = "read-your-writes" =>
                  Covered(FloorBefore(writeAcks, r, at.created), n, at.waitUntil)
             /\ model = "monotonic-reads" =>
                  Covered(FloorBefore(readAcks, r, at.created), n, at.waitUntil)

Waiting == \A r \in Reads : Waits(r)
CreatedBefore == \A r \in Requests : request[r].created <= now

Inv == Types /\ Past /\ Existing /\ Waiting /\ CreatedBefore

-----------------------------------------------------------------------------
(* The newest version of a set *)

\* A bounded set of versions that is not empty has a newest one.
LEMMA NewestExists ==
  ASSUME NEW N \in Nat, NEW S, S \subseteq 0 .. N, S # {}
  PROVE  NewestOf(S) \in S /\ \A w \in S : w <= NewestOf(S)
<1> DEFINE T == {N - v : v \in S}
<1>1. T \subseteq Nat
  <2> SUFFICES ASSUME NEW v \in S  PROVE N - v \in Nat
    OBVIOUS
  <2>1. v \in 0 .. N
    OBVIOUS
  <2> QED BY <2>1, SMT
<1>2. T # {}
  OBVIOUS
<1>3. \E x \in T : \A y \in T : ~ (<<y, x>> \in OpToRel(<, Nat))
  <2> HIDE DEF T
  <2> QED BY <1>1, <1>2, NatLessThanWellFounded, WFMin
<1>4. PICK v \in S : \A w \in S : ~ (<<N - w, N - v>> \in OpToRel(<, Nat))
  BY <1>3
<1>5. ASSUME NEW w \in S  PROVE w <= v
  <2>1. ~ (<<N - w, N - v>> \in {ss \in Nat \X Nat : ss[1] < ss[2]})
    BY <1>4 DEF OpToRel
  <2>2. v \in 0 .. N /\ w \in 0 .. N
    OBVIOUS
  <2>3. N - w \in Nat /\ N - v \in Nat
    BY <2>2, SMT
  <2>4. ~ (N - w < N - v)
    BY <2>1, <2>3
  <2> QED BY <2>2, <2>4, SMT
<1> QED
  BY <1>5 DEF NewestOf

-----------------------------------------------------------------------------
(* Versions under the invariant *)

\* What had been committed by some time is one of the versions there are, and by now
\* it is all of them.
LEMMA Committed ==
  ASSUME Types, Past, NEW at
  PROVE  LatestCommitted(at) \in 0 .. Len(commits) /\ LatestCommitted(now) = Len(commits)
<1> DEFINE By(t) == {0} \cup {v \in DOMAIN commits : commits[v].at <= t}
<1>1. Len(commits) \in Nat /\ DOMAIN commits = 1 .. Len(commits)
  BY DEF Types
<1>2. \A t : By(t) \subseteq 0 .. Len(commits) /\ By(t) # {}
  BY <1>1, SMT
<1>3. \A t : NewestOf(By(t)) \in By(t) /\ \A w \in By(t) : w <= NewestOf(By(t))
  <2> HIDE DEF By
  <2> QED BY <1>1, <1>2, NewestExists
<1>4. LatestCommitted(at) \in 0 .. Len(commits) /\ LatestCommitted(now) \in 0 .. Len(commits)
  BY <1>2, <1>3 DEF LatestCommitted
<1>5. Len(commits) \in By(now)
  BY <1>1, SMT DEF Past
<1>6. Len(commits) <= LatestCommitted(now)
  BY <1>3, <1>5 DEF LatestCommitted
<1> QED
  BY <1>1, <1>4, <1>6, SMT

\* A follower shows at least every version it has applied, and none that is not
\* committed.
LEMMA Applied ==
  ASSUME Types, NEW n, NEW v \in 0 .. Len(commits), Covered(v, n, now)
  PROVE  AppliedOnFollower(n) \in 0 .. Len(commits) /\ v <= AppliedOnFollower(n)
<1> DEFINE Had == {0} \cup {w \in DOMAIN commits : ApplyAt(w, n) <= now}
<1>1. Len(commits) \in Nat /\ DOMAIN commits = 1 .. Len(commits)
  BY DEF Types
<1>2. Had \subseteq 0 .. Len(commits) /\ Had # {}
  BY <1>1, SMT
<1>3. v \in Had
  BY <1>1, SMT DEF Covered
<1>4. NewestOf(Had) \in Had /\ \A w \in Had : w <= NewestOf(Had)
  <2> HIDE DEF Had
  <2> QED BY <1>1, <1>2, NewestExists
<1> QED
  BY <1>2, <1>3, <1>4 DEF AppliedOnFollower

\* A session's floor is one of the versions there are.
LEMMA FloorKnown ==
  ASSUME Types, NEW acks, Known(acks), NEW r, NEW created
  PROVE  FloorBefore(acks, r, created) \in 0 .. Len(commits)
<1> DEFINE F == {0} \cup {a.version : a \in {b \in acks :
                  b.session = Session[r] /\ b.session # NoSession /\ b.at < created}}
<1>1. F \subseteq 0 .. Len(commits) /\ F # {} /\ Len(commits) \in Nat
  BY DEF Known, Types
<1>2. NewestOf(F) \in F
  <2> HIDE DEF F
  <2> QED BY <1>1, NewestExists
<1> QED
  BY <1>1, <1>2 DEF FloorBefore

\* What a read is made to wait for is one of the versions there are.
LEMMA RequiredKnown ==
  ASSUME Inv, NEW r, NEW n, NEW created
  PROVE  Required(r, n, created) \in 0 .. Len(commits)
<1>1. model \in {"eventual", "monotonic-reads", "read-your-writes", "strong"}
  BY ConsistencyAssumption DEF Inv, Types
<1>2. 0 \in 0 .. Len(commits)
  BY SMT DEF Inv, Types
<1>3. LatestCommitted(now) \in 0 .. Len(commits)
  BY Committed DEF Inv
<1>4. /\ FloorBefore(writeAcks, r, created) \in 0 .. Len(commits)
      /\ FloorBefore(readAcks, r, created) \in 0 .. Len(commits)
  BY FloorKnown DEF Inv, Existing
<1> QED
  BY <1>1, <1>2, <1>3, <1>4 DEF Required

\* A follower applies a version at a moment that can be waited for.
LEMMA ApplyAtType ==
  ASSUME Types, NEW v \in 1 .. Len(commits), NEW n \in Followers
  PROVE  ApplyAt(v, n) \in Nat
<1>1. commits[v] \in CommitType
  BY SMT DEF Types
<1>2. commits[v].at \in Nat /\ Lag[n] \in Nat
  BY <1>1, ConsistencyAssumption DEF CommitType
<1> QED
  BY <1>2, SMT DEF ApplyAt

-----------------------------------------------------------------------------
(* Steps *)

\* A read that nothing happens to goes on waiting for what it has to wait for: new
\* commits leave the old ones alone, and acknowledgements that come after it was
\* created do not raise its floor.
LEMMA WaitsStay ==
  ASSUME Inv, NEW r \in Reads, NEW more, NEW moreReads,
         request'[r] = request[r], newest'[r] = newest[r], model' = model,
         \A v \in 1 .. Len(commits) : commits'[v] = commits[v],
         writeAcks' = writeAcks \cup more, readAcks' = readAcks \cup moreReads,
         \A a \in more \cup moreReads : a.at = now
  PROVE  Waits(r)'
<1> DEFINE created == request[r].created
<1>1. created \in Nat /\ created <= now /\ now \in Nat
  BY DEF Inv, Types, CreatedBefore, RequestType, Requests
<1>2. /\ FloorBefore(writeAcks', r, created) = FloorBefore(writeAcks, r, created)
      /\ FloorBefore(readAcks', r, created) = FloorBefore(readAcks, r, created)
  <2> SUFFICES ASSUME NEW acks, NEW add, \A a \in add : a.at = now
               PROVE  FloorBefore(acks \cup add, r, created) = FloorBefore(acks, r, created)
    OBVIOUS
  <2>1. \A a \in add : ~(a.at < created)
    BY <1>1
  <2>2. {b \in acks \cup add : /\ b.session = Session[r] /\ b.session # NoSession
                               /\ b.at < created}
        = {b \in acks : b.session = Session[r] /\ b.session # NoSession /\ b.at < created}
    BY <2>1
  <2> QED BY <2>2 DEF FloorBefore
<1>3. \A v \in 0 .. Len(commits) : \A n, t : Covered(v, n, t) => Covered(v, n, t)'
  <2> SUFFICES ASSUME NEW v \in 0 .. Len(commits), NEW n, NEW t, Covered(v, n, t), v # 0
               PROVE  ApplyAt(v, n)' <= t
    BY DEF Covered
  <2>1. commits'[v] = commits[v]
    BY SMT DEF Inv, Types
  <2> QED
    BY <2>1 DEF Covered, ApplyAt
<1>4. request[r].node \in Nodes /\ newest[r] \in [Nodes -> Nat \cup {Unstamped}]
  BY DEF Inv, Types, RequestType, Requests
<1>5. newest[r][request[r].node] # Unstamped =>
        newest[r][request[r].node] \in 0 .. Len(commits)
  <2>1. newest[r][request[r].node] <= Len(commits) /\ Len(commits) \in Nat
    BY <1>4 DEF Inv, Existing, Requests, Types
  <2> QED BY <1>4, <2>1, SMT
<1>6. /\ FloorBefore(writeAcks, r, created) \in 0 .. Len(commits)
      /\ FloorBefore(readAcks, r, created) \in 0 .. Len(commits)
  BY FloorKnown DEF Inv, Existing
<1>7. Waits(r)
  BY DEF Inv, Waiting
<1> QED
  BY <1>2, <1>3, <1>5, <1>6, <1>7 DEF Waits

\* So does a read while nothing changes that its wait depends on.
LEMMA WaitsUntouched ==
  ASSUME Inv, NEW r \in Reads, request'[r] = request[r], newest'[r] = newest[r],
         model' = model, commits' = commits, writeAcks' = writeAcks, readAcks' = readAcks
  PROVE  Waits(r)'
<1>1. Waits(r)
  BY DEF Inv, Waiting
<1> QED
  BY <1>1 DEF Waits, Covered, ApplyAt, FloorBefore

\* A request that is not at a node waits for nothing.
LEMMA AwayWaits ==
  ASSUME NEW r, request'[r].state # "serving" \/ ~request'[r].seen
  PROVE  Waits(r)'
BY DEF Waits

\* On arrival the others stay as they are, and the request was created before.
LEMMA Arrival ==
  ASSUME Inv, NEW r \in Requests, NEW n \in Nodes, NEW waitUntil \in Nat,
         NEW seen \in BOOLEAN, NEW created \in Created(r),
         ArriveAt(r, n, created, waitUntil, seen)
  PROVE  /\ created \in Nat /\ created <= now
         /\ request' \in [Requests -> RequestType]
         /\ \A s \in Requests : s # r => request'[s] = request[s]
         /\ request'[r].state = "serving" /\ request'[r].created = created
         /\ request'[r].node = n /\ request'[r].waitUntil = waitUntil
         /\ request'[r].seen = seen
<1>1. request \in [Requests -> RequestType] /\ now \in Nat /\ request[r].created <= now
  BY DEF Inv, Types, CreatedBefore
<1>2. created \in Nat /\ created <= now
  <2>1. CASE request[r].state = "new"
    <3>1. PICK hop \in Hops : hop <= now /\ created = now - hop
      BY <2>1 DEF Created
    <3>2. hop \in Nat
      BY ConsistencyAssumption
    <3> QED BY <1>1, <3>1, <3>2, SMT
  <2>2. CASE request[r].state # "new"
    BY <1>1, <2>2 DEF Created, RequestType
  <2> QED BY <2>1, <2>2
<1>3. request' = [request EXCEPT ![r] =
         [@ EXCEPT !.state = "serving", !.created = created, !.node = n,
                   !.arrived = now, !.waitUntil = waitUntil, !.seen = seen]]
  BY DEF ArriveAt
<1>4. request'[r] = [request[r] EXCEPT !.state = "serving", !.created = created, !.node = n,
                   !.arrived = now, !.waitUntil = waitUntil, !.seen = seen]
  BY <1>1, <1>3
<1>5. request[r] \in RequestType
  BY <1>1
<1>6. request'[r] \in RequestType
  BY <1>1, <1>2, <1>4, <1>5 DEF RequestType
<1> QED
  BY <1>1, <1>2, <1>3, <1>4, <1>5, <1>6 DEF RequestType

\* An arriving read waits long enough for what its model requires.
LEMMA ArriveReadStep ==
  ASSUME Inv, NEW r \in Requests, NEW n \in Nodes, ArriveRead(r, n)
  PROVE  Inv'
<1>0. PICK created \in Created(r) : \E required, waitUntil :
        /\ required = Required(r, n, created)
        /\ waitUntil = IF n \in Followers /\ required > 0 THEN ApplyAt(required, n) ELSE 0
        /\ ArriveAt(r, n, created, waitUntil, TRUE)
  BY DEF ArriveRead
<1>1. PICK required, waitUntil :
        /\ required = Required(r, n, created)
        /\ waitUntil = IF n \in Followers /\ required > 0 THEN ApplyAt(required, n) ELSE 0
        /\ ArriveAt(r, n, created, waitUntil, TRUE)
  BY <1>0
<1>2. r \in Reads /\ newest' = [newest EXCEPT ![r][n] = LatestCommitted(now)]
      /\ UNCHANGED <<model, now, commits, pending, history, writeAcks, readAcks>>
  BY DEF ArriveRead
<1>3. required \in 0 .. Len(commits) /\ Len(commits) \in Nat
  BY <1>1, RequiredKnown DEF Inv, Types
<1>4. waitUntil \in Nat
  <2>1. required > 0 => required \in 1 .. Len(commits)
    BY <1>3, SMT
  <2>2. n \in Followers /\ required > 0 => ApplyAt(required, n) \in Nat
    BY <2>1, ApplyAtType DEF Inv
  <2> QED BY <1>1, <2>2
<1>5. /\ created \in Nat /\ created <= now
      /\ request' \in [Requests -> RequestType]
      /\ \A s \in Requests : s # r => request'[s] = request[s]
      /\ request'[r].state = "serving" /\ request'[r].created = created
      /\ request'[r].node = n /\ request'[r].waitUntil = waitUntil
      /\ request'[r].seen = TRUE
  BY <1>1, <1>4, Arrival
<1>6. LatestCommitted(now) \in 0 .. Len(commits)
  BY Committed DEF Inv
<1>7. /\ newest' \in [Requests -> [Nodes -> Nat \cup {Unstamped}]]
      /\ newest'[r][n] = LatestCommitted(now)
      /\ \A s \in Requests : s # r => newest'[s] = newest[s]
      /\ \A s \in Requests, m \in Nodes : newest'[s][m] <= Len(commits)
  BY <1>2, <1>3, <1>6 DEF Inv, Types, Existing
<1>8. Types'
  BY <1>2, <1>5, <1>7 DEF Inv, Types
<1>9. Past' /\ Existing' /\ CreatedBefore'
  BY <1>2, <1>5, <1>7 DEF Inv, Past, Existing, Known, CreatedBefore
<1>10. Waits(r)'
  <2>1. n \in Followers => required = 0 \/ waitUntil = ApplyAt(required, n)
    BY <1>1, <1>3, SMT
  <2>2. ApplyAt(required, n)' = ApplyAt(required, n)
    BY <1>2 DEF ApplyAt
  <2>4. n \in Followers => Covered(required, n, waitUntil)'
    BY <1>3, <1>4, <2>1, <2>2 DEF Covered
  <2>5. newest'[r][n] # Unstamped
    BY <1>6, <1>7 DEF Unstamped
  <2>6. /\ model' = "strong" => required = newest'[r][n]
        /\ model' = "read-your-writes" => required = FloorBefore(writeAcks', r, created)
        /\ model' = "monotonic-reads" => required = FloorBefore(readAcks', r, created)
    BY <1>1, <1>2, <1>7 DEF Required
  <2> QED
    BY <1>5, <2>4, <2>5, <2>6 DEF Waits
<1>11. Waiting'
  <2> SUFFICES ASSUME NEW s \in Reads, s # r  PROVE Waits(s)'
    BY <1>10 DEF Waiting
  <2>1. request'[s] = request[s] /\ newest'[s] = newest[s]
    BY <1>5, <1>7 DEF Requests
  <2> QED
    BY <1>2, <2>1, WaitsUntouched
<1> QED
  BY <1>8, <1>9, <1>11 DEF Inv

\* A write, or a read that the trait does not see, waits for nothing.
LEMMA OtherArrivalStep ==
  ASSUME Inv, NEW r \in Requests, NEW n \in Nodes, ArriveWrite(r, n) \/ ArriveFrozen(r, n)
  PROVE  Inv'
<1>1. PICK created \in Created(r), seen \in BOOLEAN :
        /\ ArriveAt(r, n, created, 0, seen) /\ (r \in Reads => ~seen)
  BY ConsistencyAssumption DEF ArriveWrite, ArriveFrozen
<1>2. UNCHANGED <<model, now, ledger>>
  BY DEF ArriveWrite, ArriveFrozen
<1>3. /\ created \in Nat /\ created <= now
      /\ request' \in [Requests -> RequestType]
      /\ \A s \in Requests : s # r => request'[s] = request[s]
      /\ request'[r].created = created /\ request'[r].seen = seen
  BY <1>1, Arrival
<1>4. Types'
  BY <1>2, <1>3 DEF Inv, Types, ledger
<1>5. Past' /\ Existing' /\ CreatedBefore'
  BY <1>2, <1>3 DEF Inv, Past, Existing, Known, CreatedBefore, ledger
<1>6. Waiting'
  <2> SUFFICES ASSUME NEW s \in Reads  PROVE Waits(s)'
    BY DEF Waiting
  <2>1. CASE s = r
    BY <1>1, <1>3, <2>1, AwayWaits
  <2>2. CASE s # r
    <3>1. request'[s] = request[s] /\ newest'[s] = newest[s]
      BY <1>2, <1>3, <2>2 DEF Requests, ledger
    <3>2. UNCHANGED <<model, commits, writeAcks, readAcks>>
      BY <1>2 DEF ledger
    <3> QED
      BY <3>1, <3>2, WaitsUntouched
  <2> QED BY <2>1, <2>2
<1> QED
  BY <1>4, <1>5, <1>6 DEF Inv

\* A request that leaves a node, for good or not, waits for nothing.
LEMMA Leaving ==
  ASSUME Inv, NEW r \in Requests, NEW new \in RequestType, new.state # "serving",
         new.created <= now, request' = [request EXCEPT ![r] = new], now' = now
  PROVE  /\ request' \in [Requests -> RequestType] /\ CreatedBefore'
         /\ r \in Reads => Waits(r)'
         /\ \A s \in Requests : s # r => request'[s] = request[s]
<1>1. request'[r] = new /\ \A s \in Requests : s # r => request'[s] = request[s]
  BY DEF Inv, Types
<1>2. request' \in [Requests -> RequestType]
  BY DEF Inv, Types
<1>3. CreatedBefore'
  BY <1>1 DEF Inv, CreatedBefore
<1> QED
  BY <1>1, <1>2, <1>3, AwayWaits

\* On its way, a request keeps what it is.
LEMMA BetweenType ==
  ASSUME Inv, NEW r \in Requests, NEW state \in {"sent", "answered"}
  PROVE  /\ Between(r, state) \in RequestType /\ Between(r, state).state # "serving"
         /\ Between(r, state).created <= now
<1>1. request[r] \in RequestType /\ request[r].created <= now
  BY DEF Inv, Types, CreatedBefore
<1> QED
  BY <1>1 DEF Between, RequestType, Nodes

\* A completion is that of an attempt at a node, and comes at some time.
LEMMA CompletionIsTyped ==
  ASSUME Inv, NEW r \in Requests
  PROVE  Completion(r) \in CompletionType
<1>1. request[r] \in RequestType
  BY DEF Inv, Types
<1>2. /\ request[r].node \in Nodes /\ request[r].attempts \in Nat
      /\ request[r].waitUntil \in Nat /\ request[r].arrived + 1 \in Nat
  BY <1>1 DEF RequestType
<1> QED
  BY <1>2 DEF Completion, CompletionType

\* After its service a request is on its way, the same as before but for what is left
\* behind: that is what was coming.
LEMMA Served ==
  ASSUME Inv, NEW r \in Requests, ServiceEnds(r)
  PROVE  \E new \in RequestType :
           /\ request' = [request EXCEPT ![r] = new]
           /\ new.state = "answered" /\ new.created = request[r].created
           /\ \E c \in request[r].left \cup {Completion(r)} :
                /\ c.node = request[r].node
                /\ new.left = (request[r].left \cup {Completion(r)}) \ {c}
<1> DEFINE coming == request[r].left \cup {Completion(r)}
<1>1. PICK c \in coming : /\ c.node = request[r].node
                          /\ request' = [request EXCEPT ![r] =
                               [Between(r, "answered") EXCEPT !.left = coming \ {c}]]
  BY DEF ServiceEnds
<1>2. Between(r, "answered") \in RequestType
  BY BetweenType
<1>3. Between(r, "answered").state = "answered"
      /\ Between(r, "answered").created = request[r].created
  <2>1. request[r] \in RequestType
    BY DEF Inv, Types
  <2> QED BY <2>1 DEF Between, RequestType
<1>4. coming \ {c} \subseteq CompletionType
  <2>1. request[r].left \subseteq CompletionType
    BY DEF Inv, Types, RequestType
  <2> QED BY <2>1, CompletionIsTyped
<1> DEFINE new == [Between(r, "answered") EXCEPT !.left = coming \ {c}]
<1>5. /\ new \in RequestType /\ new.left = coming \ {c}
      /\ new.state = "answered" /\ new.created = request[r].created
  <2> HIDE DEF coming
  <2> QED BY <1>2, <1>3, <1>4 DEF RequestType
<1> QED
  BY <1>1, <1>5

\* A request that is retried is on its way again, and may have left its completion behind.
LEMMA Retried ==
  ASSUME Inv, NEW r \in Requests, Retry(r)
  PROVE  \E new \in RequestType :
           /\ request' = [request EXCEPT ![r] = new]
           /\ new.state = "sent" /\ new.created = request[r].created
           /\ \E more \in SUBSET LeftBehind(r) : new.left = request[r].left \cup more
<1>1. PICK more \in SUBSET LeftBehind(r) :
        request' = [request EXCEPT ![r] =
          [Between(r, "sent") EXCEPT !.attempts = @ + 1, !.left = @ \cup more]]
  BY DEF Retry
<1>2. Between(r, "sent") \in RequestType
  BY BetweenType
<1>3. /\ Between(r, "sent").state = "sent"
      /\ Between(r, "sent").created = request[r].created
      /\ Between(r, "sent").left = request[r].left
      /\ request[r].left \subseteq CompletionType
  <2>1. request[r] \in RequestType
    BY DEF Inv, Types
  <2> QED BY <2>1 DEF Between, RequestType
<1>4. more \subseteq CompletionType
  BY CompletionIsTyped DEF LeftBehind
<1> DEFINE between == Between(r, "sent")
           new == [between EXCEPT !.attempts = @ + 1, !.left = @ \cup more]
<1>5. /\ new \in RequestType /\ new.left = request[r].left \cup more
      /\ new.state = "sent" /\ new.created = request[r].created
  <2> HIDE DEF between
  <2>1. between.attempts + 1 \in Nat \ {0}
    BY <1>2 DEF RequestType, between
  <2>2. between.left \cup more \subseteq CompletionType
    BY <1>3, <1>4 DEF between
  <2> QED BY <1>2, <1>3, <2>1, <2>2 DEF RequestType, between
<1> QED
  BY <1>1, <1>5

\* A dropped operation leaves a history.
LEMMA DropType ==
  ASSUME NEW h \in Seq(OpType), NEW p
  PROVE  DropOperation(h, p) \in Seq(OpType)
<1>1. Dropped \in OpType
  BY ConsistencyAssumption, SMT DEF Dropped, OpType, Never
<1>2. [h EXCEPT ![p.op] = Dropped] \in [1 .. Len(h) -> OpType]
  <2> DEFINE i == p.op
  <2>1. h \in [1 .. Len(h) -> OpType]
    BY SMT
  <2> HIDE DEF i
  <2>2. [h EXCEPT ![i] = Dropped] \in [1 .. Len(h) -> OpType]
    BY <1>1, <2>1
  <2> QED BY <2>2 DEF i
<1>3. [1 .. Len(h) -> OpType] \subseteq Seq(OpType)
  BY SeqDef, SMT
<1> QED
  BY <1>2, <1>3 DEF DropOperation

\* An operation on an existing version is recorded as one.
LEMMA Recording ==
  ASSUME Types, Existing, NEW r \in Requests, NEW kind \in {"read", "write"},
         NEW version \in Nat, Record(r, kind, version)
  PROVE  /\ history' \in Seq(OpType)
         /\ pending' \in [Requests -> [Nodes -> [version : Nat, op : Nat]]]
         /\ \A s \in Requests, n \in Nodes :
              pending'[s][n].version \in {pending[s][n].version, version}
<1> DEFINE n == request[r].node
           kept == DropOperation(history, pending[r][n])
           op == [kind |-> kind, start |-> request[r].created, end |-> Never,
                  value |-> version, dropped |-> FALSE]
           new == [version |-> version, op |-> Len(history) + 1]
<1>1. request[r].created \in Nat /\ n \in Nodes
  BY DEF Types, RequestType
<1>2. kept \in Seq(OpType)
  BY DropType DEF Types
<1>3. op \in OpType
  BY <1>1, ConsistencyAssumption, SMT DEF OpType, Never
<1>4. history' = Append(kept, op) /\ pending' = [pending EXCEPT ![r][n] = new]
  BY DEF Record
<1>5. history' \in Seq(OpType)
  <2> HIDE DEF kept, op
  <2> QED BY <1>2, <1>3, <1>4
<1>6. new \in [version : Nat, op : Nat] /\ new.version = version
  BY DEF Types
<1>7. pending \in [Requests -> [Nodes -> [version : Nat, op : Nat]]]
  BY DEF Types
<1> HIDE DEF new, n
<1>8. pending' \in [Requests -> [Nodes -> [version : Nat, op : Nat]]]
  BY <1>4, <1>6, <1>7
<1>9. \A s \in Requests, m \in Nodes :
         pending'[s][m].version \in {pending[s][m].version, version}
  BY <1>4, <1>6, <1>7
<1> QED
  BY <1>5, <1>8, <1>9

\* What a read finds is one of the versions there are.
LEMMA ObservedKnown ==
  ASSUME Inv, NEW n
  PROVE  (IF n = Leader THEN LatestCommitted(now) ELSE AppliedOnFollower(n)) \in 0 .. Len(commits)
<1>1. 0 \in 0 .. Len(commits) /\ Covered(0, n, now)
  BY SMT DEF Inv, Types, Covered
<1> QED
  BY <1>1, Committed, Applied DEF Inv

\* An observation adds no version and ends its own wait only.
LEMMA ObserveReadStep ==
  ASSUME Inv, NEW r \in Requests, ObserveRead(r)
  PROVE  Inv'
<1> DEFINE n == request[r].node
<1>1. PICK observed \in 0 .. Len(commits) : Record(r, "read", observed)
  BY ObservedKnown DEF ObserveRead
<1>2. /\ ServiceEnds(r) /\ newest' = [newest EXCEPT ![r][n] = Unstamped]
      /\ UNCHANGED <<model, now, commits, writeAcks, readAcks>>
  BY DEF ObserveRead
<1>3. Len(commits) \in Nat /\ observed \in Nat /\ observed <= Len(commits)
  BY SMT DEF Inv, Types
<1>4. /\ history' \in Seq(OpType)
      /\ pending' \in [Requests -> [Nodes -> [version : Nat, op : Nat]]]
      /\ \A s \in Requests, m \in Nodes :
           pending'[s][m].version \in {pending[s][m].version, observed}
  BY <1>1, <1>3, Recording DEF Inv
<1>5. /\ request' \in [Requests -> RequestType] /\ CreatedBefore'
      /\ r \in Reads => Waits(r)'
      /\ \A s \in Requests : s # r => request'[s] = request[s]
  <2>1. PICK new \in RequestType :
          request' = [request EXCEPT ![r] = new] /\ new.state = "answered"
          /\ new.created = request[r].created
    BY <1>2, Served
  <2> QED BY <1>2, <2>1, Leaving DEF Inv, CreatedBefore
<1>6. /\ newest' \in [Requests -> [Nodes -> Nat \cup {Unstamped}]]
      /\ \A s \in Requests : s # r => newest'[s] = newest[s]
      /\ \A s \in Requests, m \in Nodes : newest'[s][m] <= Len(commits)
  <2> HIDE DEF n
  <2>1. Unstamped <= Len(commits)
    BY <1>3 DEF Unstamped
  <2> QED BY <1>2, <2>1 DEF Inv, Types, Existing
<1>7. Types' /\ Past'
  BY <1>2, <1>4, <1>5, <1>6 DEF Inv, Types, Past
<1>8. Existing'
  <2> HIDE DEF n
  <2>1. Known(writeAcks)' /\ Known(readAcks)'
    BY <1>2 DEF Inv, Existing, Known
  <2>2. \A s \in Requests, m \in Nodes : pending'[s][m].version <= Len(commits)
    BY <1>3, <1>4 DEF Inv, Existing
  <2>3. commits' = commits
    BY <1>2
  <2> QED BY <1>6, <2>1, <2>2, <2>3 DEF Existing
<1>9. Waiting'
  <2> SUFFICES ASSUME NEW s \in Reads, s # r  PROVE Waits(s)'
    BY <1>5 DEF Waiting
  <2> QED BY <1>2, <1>5, <1>6, WaitsUntouched DEF Requests
<1> QED
  BY <1>5, <1>7, <1>8, <1>9 DEF Inv

\* A commit adds the newest version and leaves the old ones alone.
LEMMA CommitWriteStep ==
  ASSUME Inv, NEW r \in Requests, CommitWrite(r)
  PROVE  Inv'
<1>1. /\ ServiceEnds(r) /\ r \in Writes
      /\ UNCHANGED <<model, now, newest, writeAcks, readAcks>>
  BY DEF CommitWrite
<1>2. /\ request' \in [Requests -> RequestType] /\ CreatedBefore'
      /\ \A s \in Requests : s # r => request'[s] = request[s]
  <2>1. PICK new \in RequestType :
          request' = [request EXCEPT ![r] = new] /\ new.state = "answered"
          /\ new.created = request[r].created
    BY <1>1, Served
  <2> QED BY <1>1, <2>1, Leaving DEF Inv, CreatedBefore
<1>3. Len(commits) \in Nat /\ now \in Nat
  BY DEF Inv, Types
<1>4. /\ commits' \in Seq(CommitType) /\ Len(commits) <= Len(commits') /\ Past'
      /\ \A v \in 1 .. Len(commits) : commits'[v] = commits[v]
      /\ history' \in Seq(OpType)
      /\ pending' \in [Requests -> [Nodes -> [version : Nat, op : Nat]]]
      /\ \A s \in Requests, n \in Nodes : pending'[s][n].version <= Len(commits')
  <2>1. CASE request[r].node = Leader
    <3>1. PICK holders \in HeldAtCommit :
            commits' = Append(commits, [at |-> now, holders |-> holders])
      BY <2>1 DEF CommitWrite
    <3>2. [at |-> now, holders |-> holders] \in CommitType
      BY <1>3, ConsistencyAssumption DEF CommitType
    <3>3. commits \in Seq(CommitType)
      BY DEF Inv, Types
    <3> DEFINE new == [at |-> now, holders |-> holders]
    <3>4. new.at = now
      OBVIOUS
    <3> HIDE DEF new
    <3>5. commits' = Append(commits, new) /\ new \in CommitType
      BY <3>1, <3>2 DEF new
    <3>6. /\ commits' \in Seq(CommitType) /\ Len(commits') = Len(commits) + 1
          /\ \A v \in 1 .. Len(commits) : commits'[v] = commits[v]
          /\ commits'[Len(commits) + 1] = new
      BY <3>3, <3>5, SMT
    <3>7. Past'
      <4> SUFFICES ASSUME NEW v \in DOMAIN commits'  PROVE commits'[v].at <= now
        BY <1>1 DEF Past
      <4>1. v \in 1 .. Len(commits) \/ v = Len(commits) + 1
        BY <1>3, <3>6, SMT
      <4>2. v \in 1 .. Len(commits) => commits[v].at <= now
        BY <3>3 DEF Inv, Past
      <4> QED
        BY <1>3, <3>4, <3>6, <4>1, <4>2, SMT
    <3>8. Record(r, "write", Len(commits) + 1) /\ Len(commits) + 1 \in Nat
      BY <1>3, <2>1 DEF CommitWrite
    <3>9. /\ history' \in Seq(OpType)
          /\ pending' \in [Requests -> [Nodes -> [version : Nat, op : Nat]]]
          /\ \A s \in Requests, n \in Nodes :
               pending'[s][n].version \in {pending[s][n].version, Len(commits) + 1}
      BY <3>8, Recording DEF Inv
    <3>10. \A s \in Requests, n \in Nodes : pending'[s][n].version <= Len(commits')
      <4> SUFFICES ASSUME NEW s \in Requests, NEW n \in Nodes
                   PROVE  pending'[s][n].version <= Len(commits')
        OBVIOUS
      <4>1. pending[s][n].version <= Len(commits) /\ pending[s][n].version \in Nat
        BY DEF Inv, Existing, Types
      <4> QED BY <1>3, <3>6, <3>9, <4>1
    <3> QED BY <1>3, <3>6, <3>7, <3>9, <3>10
  <2>2. CASE request[r].node # Leader
    <3>1. UNCHANGED <<commits, history, pending>>
      BY <2>2 DEF CommitWrite
    <3> QED
      BY <1>1, <1>3, <3>1 DEF Inv, Types, Past, Existing
  <2> QED BY <2>1, <2>2
<1>5. Types'
  BY <1>1, <1>2, <1>4 DEF Inv, Types
<1>6. Existing'
  <2>1. Len(commits') \in Nat
    BY <1>4
  <2>2. ASSUME NEW v \in Int, v <= Len(commits)  PROVE v <= Len(commits')
    BY <1>3, <1>4, <2>1, <2>2
  <2>3. \A s \in Requests, n \in Nodes : newest'[s][n] <= Len(commits')
    <3> SUFFICES ASSUME NEW s \in Requests, NEW n \in Nodes
                 PROVE  newest[s][n] <= Len(commits')
      BY <1>1
    <3>1. newest[s][n] \in Nat \cup {Unstamped} /\ newest[s][n] <= Len(commits)
      BY DEF Inv, Types, Existing
    <3>2. newest[s][n] \in Int
      BY <3>1 DEF Unstamped
    <3> QED BY <2>2, <3>1, <3>2
  <2>4. Known(writeAcks)' /\ Known(readAcks)'
    BY <1>1, <1>3, <2>1, <2>2 DEF Inv, Existing, Known
  <2> QED BY <1>4, <2>3, <2>4 DEF Existing
<1>7. Waiting'
  <2> SUFFICES ASSUME NEW s \in Reads  PROVE Waits(s)'
    BY DEF Waiting
  <2>1. s # r /\ s \in Requests
    BY <1>1, ConsistencyAssumption DEF Requests
  <2>2. request'[s] = request[s] /\ newest'[s] = newest[s] /\ model' = model
    BY <1>1, <1>2, <2>1
  <2>3. /\ writeAcks' = writeAcks \cup {} /\ readAcks' = readAcks \cup {}
        /\ \A a \in {} \cup {} : a.at = now
    BY <1>1
  <2>4. \A v \in 1 .. Len(commits) : commits'[v] = commits[v]
    BY <1>4
  <2> QED BY <2>2, <2>3, <2>4, WaitsStay
<1> QED
  BY <1>2, <1>4, <1>5, <1>6, <1>7 DEF Inv

\* A retried attempt waits for nothing any more.
LEMMA RetryStep ==
  ASSUME Inv, NEW r \in Requests, Retry(r)
  PROVE  Inv'
<1>1. PICK new \in RequestType :
        request' = [request EXCEPT ![r] = new] /\ new.state = "sent"
        /\ new.created = request[r].created
  BY Retried
<1>2. new.created <= now /\ UNCHANGED <<model, now, ledger>>
  BY <1>1 DEF Retry, Inv, CreatedBefore
<1>3. /\ request' \in [Requests -> RequestType] /\ CreatedBefore'
      /\ r \in Reads => Waits(r)'
      /\ \A s \in Requests : s # r => request'[s] = request[s]
  BY <1>1, <1>2, Leaving
<1>4. Types' /\ Past' /\ Existing'
  BY <1>2, <1>3 DEF Inv, Types, Past, Existing, Known, ledger
<1>5. Waiting'
  <2> SUFFICES ASSUME NEW s \in Reads, s # r  PROVE Waits(s)'
    BY <1>3 DEF Waiting
  <2> QED BY <1>2, <1>3, WaitsUntouched DEF ledger, Requests
<1> QED
  BY <1>3, <1>4, <1>5 DEF Inv

\* A request that ends leaves nothing behind but what it read, wrote and was told.
LEMMA Ending ==
  ASSUME Inv, NEW r \in Requests, NEW more, NEW moreReads,
         Terminate(r), history' \in Seq(OpType), UNCHANGED <<model, now, commits>>,
         writeAcks' = writeAcks \cup more, readAcks' = readAcks \cup moreReads,
         \A a \in more \cup moreReads : a.at = now /\ a.version \in 0 .. Len(commits)
  PROVE  Inv'
<1> DEFINE new == [Fresh EXCEPT !.state = "terminal"]
           none == [n \in Nodes |-> NoPending]
           unstamped == [n \in Nodes |-> Unstamped]
<1>0. now \in Nat /\ Len(commits) \in Nat
  BY DEF Inv, Types
<1>1. new \in RequestType /\ new.state # "serving" /\ new.created <= now
  <2>1. Fresh \in RequestType /\ Fresh.created = 0
    BY SMT DEF Fresh, RequestType, Nodes
  <2>2. new \in RequestType /\ new.state = "terminal" /\ new.created = Fresh.created
    BY <2>1 DEF RequestType
  <2> HIDE DEF new
  <2> QED BY <1>0, <2>1, <2>2
<1>2. request' = [request EXCEPT ![r] = new]
      /\ newest' = [newest EXCEPT ![r] = unstamped] /\ pending' = [pending EXCEPT ![r] = none]
  BY DEF Terminate
<1>3. /\ none \in [Nodes -> [version : Nat, op : Nat]]
      /\ \A n \in Nodes : none[n].version <= Len(commits)
      /\ unstamped \in [Nodes -> Nat \cup {Unstamped}]
      /\ \A n \in Nodes : unstamped[n] <= Len(commits)
  BY <1>0 DEF NoPending, Unstamped
<1> HIDE DEF new, none, unstamped
<1>4. /\ request' \in [Requests -> RequestType] /\ CreatedBefore'
      /\ r \in Reads => Waits(r)'
      /\ \A s \in Requests : s # r => request'[s] = request[s]
  BY <1>1, <1>2, Leaving
<1>5. /\ newest' \in [Requests -> [Nodes -> Nat \cup {Unstamped}]]
      /\ pending' \in [Requests -> [Nodes -> [version : Nat, op : Nat]]]
      /\ newest'[r] = unstamped /\ pending'[r] = none
      /\ \A s \in Requests : s # r => newest'[s] = newest[s] /\ pending'[s] = pending[s]
  BY <1>2, <1>3 DEF Inv, Types
<1>6. Types' /\ Past'
  BY <1>4, <1>5 DEF Inv, Types, Past
<1>7. Known(writeAcks)' /\ Known(readAcks)'
  BY <1>0 DEF Inv, Existing, Known
<1>8. \A s \in Requests, n \in Nodes :
        newest'[s][n] <= Len(commits) /\ pending'[s][n].version <= Len(commits)
  BY <1>3, <1>5 DEF Inv, Existing
<1>9. Existing'
  BY <1>7, <1>8 DEF Existing
<1>10. Waiting'
  <2> SUFFICES ASSUME NEW s \in Reads, s # r  PROVE Waits(s)'
    BY <1>4 DEF Waiting
  <2>1. request'[s] = request[s] /\ newest'[s] = newest[s]
    BY <1>4, <1>5 DEF Requests
  <2> QED BY <2>1, WaitsStay
<1> QED
  BY <1>4, <1>6, <1>9, <1>10 DEF Inv

\* What a success acknowledges is committed, and acknowledged now.
LEMMA SucceedStep ==
  ASSUME Inv, NEW r \in Requests, Succeed(r)
  PROVE  Inv'
<1>1. Terminate(r) /\ UNCHANGED <<model, now, commits>>
  BY DEF Succeed
<1>2. \A a \in Acks(r) : a.at = now /\ a.version \in 0 .. Len(commits)
  <2> SUFFICES ASSUME NEW n \in Nodes
               PROVE  pending[r][n].version \in 0 .. Len(commits)
    BY DEF Acks
  <2>1. pending[r][n].version \in Nat /\ pending[r][n].version <= Len(commits)
        /\ Len(commits) \in Nat
    BY DEF Inv, Existing, Types
  <2> QED BY <2>1, SMT
<1>3. history' \in Seq(OpType)
  <2> DEFINE closed(i) == IF \E n \in Nodes : pending[r][n].op = i
                            THEN [history[i] EXCEPT !.end = now] ELSE history[i]
  <2>1. history' = [i \in DOMAIN history |-> closed(i)]
    BY DEF Succeed
  <2>2. ASSUME NEW i \in DOMAIN history  PROVE closed(i) \in OpType
    <3>1. history[i] \in OpType /\ now \in Nat
      BY SMT DEF Inv, Types
    <3> QED BY <3>1 DEF OpType
  <2>3. DOMAIN history = 1 .. Len(history) /\ Len(history) \in Nat
    BY DEF Inv, Types
  <2> HIDE DEF closed
  <2>4. history' \in [1 .. Len(history) -> OpType]
    BY <2>1, <2>2, <2>3
  <2> QED BY <2>3, <2>4, SeqDef
<1>4. CASE r \in Writes
  <2>1. writeAcks' = writeAcks \cup Acks(r) /\ readAcks' = readAcks \cup {}
    BY <1>4 DEF Succeed
  <2>2. \A a \in Acks(r) \cup {} : a.at = now /\ a.version \in 0 .. Len(commits)
    BY <1>2
  <2> QED BY <1>1, <1>3, <2>1, <2>2, Ending
<1>5. CASE r \notin Writes
  <2>1. writeAcks' = writeAcks \cup {} /\ readAcks' = readAcks \cup Acks(r)
    BY <1>5 DEF Succeed
  <2>2. \A a \in {} \cup Acks(r) : a.at = now /\ a.version \in 0 .. Len(commits)
    BY <1>2
  <2> QED BY <1>1, <1>3, <2>1, <2>2, Ending
<1> QED
  BY <1>4, <1>5

\* A failure acknowledges nothing.
LEMMA GiveUpStep ==
  ASSUME Inv, NEW r \in Requests, GiveUp(r)
  PROVE  Inv'
<1>1. /\ Terminate(r) /\ UNCHANGED <<model, now, commits>>
      /\ writeAcks' = writeAcks \cup {} /\ readAcks' = readAcks \cup {}
  BY DEF GiveUp
<1>2. history' \in Seq(OpType)
  <2> DEFINE dropped(i) == IF \E n \in Nodes : pending[r][n].op = i
               THEN DropOperation(history, [version |-> 0, op |-> i])[i] ELSE history[i]
  <2>1. history' = [i \in DOMAIN history |-> dropped(i)]
    BY DEF GiveUp
  <2>2. ASSUME NEW i \in DOMAIN history  PROVE dropped(i) \in OpType
    <3>1. history[i] \in OpType
      BY SMT DEF Inv, Types
    <3>2. Dropped \in OpType
      BY ConsistencyAssumption, SMT DEF Dropped, OpType, Never
    <3>3. DropOperation(history, [version |-> 0, op |-> i])[i] \in {history[i], Dropped}
      BY DEF DropOperation, Inv, Types
    <3> QED BY <3>1, <3>2, <3>3
  <2>3. DOMAIN history = 1 .. Len(history) /\ Len(history) \in Nat
    BY DEF Inv, Types
  <2> HIDE DEF dropped
  <2>4. history' \in [1 .. Len(history) -> OpType]
    BY <2>1, <2>2, <2>3
  <2> QED BY <2>3, <2>4, SeqDef
<1>3. \A a \in {} \cup {} : a.at = now /\ a.version \in 0 .. Len(commits)
  OBVIOUS
<1> QED
  BY <1>1, <1>2, <1>3, Ending

\* Time brings no wait to an end too soon.
LEMMA TickStep ==
  ASSUME Inv, Tick
  PROVE  Inv'
<1>1. now \in Nat /\ now' = now + 1 /\ UNCHANGED <<model, request, ledger>>
  BY DEF Inv, Types, Tick
<1>2. Types'
  BY <1>1 DEF Inv, Types, ledger
<1>3. Past'
  <2> SUFFICES ASSUME NEW v \in DOMAIN commits  PROVE commits[v].at <= now + 1
    BY <1>1 DEF Past, ledger
  <2>1. commits[v] \in CommitType /\ commits[v].at <= now
    BY SMT DEF Inv, Types, Past
  <2> QED BY <1>1, <2>1 DEF CommitType
<1>4. Existing'
  BY <1>1 DEF Inv, Existing, Known, ledger
<1>5. CreatedBefore'
  <2> SUFFICES ASSUME NEW r \in Requests  PROVE request[r].created <= now + 1
    BY <1>1 DEF CreatedBefore
  <2>1. request[r].created \in Nat /\ request[r].created <= now
    BY DEF Inv, Types, CreatedBefore, RequestType
  <2> QED BY <1>1, <2>1
<1>6. Waiting'
  <2> SUFFICES ASSUME NEW r \in Reads  PROVE Waits(r)'
    BY DEF Waiting
  <2> QED BY <1>1, WaitsUntouched DEF ledger
<1> QED
  BY <1>2, <1>3, <1>4, <1>5, <1>6 DEF Inv

\* Nothing happened: all is as it was.
LEMMA StutterStep ==
  ASSUME Inv, UNCHANGED consistencyVars
  PROVE  Inv'
<1>1. UNCHANGED <<model, now, request, commits, newest, pending, history, writeAcks, readAcks>>
  BY DEF consistencyVars, ledger
<1>2. Types' /\ Past' /\ Existing' /\ CreatedBefore'
  BY <1>1 DEF Inv, Types, Past, Existing, Known, CreatedBefore
<1>3. Waiting'
  BY <1>1, WaitsUntouched DEF Waiting
<1> QED
  BY <1>2, <1>3 DEF Inv

\* The invariant holds at the start.
LEMMA InitInv ==
  ASSUME Init
  PROVE  Inv
<1>1. Fresh \in RequestType
  BY SMT DEF Fresh, RequestType, Nodes
<1>2. NoPending \in [version : Nat, op : Nat] /\ NoPending.version = 0
  BY DEF NoPending
<1>3. Types
  <2>1. newest \in [Requests -> [Nodes -> Nat \cup {Unstamped}]]
    BY DEF Init
  <2>2. request \in [Requests -> RequestType]
    BY <1>1 DEF Init
  <2>3. pending \in [Requests -> [Nodes -> [version : Nat, op : Nat]]]
    BY <1>2 DEF Init
  <2> QED BY <2>1, <2>2, <2>3 DEF Init, Types
<1>4. Past /\ Existing
  <2>1. Len(commits) = 0 /\ DOMAIN commits = {}
    BY SMT DEF Init
  <2> QED BY <1>2, <2>1 DEF Init, Past, Existing, Known, Unstamped
<1>5. Waiting /\ CreatedBefore
  <2>1. \A r \in Requests : request[r].state = "new" /\ request[r].created = 0
    BY DEF Init, Fresh
  <2> QED BY <2>1 DEF Waiting, Waits, CreatedBefore, Requests, Init
<1> QED
  BY <1>3, <1>4, <1>5 DEF Inv

\* Every step keeps the invariant.
LEMMA NextInv ==
  ASSUME Inv, [Next]_consistencyVars
  PROVE  Inv'
<1>1. ASSUME NEW r \in Requests, ObserveRead(r) \/ CommitWrite(r) \/ Retry(r)
                                   \/ Succeed(r) \/ GiveUp(r)
      PROVE  Inv'
  BY <1>1, ObserveReadStep, CommitWriteStep, RetryStep, SucceedStep, GiveUpStep
<1>2. ASSUME NEW r \in Requests, NEW n \in Nodes,
             ArriveRead(r, n) \/ ArriveWrite(r, n) \/ ArriveFrozen(r, n)
      PROVE  Inv'
  BY <1>2, ArriveReadStep, OtherArrivalStep
<1>3. CASE Tick
  BY <1>3, TickStep
<1>4. CASE Over \/ UNCHANGED consistencyVars
  BY <1>4, StutterStep DEF Over
<1> QED
  BY <1>1, <1>2, <1>3, <1>4 DEF Next

-----------------------------------------------------------------------------
(* Promises *)

\* The promise about one kind of wrong read.
Keeps(r, wrong, promise) ==
  r \in CountedNow(wrong) =>
    request[r].node \in Followers /\ (model = promise => ~request[r].seen \/ CutShort(r))

\* What completes a read before its wait is over is what another attempt left behind.
LEMMA ServedLate ==
  ASSUME Inv, NEW r \in Requests, ServiceEnds(r)
  PROVE  request[r].waitUntil <= now \/ CutShort(r)
<1>1. request[r] \in RequestType /\ now \in Nat
  BY DEF Inv, Types
<1>2. request[r].waitUntil \in Nat /\ request[r].arrived \in Nat
  BY <1>1 DEF RequestType
<1>3. PICK c \in request[r].left \cup {Completion(r)} : c.node = request[r].node /\ c.from <= now
  BY DEF ServiceEnds
<1>4. CASE c \in request[r].left
  BY <1>1, <1>2, <1>3, <1>4 DEF CutShort
<1>5. CASE c = Completion(r)
  <2>1. Completion(r).from <= now
    BY <1>3, <1>5
  <2>2. Completion(r).from = IF request[r].waitUntil > request[r].arrived
                               THEN request[r].waitUntil ELSE request[r].arrived + 1
    BY DEF Completion
  <2> QED BY <1>1, <1>2, <2>1, <2>2
<1> QED
  BY <1>3, <1>4, <1>5

\* An observation breaks no promise: whatever the wait covered is applied.
LEMMA ObservationKeeps ==
  ASSUME Inv, NEW q \in Requests, ObserveRead(q), NEW r \in Reads
  PROVE  /\ Keeps(r, "stale", "strong") /\ Keeps(r, "ryw", "read-your-writes")
         /\ Keeps(r, "monotonic", "monotonic-reads")
<1> DEFINE n == request[q].node
           observed == IF n = Leader THEN LatestCommitted(now) ELSE AppliedOnFollower(n)
           baseline == IF newest[q][n] = Unstamped
                         THEN LatestCommitted(request[q].arrived) ELSE newest[q][n]
           written == FloorBefore(writeAcks, q, request[q].created)
           read == FloorBefore(readAcks, q, request[q].created)
<1>1. /\ r \in CountedNow("stale") => r = q /\ observed < baseline
      /\ r \in CountedNow("ryw") => r = q /\ observed < written
      /\ r \in CountedNow("monotonic") => r = q /\ observed < read
  BY DEF ObserveRead, CountedNow, Attempt
<1>2. /\ q \in Reads /\ n \in Nodes /\ Len(commits) \in Nat
      /\ request[q].state = "serving"
      /\ request[q].waitUntil <= now \/ CutShort(q)
      /\ request[q].waitUntil \in Nat /\ now \in Nat /\ request[q].seen \in BOOLEAN
  <2>1. request[q] \in RequestType /\ now \in Nat /\ Len(commits) \in Nat
    BY DEF Inv, Types
  <2>2. ServiceEnds(q)
    BY DEF ObserveRead
  <2> QED BY <2>1, <2>2, ServedLate DEF ObserveRead, ServiceEnds, RequestType
<1>3. /\ baseline \in 0 .. Len(commits) /\ written \in 0 .. Len(commits)
      /\ read \in 0 .. Len(commits)
  <2>1. newest[q][n] \in Nat \cup {Unstamped} /\ newest[q][n] <= Len(commits)
    BY <1>2 DEF Inv, Types, Existing
  <2>2. newest[q][n] # Unstamped => newest[q][n] \in 0 .. Len(commits)
    BY <1>2, <2>1, SMT
  <2>3. baseline \in 0 .. Len(commits)
    BY <2>2, Committed DEF Inv
  <2> QED BY <2>3, FloorKnown DEF Inv, Existing
<1>4. CASE n = Leader
  <2>1. observed = Len(commits)
    BY <1>4, Committed DEF Inv
  <2> HIDE DEF n, observed, baseline, written, read
  <2>2. ~(observed < baseline) /\ ~(observed < written) /\ ~(observed < read)
    BY <1>2, <1>3, <2>1, SMT
  <2> QED BY <1>1, <2>2 DEF Keeps
<1>5. CASE n # Leader
  <2>1. n \in Followers /\ observed = AppliedOnFollower(n)
    BY <1>2, <1>5 DEF Nodes
  <2>2. Waits(q)
    BY <1>2 DEF Inv, Waiting
  <2>3. \A v \in 0 .. Len(commits) :
          Covered(v, n, request[q].waitUntil) => ~(observed < v) \/ CutShort(q)
    <3> SUFFICES ASSUME NEW v \in 0 .. Len(commits), Covered(v, n, request[q].waitUntil),
                        ~CutShort(q)
                 PROVE  ~(observed < v)
      OBVIOUS
    <3>1. v # 0 => ApplyAt(v, n) \in Nat
      <4>1. v # 0 => v \in 1 .. Len(commits)
        BY <1>2, SMT
      <4> QED BY <2>1, <4>1, ApplyAtType DEF Inv
    <3> HIDE DEF n
    <3>2. Covered(v, n, now)
      BY <1>2, <3>1, SMT DEF Covered
    <3>3. AppliedOnFollower(n) \in 0 .. Len(commits) /\ v <= AppliedOnFollower(n)
      BY <3>2, Applied DEF Inv
    <3> HIDE DEF observed
    <3> QED BY <1>2, <2>1, <3>3, SMT
  <2>4. request[q].seen =>
          /\ model = "strong" => Covered(baseline, n, request[q].waitUntil)
          /\ model = "read-your-writes" => Covered(written, n, request[q].waitUntil)
          /\ model = "monotonic-reads" => Covered(read, n, request[q].waitUntil)
    BY <1>2, <2>1, <2>2 DEF Waits
  <2>5. request[q].node \in Followers
    BY <2>1
  <2> HIDE DEF n, observed, baseline, written, read
  <2> QED
    BY <1>1, <1>2, <1>3, <2>3, <2>4, <2>5 DEF Keeps
<1> QED
  BY <1>4, <1>5

\* No other step counts a read.
LEMMA OthersCountNothing ==
  ASSUME [Next]_consistencyVars, ~ \E q \in Requests : ObserveRead(q)
  PROVE  UNCHANGED counted
BY DEF Next, CommitWrite, Retry, Succeed, GiveUp, ArriveRead, ArriveWrite, ArriveFrozen, Tick,
       Over, consistencyVars, ledger

\* Each consistency model keeps its promise (the trait's comments on the models), for
\* every number of reads, writes, nodes, sessions, attempts and every lag, to every read
\* but those at a frozen follower and those whose wait was cut short.
THEOREM PromisesAreKept == Spec => Promised
<1>1. Init => Inv
  BY InitInv
<1>2. Inv /\ [Next]_consistencyVars => Inv'
  BY NextInv
<1> DEFINE AllKept ==
      \A r \in Reads :
        LET Kept(wrong, promise) ==
              r \in CountedNow(wrong) =>
                /\ request[r].node \in Followers
                /\ model = promise => ~request[r].seen \/ CutShort(r)
        IN  /\ Kept("stale", "strong")
            /\ Kept("ryw", "read-your-writes")
            /\ Kept("monotonic", "monotonic-reads")
<1>3. Inv /\ [Next]_consistencyVars => [AllKept]_consistencyVars
  <2> SUFFICES ASSUME Inv, [Next]_consistencyVars, NEW r \in Reads
               PROVE  /\ Keeps(r, "stale", "strong") /\ Keeps(r, "ryw", "read-your-writes")
                      /\ Keeps(r, "monotonic", "monotonic-reads")
    BY DEF Keeps
  <2>1. CASE \E q \in Requests : ObserveRead(q)
    BY <2>1, ObservationKeeps
  <2>2. CASE ~ \E q \in Requests : ObserveRead(q)
    <3>1. counted' = counted
      BY <2>2, OthersCountNothing
    <3> QED BY <3>1 DEF Keeps, CountedNow
  <2> QED BY <2>1, <2>2
<1> HIDE DEF AllKept
<1>4. Spec => [][AllKept]_consistencyVars
  BY <1>1, <1>2, <1>3, PTL DEF Spec
<1> QED
  BY <1>4 DEF AllKept, Promised

-----------------------------------------------------------------------------
(* Putting a finite set in order *)

\* What holds of a set when it holds of all sets one smaller holds of every set.
LEMMA SetInduction ==
  ASSUME NEW S, IsFiniteSet(S), NEW D, {} \in D,
         \A s \in SUBSET S : s # {} /\ (\A x \in s : s \ {x} \in D) => s \in D
  PROVE  \A s \in SUBSET S : s \in D
<1> SUFFICES ASSUME \E s \in SUBSET S : s \notin D PROVE FALSE
  OBVIOUS
<1> DEFINE V == {Cardinality(s) : s \in {t \in SUBSET S : t \notin D}}
<1>1. \A s \in SUBSET S : IsFiniteSet(s) /\ Cardinality(s) \in Nat
  BY FS_Subset, FS_CardinalityType
<1>2. V \subseteq Nat /\ V # {}
  BY <1>1
<1>3. PICK m \in V : \A v \in V : ~ (<<v, m>> \in OpToRel(<, Nat))
  <2> HIDE DEF V
  <2> QED BY <1>2, NatLessThanWellFounded, WFMin
<1>4. PICK s \in SUBSET S : s \notin D /\ Cardinality(s) = m
  OBVIOUS
<1>5. ASSUME NEW x \in s PROVE s \ {x} \in D
  <2>1. s \ {x} \in SUBSET S /\ Cardinality(s \ {x}) = Cardinality(s) - 1
    BY <1>1, FS_RemoveElement
  <2>2. ASSUME s \ {x} \notin D PROVE FALSE
    <3>1. Cardinality(s \ {x}) \in V
      BY <2>1, <2>2
    <3> HIDE DEF V
    <3>2. ~ (<<m - 1, m>> \in OpToRel(<, Nat))
      BY <1>3, <1>4, <2>1, <3>1
    <3>3. m \in Nat /\ m - 1 \in Nat /\ m - 1 < m
      BY <1>1, <1>2, <1>4, <2>1, <3>1
    <3> QED BY <3>2, <3>3 DEF OpToRel
  <2> QED BY <2>2
<1>6. s # {}
  BY <1>4
<1> QED BY <1>4, <1>5, <1>6

\* R orders S: of any two, one comes first or both come together.
Orders(R, S) ==
  /\ \A x, y \in S : x # y => <<x, y>> \in R \/ <<y, x>> \in R
  /\ \A x, y, z \in S : <<x, y>> \in R /\ <<y, z>> \in R => <<x, z>> \in R

\* Of every part of it that is not empty, one comes last.
LEMMA OneIsLast ==
  ASSUME NEW S, IsFiniteSet(S), NEW R, Orders(R, S)
  PROVE  \A s \in SUBSET S : s # {} => \E m \in s : \A x \in s \ {m} : <<x, m>> \in R
<1> DEFINE D == {s \in SUBSET S : s # {} => \E m \in s : \A x \in s \ {m} : <<x, m>> \in R}
<1>1. ASSUME NEW s \in SUBSET S, s # {}, \A x \in s : s \ {x} \in D PROVE s \in D
  <2>1. PICK y \in s : TRUE
    BY <1>1
  <2>2. CASE s = {y}
    BY <2>1, <2>2
  <2>3. CASE s # {y}
    <3>1. PICK m \in s \ {y} : \A x \in (s \ {y}) \ {m} : <<x, m>> \in R
      BY <1>1, <2>1, <2>3
    <3>2. m \in S /\ y \in S /\ m # y /\ s \subseteq S
      BY <2>1, <3>1
    <3>3. CASE <<y, m>> \in R
      <4>1. \A x \in s \ {m} : <<x, m>> \in R
        BY <3>1, <3>3
      <4> QED BY <3>1, <4>1
    <3>4. CASE <<m, y>> \in R
      <4>1. \A x \in s \ {y} : <<x, y>> \in R
        BY <3>1, <3>2, <3>4 DEF Orders
      <4> QED BY <2>1, <4>1
    <3> QED BY <3>2, <3>3, <3>4 DEF Orders
  <2> QED BY <2>2, <2>3
<1>2. {} \in D
  OBVIOUS
<1>3. \A s \in SUBSET S : s \in D
  <2> HIDE DEF D
  <2> QED BY <1>1, <1>2, SetInduction
<1> QED BY <1>3

\* The elements of s, each once, in the order of R.
Listed(f, s, R) ==
  /\ f \in [1 .. Cardinality(s) -> s]
  /\ \A i, j \in 1 .. Cardinality(s) : i < j => <<f[i], f[j]>> \in R /\ f[i] # f[j]
  /\ \A x \in s : \E i \in 1 .. Cardinality(s) : f[i] = x

\* Every finite set that is ordered can be listed in its order.
LEMMA SetsCanBeListed ==
  ASSUME NEW S, IsFiniteSet(S), NEW R, Orders(R, S)
  PROVE  \E f : Listed(f, S, R)
<1> DEFINE D == {s \in SUBSET S : \E f : Listed(f, s, R)}
<1>1. ASSUME NEW s \in SUBSET S, s # {}, \A x \in s : s \ {x} \in D PROVE s \in D
  <2>1. PICK m \in s : \A x \in s \ {m} : <<x, m>> \in R
    BY <1>1, OneIsLast
  <2>2. PICK t : t = s \ {m}
    OBVIOUS
  <2>3. PICK f : Listed(f, t, R)
    BY <1>1, <2>1, <2>2
  <2>4. PICK c : c = Cardinality(t)
    OBVIOUS
  <2>5. c \in Nat /\ Cardinality(s) = c + 1
    <3>1. IsFiniteSet(s) /\ IsFiniteSet(t)
      BY <2>2, FS_Subset
    <3>2. Cardinality(t) = Cardinality(s) - 1 /\ Cardinality(s) \in Nat /\ Cardinality(t) \in Nat
      BY <2>1, <2>2, <3>1, FS_RemoveElement, FS_CardinalityType
    <3> QED BY <2>4, <3>2
  <2>6. PICK g : g = [i \in 1 .. c + 1 |-> IF i = c + 1 THEN m ELSE f[i]]
    OBVIOUS
  <2>7. f \in [1 .. c -> t] /\ \A i, j \in 1 .. c : i < j => <<f[i], f[j]>> \in R /\ f[i] # f[j]
    BY <2>3, <2>4 DEF Listed
  <2>8. \A i \in 1 .. c : g[i] = f[i] /\ g[i] \in t
    BY <2>5, <2>6, <2>7
  <2>9. g[c + 1] = m /\ g \in [1 .. c + 1 -> s]
    <3>1. \A i \in 1 .. c + 1 : i = c + 1 \/ i \in 1 .. c
      BY <2>5
    <3>2. g[c + 1] = m
      BY <2>5, <2>6
    <3>3. \A i \in 1 .. c + 1 : g[i] \in s
      BY <2>1, <2>2, <2>8, <3>1, <3>2
    <3> QED BY <2>6, <3>2, <3>3
  <2>10. ASSUME NEW i \in 1 .. c + 1, NEW j \in 1 .. c + 1, i < j
         PROVE  <<g[i], g[j]>> \in R /\ g[i] # g[j]
    <3>1. i \in 1 .. c /\ (j = c + 1 \/ j \in 1 .. c)
      BY <2>5, <2>10
    <3>2. CASE j = c + 1
      BY <2>1, <2>2, <2>8, <2>9, <3>1, <3>2
    <3>3. CASE j \in 1 .. c
      BY <2>7, <2>8, <2>10, <3>1, <3>3
    <3> QED BY <3>1, <3>2, <3>3
  <2>11. ASSUME NEW x \in s PROVE \E i \in 1 .. c + 1 : g[i] = x
    <3>1. CASE x = m
      BY <2>5, <2>9, <3>1
    <3>2. CASE x # m
      <4>1. PICK i \in 1 .. c : f[i] = x
        BY <2>2, <2>3, <2>4, <3>2 DEF Listed
      <4>2. i \in 1 .. c + 1 /\ g[i] = x
        BY <2>5, <2>8, <4>1
      <4> QED BY <4>2
    <3> QED BY <3>1, <3>2
  <2>12. Listed(g, s, R)
    BY <2>5, <2>9, <2>10, <2>11 DEF Listed
  <2> QED BY <2>12
<1>2. {} \in D
  <2>1. Cardinality({}) = 0
    BY FS_EmptySet
  <2>2. PICK f : f = [i \in 1 .. 0 |-> 0]
    OBVIOUS
  <2>3. f \in [1 .. 0 -> {}]
    BY <2>2
  <2>4. Listed(f, {}, R)
    BY <2>1, <2>3 DEF Listed
  <2> QED BY <2>4
<1>3. S \in D
  <2> HIDE DEF D
  <2>1. IsFiniteSet(S) /\ S \in SUBSET S
    OBVIOUS
  <2>2. \A s \in SUBSET S : s \in D
    BY ZenonT(40), <1>1, <1>2, <2>1, SetInduction
  <2> QED BY <2>1, <2>2
<1> QED BY <1>3

-----------------------------------------------------------------------------
(* The witness *)

\* What the ledger knows of the recorded operations: nobody learned of a version
\* before it was committed, and what began late was not told of an early one.
Genuine(i) ==
  LET op == history[i]
  IN  /\ op.kind = "write" => ~op.dropped /\ op.value # 0
      /\ ~op.dropped =>
           /\ op.value \in 0 .. Len(commits)
           /\ op.start <= now /\ op.start <= op.end
           /\ op.value # 0 => commits[op.value].at <= op.end
           /\ op.kind = "write" => op.start <= commits[op.value].at

\* Each version was written by one operation.
Written ==
  /\ \A v \in DOMAIN commits : \E i \in DOMAIN history :
       history[i].kind = "write" /\ history[i].value = v
  /\ \A i, j \in DOMAIN history :
       history[i].kind = "write" /\ history[j].kind = "write"
         /\ history[i].value = history[j].value => i = j

\* A read began before the version after the one that it returned was committed.
Current(i) ==
  LET op == history[i]
  IN  op.kind = "read" /\ ~op.dropped /\ op.value # Len(commits)
        => op.start <= commits[op.value + 1].at

InOrder == \A v, w \in DOMAIN commits : v <= w => commits[v].at <= commits[w].at

\* Operations come in the order of their versions, a version's write before its reads,
\* and these as they began.
Before(x, y) ==
  \/ history[x].value < history[y].value
  \/ /\ history[x].value = history[y].value
     /\ \/ history[x].kind = "write"
        \/ /\ history[x].kind = "read" /\ history[y].kind = "read"
           /\ history[x].start <= history[y].start

\* The types of what returned.
LEMMA ReturnedTypes ==
  ASSUME Types
  PROVE  /\ \A x \in Returned : x \in DOMAIN history /\ ~history[x].dropped
                /\ history[x].kind \in {"read", "write"} /\ history[x].value \in Nat
                /\ history[x].start \in Nat /\ history[x].end \in Nat
         /\ IsFiniteSet(Returned)
<1>1. Len(history) \in Nat /\ DOMAIN history = 1 .. Len(history)
      /\ \A x \in DOMAIN history : history[x] \in OpType
  BY SMT DEF Types
<1>2. IsFiniteSet(DOMAIN history)
  BY <1>1, FS_Interval
<1>3. Returned \in SUBSET DOMAIN history
  BY DEF Returned
<1>4. IsFiniteSet(Returned)
  BY <1>2, <1>3, FS_Subset
<1> QED BY <1>1, <1>4 DEF Returned, Finished, OpType

\* This is an order of what returned.
LEMMA BeforeOrders ==
  ASSUME Types, NEW R, R = {p \in Returned \X Returned : Before(p[1], p[2])}
  PROVE  Orders(R, Returned)
<1>1. \A x, y \in Returned : <<x, y>> \in R <=> Before(x, y)
  OBVIOUS
<1>2. ASSUME NEW x \in Returned, NEW y \in Returned PROVE Before(x, y) \/ Before(y, x)
  BY ReturnedTypes DEF Before
<1>3. ASSUME NEW x \in Returned, NEW y \in Returned, NEW z \in Returned,
             Before(x, y), Before(y, z)
      PROVE  Before(x, z)
  BY <1>3, ReturnedTypes DEF Before
<1> QED BY <1>1, <1>2, <1>3 DEF Orders

\* What had returned before another was invoked does not come after it.
LEMMA RealTime ==
  ASSUME Types, InOrder, NEW x \in Returned, NEW y \in Returned,
         Genuine(x), Genuine(y), Current(x), Before(x, y)
  PROVE  ~(history[y].end < history[x].start)
<1>1. /\ ~history[x].dropped /\ history[x].kind \in {"read", "write"}
      /\ history[x].value \in Nat /\ history[x].start \in Nat /\ history[x].end \in Nat
      /\ ~history[y].dropped /\ history[y].kind \in {"read", "write"}
      /\ history[y].value \in Nat /\ history[y].start \in Nat /\ history[y].end \in Nat
      /\ Len(commits) \in Nat /\ DOMAIN commits = 1 .. Len(commits)
  BY ReturnedTypes DEF Types
<1>2. \A v \in 1 .. Len(commits) : commits[v].at \in Nat
  <2>1. \A v \in 1 .. Len(commits) : commits[v] \in CommitType
    BY SMT DEF Types
  <2> QED BY <2>1 DEF CommitType
<1> DEFINE v == history[x].value
           w == history[y].value
<1>3. CASE v < w
  <2>1. w \in 1 .. Len(commits) /\ commits[w].at <= history[y].end
    BY <1>1, <1>3 DEF Genuine
  <2>2. CASE history[x].kind = "write"
    <3>1. v \in 1 .. Len(commits) /\ history[x].start <= commits[v].at
      BY <1>1, <2>2 DEF Genuine
    <3>2. commits[v].at <= commits[w].at
      BY <1>1, <1>3, <2>1, <3>1 DEF InOrder
    <3> HIDE DEF v, w
    <3> QED BY <1>1, <1>2, <2>1, <3>1, <3>2
  <2>3. CASE history[x].kind = "read"
    <3>1. history[x].start <= commits[v + 1].at
      BY <1>1, <1>3, <2>1, <2>3 DEF Current
    <3>2. v + 1 \in 1 .. Len(commits) /\ v + 1 <= w
      BY <1>1, <1>3, <2>1
    <3>3. commits[v + 1].at <= commits[w].at
      BY <1>1, <2>1, <3>2 DEF InOrder
    <3> HIDE DEF v, w
    <3> QED BY <1>1, <1>2, <2>1, <3>1, <3>2, <3>3
  <2> QED BY <1>1, <2>2, <2>3
<1>4. CASE v = w /\ history[x].kind = "write"
  <2>1. w \in 1 .. Len(commits) /\ history[x].start <= commits[w].at /\ commits[w].at <= history[y].end
    BY <1>1, <1>4 DEF Genuine
  <2> HIDE DEF v, w
  <2> QED BY <1>1, <1>2, <2>1
<1>5. CASE history[x].start <= history[y].start
  BY <1>1, <1>5 DEF Genuine
<1> QED BY <1>3, <1>4, <1>5 DEF Before

\* Ordered so, what returned is a run of a register.
LEMMA ItIsLinearizable ==
  ASSUME Types, InOrder, Written, \A i \in DOMAIN history : Genuine(i) /\ Current(i)
  PROVE  Linearizable(history, Returned)
<1> DEFINE R == {p \in Returned \X Returned : Before(p[1], p[2])}
<1>0. \A x \in Returned : x \in DOMAIN history /\ Genuine(x) /\ Current(x)
  BY ReturnedTypes
<1>1. PICK order : Listed(order, Returned, R)
  <2>1. Orders(R, Returned)
    BY BeforeOrders
  <2> HIDE DEF R
  <2> QED BY <2>1, ReturnedTypes, SetsCanBeListed
<1>2. PICK c : c = Cardinality(Returned)
  OBVIOUS
<1>3. c \in Nat
  BY <1>2, ReturnedTypes, FS_CardinalityType
<1>4. order \in [1 .. c -> Returned] /\ DOMAIN order = 1 .. c
  BY <1>1, <1>2 DEF Listed
<1>5. \A i, j \in 1 .. c : i < j => Before(order[i], order[j]) /\ order[i] # order[j]
  BY <1>1, <1>2, <1>4 DEF Listed
<1>6. \A x \in Returned : \E i \in 1 .. c : order[i] = x
  BY <1>1, <1>2 DEF Listed
<1> HIDE DEF R
<1>7. \A i, j \in 1 .. c : i # j => order[i] # order[j]
  <2> SUFFICES ASSUME NEW i \in 1 .. c, NEW j \in 1 .. c, i # j PROVE order[i] # order[j]
    OBVIOUS
  <2>1. i < j \/ j < i
    BY <1>3
  <2> QED BY <1>5, <2>1
<1>8. order \in SetToSeqs(Returned)
  BY <1>2, <1>4, <1>7 DEF SetToSeqs
<1>9. \A i, j \in 1 .. c : i < j => ~(history[order[j]].end < history[order[i]].start)
  BY <1>0, <1>4, <1>5, RealTime
<1>10. ASSUME NEW i \in 1 .. c, history[order[i]].kind = "read"
       PROVE  LET Earlier == {j \in 1 .. i - 1 : history[order[j]].kind = "write"}
              IN  \/ Earlier = {} /\ history[order[i]].value = InitialValue
                  \/ \E k \in 1 .. c : /\ k \in Earlier /\ \A j \in Earlier : j <= k
                                       /\ history[order[i]].value = history[order[k]].value
  <2> DEFINE Earlier == {j \in 1 .. i - 1 : history[order[j]].kind = "write"}
             v == history[order[i]].value
  <2>1. /\ v \in 0 .. Len(commits) /\ Len(commits) \in Nat /\ order[i] \in Returned
    BY <1>4, ReturnedTypes DEF Genuine, Types
  <2>2. \A j \in 1 .. i - 1 : j \in 1 .. c /\ order[j] \in Returned /\ j < i
    BY <1>3, <1>4
  <2>3. \A j \in Earlier : /\ history[order[j]].value \in Nat /\ history[order[j]].value <= v
                           /\ history[order[j]].value # 0
    <3> SUFFICES ASSUME NEW j \in Earlier
                 PROVE  /\ history[order[j]].value \in Nat /\ history[order[j]].value <= v
                        /\ history[order[j]].value # 0
      OBVIOUS
    <3>1. j \in 1 .. c /\ order[j] \in Returned /\ j < i /\ history[order[j]].kind = "write"
      BY <2>2
    <3>2. Before(order[j], order[i]) /\ history[order[j]].value \in Nat /\ v \in Nat
      BY <1>5, <2>1, <3>1, ReturnedTypes
    <3>3. history[order[j]].value # 0
      BY <1>0, <3>1 DEF Genuine
    <3> QED BY <3>2, <3>3 DEF Before
  <2>4. CASE v = 0
    <3>1. Earlier = {}
      <4> HIDE DEF v
      <4>1. \A j \in Earlier : FALSE
        <5> HIDE DEF Earlier
        <5> QED BY <2>3, <2>4
      <4> QED BY <4>1
    <3> QED BY <2>4, <3>1 DEF InitialValue
  <2>5. CASE v # 0
    <3>1. PICK w \in DOMAIN history : history[w].kind = "write" /\ history[w].value = v
      <4>1. v \in DOMAIN commits
        BY <2>1, <2>5 DEF Types
      <4> HIDE DEF v
      <4> QED BY <4>1 DEF Written
    <3>2. w \in Returned
      <4>1. Len(history) \in Nat /\ DOMAIN history = 1 .. Len(history) /\ history[w] \in OpType
        BY DEF Types
      <4>2. ~history[w].dropped
        BY <3>1 DEF Genuine
      <4> QED BY <3>1, <4>2 DEF Returned, Finished
    <3>3. PICK k \in 1 .. c : order[k] = w
      BY <1>6, <3>2
    <3>4. k # i
      BY <1>10, <3>1, <3>3
    <3>5. ~(i < k)
      <4>1. CASE i < k
        <5>1. Before(order[i], w)
          BY <1>5, <3>3, <4>1
        <5> QED BY <1>10, <2>1, <3>1, <5>1 DEF Before
      <4> QED BY <4>1
    <3>6. k \in Earlier
      BY <1>3, <3>1, <3>3, <3>4, <3>5
    <3>7. ASSUME NEW j \in Earlier PROVE j <= k
      <4>1. j \in 1 .. c /\ order[j] \in Returned /\ history[order[j]].kind = "write"
        BY <2>2
      <4>2. CASE k < j
        <5>1. Before(w, order[j]) /\ w # order[j]
          BY <1>5, <3>3, <4>1, <4>2
        <5>2. history[order[j]].value = v
          BY <2>1, <2>3, <3>1, <5>1 DEF Before
        <5>3. order[j] = w
          BY <3>1, <4>1, <5>2, ReturnedTypes DEF Written
        <5> QED BY <5>1, <5>3
      <4> QED BY <1>3, <4>1, <4>2
    <3> QED BY <3>1, <3>3, <3>6, <3>7
  <2> QED BY <2>4, <2>5
<1>11. IsWitness(history, order)
  BY <1>4, <1>9, <1>10 DEF IsWitness
<1> QED BY <1>8, <1>11 DEF Linearizable
-----------------------------------------------------------------------------
(* The ledger against the history *)

\* A stamp names a version that was the newest when the request had been created.
Stamped(r) ==
  /\ \A n \in Nodes :
       /\ newest[r][n] \notin {Unstamped, Len(commits)} =>
            request[r].created <= commits[newest[r][n] + 1].at
       /\ request[r].state = "new" => newest[r][n] = Unstamped
  /\ request[r].state = "serving" => request[r].created <= request[r].arrived

OracleInv ==
  /\ Inv /\ now <= MaxTime /\ InOrder /\ Written
  /\ \A i \in DOMAIN history : Genuine(i)
  /\ counted.stale = {} => \A i \in DOMAIN history : Current(i)
  /\ \A r \in Requests : Stamped(r)

\* In a step, versions are only added, as of now,
Grows ==
  /\ Len(commits') \in {Len(commits), Len(commits) + 1}
  /\ \A v \in 1 .. Len(commits) : commits'[v] = commits[v]
  /\ \A v \in 1 .. Len(commits') : v > Len(commits) => commits'[v].at = now

\* and an operation stays what it was, ends, or is dropped if it is not a write.
OpKept(i) ==
  \/ history'[i] = history[i]
  \/ history'[i] = [history[i] EXCEPT !.end = now]
  \/ history'[i] = Dropped /\ history[i].kind # "write"

\* The types of the entries.
LEMMA Entries ==
  ASSUME Types
  PROVE  /\ Len(history) \in Nat /\ DOMAIN history = 1 .. Len(history)
         /\ Len(commits) \in Nat /\ DOMAIN commits = 1 .. Len(commits) /\ now \in Nat
         /\ \A i \in DOMAIN history : history[i] \in OpType
         /\ \A v \in DOMAIN commits : commits[v] \in CommitType /\ commits[v].at \in Nat
<1>1. /\ \A i \in DOMAIN history : history[i] \in OpType
      /\ \A v \in DOMAIN commits : commits[v] \in CommitType
  BY SMT DEF Types
<1>2. \A v \in DOMAIN commits : commits[v].at \in Nat
  BY <1>1 DEF CommitType
<1> QED BY <1>1, <1>2 DEF Types

\* What a kept operation has become.
LEMMA KeptOps ==
  ASSUME Types, NEW i \in DOMAIN history, OpKept(i)
  PROVE  \/ history'[i].kind = "read" /\ history'[i].dropped /\ history[i].kind # "write"
         \/ /\ history'[i].kind = history[i].kind /\ history'[i].value = history[i].value
            /\ history'[i].start = history[i].start /\ history'[i].dropped = history[i].dropped
            /\ history'[i].end \in {history[i].end, now}
<1>1. history[i] \in OpType
  BY Entries
<1>2. CASE history'[i] = Dropped /\ history[i].kind # "write"
  <2>1. Dropped.kind = "read" /\ Dropped.dropped
    BY DEF Dropped
  <2> QED BY <1>2, <2>1
<1>3. CASE history'[i] = [history[i] EXCEPT !.end = now]
  BY <1>1, <1>3 DEF OpType
<1> QED BY <1>2, <1>3 DEF OpKept

\* A recorded operation stays genuine,
LEMMA GenuineStays ==
  ASSUME Types, Past, NEW i \in DOMAIN history, Genuine(i), Grows, OpKept(i),
         now' \in {now, now + 1}
  PROVE  Genuine(i)'
<1>1. /\ history[i].kind \in {"read", "write"} /\ history[i].start \in Nat
      /\ history[i].end \in Nat /\ history[i].value \in Nat /\ history[i].dropped \in BOOLEAN
      /\ now \in Nat /\ Len(commits) \in Nat
  BY Entries DEF OpType
<1>2. CASE history'[i].kind = "read" /\ history'[i].dropped
  BY <1>2 DEF Genuine
<1>3. CASE /\ history'[i].kind = history[i].kind /\ history'[i].value = history[i].value
           /\ history'[i].start = history[i].start /\ history'[i].dropped = history[i].dropped
           /\ history'[i].end \in {history[i].end, now}
  <2> SUFFICES ASSUME ~history[i].dropped PROVE Genuine(i)'
    BY <1>3 DEF Genuine
  <2> DEFINE v == history[i].value
  <2>1. v \in 0 .. Len(commits) /\ history[i].start <= now /\ history[i].start <= history[i].end
    BY DEF Genuine
  <2>2. v \in 0 .. Len(commits')
    BY <1>1, <2>1 DEF Grows
  <2>3. history[i].start <= now' /\ history[i].start <= history'[i].end
    BY <1>1, <1>3, <2>1
  <2>4. v # 0 => /\ commits'[v] = commits[v] /\ commits[v].at <= now
                 /\ commits[v].at <= history[i].end
    <3>1. v # 0 => v \in 1 .. Len(commits) /\ v \in DOMAIN commits
      BY <1>1, <2>1, Entries
    <3> QED BY <3>1 DEF Grows, Past, Genuine
  <2>5. v # 0 => commits'[v].at <= history'[i].end
    BY <1>3, <2>4
  <2>6. history[i].kind = "write" => v # 0 /\ history[i].start <= commits'[v].at
    BY <2>4 DEF Genuine
  <2> QED BY <1>3, <2>2, <2>3, <2>5, <2>6 DEF Genuine
<1> QED BY <1>2, <1>3, KeptOps

\* a read that was current stays so,
LEMMA CurrentStays ==
  ASSUME Types, NEW i \in DOMAIN history, Genuine(i), Current(i), Grows, OpKept(i)
  PROVE  Current(i)'
<1>1. /\ history[i].value \in Nat /\ history[i].dropped \in BOOLEAN /\ Len(commits) \in Nat
  BY Entries DEF OpType
<1>2. CASE history'[i].kind = "read" /\ history'[i].dropped
  BY <1>2 DEF Current
<1>3. CASE /\ history'[i].kind = history[i].kind /\ history'[i].value = history[i].value
           /\ history'[i].start = history[i].start /\ history'[i].dropped = history[i].dropped
  <2> SUFFICES ASSUME history[i].kind = "read", ~history[i].dropped,
                      history[i].value # Len(commits')
               PROVE  history[i].start <= commits'[history[i].value + 1].at
    BY <1>3 DEF Current
  <2>1. history[i].value \in 0 .. Len(commits) /\ history[i].start <= now
    BY DEF Genuine
  <2> DEFINE v == history[i].value
  <2>2. CASE v # Len(commits)
    <3>1. v + 1 \in 1 .. Len(commits)
      BY <1>1, <2>1, <2>2
    <3>2. commits'[v + 1] = commits[v + 1]
      BY <3>1 DEF Grows
    <3> QED BY <2>2, <3>2 DEF Current
  <2>3. CASE v = Len(commits)
    <3>1. v + 1 \in 1 .. Len(commits') /\ v + 1 > Len(commits)
      BY <1>1, <2>3 DEF Grows
    <3>2. commits'[v + 1].at = now
      BY <3>1 DEF Grows
    <3> QED BY <2>1, <3>2
  <2> QED BY <2>2, <2>3
<1> QED BY <1>2, <1>3, KeptOps

\* a stamp stays a stamp,
LEMMA StampStays ==
  ASSUME Types, Existing, CreatedBefore, NEW r \in Requests, Stamped(r), Grows,
         newest'[r] = newest[r], request'[r] = request[r]
  PROVE  Stamped(r)'
<1> SUFFICES ASSUME NEW n \in Nodes, newest[r][n] \notin {Unstamped, Len(commits')}
             PROVE  request[r].created <= commits'[newest[r][n] + 1].at
  BY DEF Stamped
<1>1. PICK v : v = newest[r][n]
  OBVIOUS
<1>2. v \in 0 .. Len(commits) /\ Len(commits) \in Nat
  <2>1. newest[r][n] \in Nat \cup {Unstamped} /\ newest[r][n] <= Len(commits) /\ Len(commits) \in Nat
    BY DEF Types, Existing
  <2> QED BY <1>1, <2>1
<1>3. CASE v # Len(commits)
  <2>1. v + 1 \in 1 .. Len(commits)
    BY <1>2, <1>3
  <2>2. commits'[v + 1] = commits[v + 1]
    BY <2>1 DEF Grows
  <2> QED BY <1>1, <1>3, <2>2 DEF Stamped
<1>4. CASE v = Len(commits)
  <2>1. v + 1 \in 1 .. Len(commits') /\ v + 1 > Len(commits)
    BY <1>1, <1>2, <1>4 DEF Grows
  <2>2. commits'[v + 1].at = now
    BY <2>1 DEF Grows
  <2> QED BY <1>1, <2>2 DEF CreatedBefore
<1> QED BY <1>3, <1>4

\* and versions stay in the order of their commits.
LEMMA OrderStays ==
  ASSUME Types, Past, InOrder, Grows, Types'
  PROVE  InOrder'
<1> SUFFICES ASSUME NEW v \in 1 .. Len(commits'), NEW w \in 1 .. Len(commits'), v <= w
             PROVE  commits'[v].at <= commits'[w].at
  <2>1. DOMAIN commits' = 1 .. Len(commits')
    BY DEF Types
  <2> QED BY <2>1 DEF InOrder
<1>0. Len(commits) \in Nat /\ DOMAIN commits = 1 .. Len(commits) /\ now \in Nat
      /\ \A u \in 1 .. Len(commits) : commits[u].at \in Nat
  BY Entries
<1>1. CASE w \in 1 .. Len(commits)
  <2>1. v \in 1 .. Len(commits)
    BY <1>0, <1>1
  <2> QED BY <1>0, <1>1, <2>1 DEF Grows, InOrder
<1>2. CASE w \notin 1 .. Len(commits)
  <2>1. commits'[w].at = now
    BY <1>0, <1>2 DEF Grows
  <2>2. v \in 1 .. Len(commits) => commits'[v].at <= now
    BY <1>0 DEF Grows, Past
  <2>3. v \notin 1 .. Len(commits) => commits'[v].at = now
    BY <1>0 DEF Grows
  <2> QED BY <1>0, <2>1, <2>2, <2>3
<1> QED BY <1>1, <1>2

\* A step that adds no write or, with its version, one.
LEMMA WrittenStays ==
  ASSUME Types, Types', Written, \A i \in DOMAIN history : Genuine(i),
         \A i \in DOMAIN history : OpKept(i), Len(history') \in {Len(history), Len(history) + 1},
         \A i \in DOMAIN history' \ DOMAIN history :
            history'[i].kind = "write" => history'[i].value = Len(commits) + 1,
         \/ Len(commits') = Len(commits)
            /\ \A i \in DOMAIN history' \ DOMAIN history : history'[i].kind # "write"
         \/ Len(commits') = Len(commits) + 1
            /\ \E i \in DOMAIN history' \ DOMAIN history : history'[i].kind = "write"
  PROVE  Written'
<1>1. /\ Len(history) \in Nat /\ DOMAIN history = 1 .. Len(history)
      /\ Len(commits) \in Nat /\ DOMAIN commits = 1 .. Len(commits)
      /\ DOMAIN history' = 1 .. Len(history') /\ DOMAIN commits' = 1 .. Len(commits')
  BY DEF Types
<1>0. /\ \A k \in DOMAIN history : k \in DOMAIN history'
      /\ \A k \in DOMAIN history' : k \in DOMAIN history \/ k = Len(history) + 1
      /\ \A k \in DOMAIN commits' : k \in DOMAIN commits
            \/ (k = Len(commits) + 1 /\ Len(commits') = Len(commits) + 1 /\ Len(commits') # Len(commits))
  <2>1. PICK a, b, c, d : a = Len(history) /\ b = Len(history') /\ c = Len(commits) /\ d = Len(commits')
    OBVIOUS
  <2>2. a \in Nat /\ b \in {a, a + 1} /\ c \in Nat /\ d \in {c, c + 1}
    BY <1>1, <2>1
  <2>3. /\ \A k \in 1 .. a : k \in 1 .. b
        /\ \A k \in 1 .. b : k \in 1 .. a \/ k = a + 1
        /\ \A k \in 1 .. d : k \in 1 .. c \/ (k = c + 1 /\ d = c + 1 /\ d # c)
    BY ONLY <2>2
  <2> QED BY <1>1, <2>1, <2>3
<1>2. \A i \in DOMAIN history :
        (history'[i].kind = "write" <=> history[i].kind = "write")
          /\ (history[i].kind = "write" => history'[i].value = history[i].value)
  BY KeptOps
<1>3. ASSUME NEW v \in DOMAIN commits'
      PROVE  \E i \in DOMAIN history' : history'[i].kind = "write" /\ history'[i].value = v
  <2>1. CASE v \in DOMAIN commits
    <3>1. PICK i \in DOMAIN history : history[i].kind = "write" /\ history[i].value = v
      BY <2>1 DEF Written
    <3>2. i \in DOMAIN history'
      BY <1>0
    <3> QED BY <1>2, <3>1, <3>2
  <2>2. CASE v \notin DOMAIN commits
    <3>1. v = Len(commits) + 1 /\ Len(commits') # Len(commits)
      BY <1>0, <2>2
    <3>3. PICK i \in DOMAIN history' \ DOMAIN history : history'[i].kind = "write"
      BY <3>1
    <3> QED BY <3>1, <3>3
  <2> QED BY <2>1, <2>2
<1>4. ASSUME NEW i \in DOMAIN history', NEW j \in DOMAIN history',
             history'[i].kind = "write", history'[j].kind = "write",
             history'[i].value = history'[j].value
      PROVE  i = j
  <2>1. \A k \in DOMAIN history' : k \in DOMAIN history \/ k = Len(history) + 1
    BY <1>0
  <2>2. \A k \in DOMAIN history : history'[k].kind = "write" => history'[k].value # Len(commits) + 1
    <3> SUFFICES ASSUME NEW k \in DOMAIN history, history'[k].kind = "write"
                 PROVE  history'[k].value # Len(commits) + 1
      OBVIOUS
    <3>1. history'[k].value = history[k].value /\ history[k].kind = "write"
      BY <1>2
    <3>2. history[k].value \in 0 .. Len(commits)
      BY <3>1 DEF Genuine
    <3>3. \A c \in Nat : \A x \in 0 .. c : x # c + 1
      BY ONLY SMT
    <3> QED BY <1>1, <3>1, <3>2, <3>3
  <2>3. CASE i \in DOMAIN history /\ j \in DOMAIN history
    BY <1>2, <1>4, <2>3 DEF Written
  <2>4. CASE i \in DOMAIN history /\ j \notin DOMAIN history
    BY <1>4, <2>2, <2>4
  <2>5. CASE i \notin DOMAIN history /\ j \in DOMAIN history
    BY <1>4, <2>2, <2>5
  <2> QED BY <2>1, <2>3, <2>4, <2>5
<1> QED BY <1>3, <1>4 DEF Written

\* How a step keeps the invariant.
LEMMA OracleStep ==
  ASSUME OracleInv, Inv', Grows, now' \in {now, now + 1}, now' <= MaxTime,
         Len(history') \in {Len(history), Len(history) + 1},
         \A i \in DOMAIN history : OpKept(i),
         counted'.stale = {} => counted.stale = {},
         \A i \in DOMAIN history' \ DOMAIN history :
            Genuine(i)' /\ (counted'.stale = {} => Current(i)'),
         Written', \A r \in Requests : Stamped(r)'
  PROVE  OracleInv'
<1>1. Types /\ Past /\ Types'
  BY DEF OracleInv, Inv
<1>2. InOrder'
  BY <1>1, OrderStays DEF OracleInv
<1>3. \A i \in DOMAIN history : Genuine(i)' /\ (counted'.stale = {} => Current(i)')
  BY <1>1, GenuineStays, CurrentStays DEF OracleInv
<1>4. \A i \in DOMAIN history' : Genuine(i)' /\ (counted'.stale = {} => Current(i)')
  BY <1>3
<1> QED BY <1>2, <1>4 DEF OracleInv

\* A step that leaves the ledger alone, but perhaps for a stamp.
LEMMA QuietStep ==
  ASSUME OracleInv, Inv', UNCHANGED <<commits, history, counted>>,
         now' \in {now, now + 1}, now' <= MaxTime, \A r \in Requests : Stamped(r)'
  PROVE  OracleInv'
<1>1. Len(commits) \in Nat
  BY Entries DEF OracleInv, Inv
<1>2. Grows
  BY <1>1 DEF Grows
<1>3. Written'
  BY DEF OracleInv, Written
<1> QED BY <1>2, <1>3, OracleStep DEF OpKept

\* Time passes, or nothing happens.
LEMMA TickOracle ==
  ASSUME OracleInv, Inv', Tick \/ UNCHANGED consistencyVars
  PROVE  OracleInv'
<1>1. /\ UNCHANGED <<request, newest, commits, history, counted>>
      /\ now' \in {now, now + 1} /\ now' <= MaxTime
  <2>1. now \in Nat /\ now <= MaxTime /\ MaxTime \in Nat
    BY ConsistencyAssumption, Entries DEF OracleInv, Inv
  <2> QED BY <2>1 DEF Tick, consistencyVars, ledger
<1>2. \A r \in Requests : Stamped(r)'
  BY <1>1 DEF OracleInv, Stamped
<1> QED BY <1>1, <1>2, QuietStep

\* A request keeps its time of creation until it ends, and with it its stamps.
LEMMA ArrivalOracle ==
  ASSUME OracleInv, Inv', NEW r \in Requests, NEW n \in Nodes,
         ArriveRead(r, n) \/ ArriveWrite(r, n) \/ ArriveFrozen(r, n)
  PROVE  OracleInv'
<1>1. PICK created, waitUntil, seen :
          created \in Created(r) /\ ArriveAt(r, n, created, waitUntil, seen)
  BY DEF ArriveRead, ArriveWrite, ArriveFrozen
<1>2. UNCHANGED <<now, commits, history, counted>>
  BY DEF ArriveRead, ArriveWrite, ArriveFrozen, ledger
<1>3. newest' = newest \/ newest' = [newest EXCEPT ![r][n] = Len(commits)]
  BY Committed DEF ArriveRead, ArriveWrite, ArriveFrozen, ledger, OracleInv, Inv
<1>4. /\ Types /\ Existing /\ CreatedBefore /\ Stamped(r) /\ Len(commits) \in Nat
      /\ request \in [Requests -> RequestType] /\ now \in Nat
  BY DEF OracleInv, Inv, Types
<1>5. /\ request[r].state \in {"new", "sent"}
      /\ request' = [request EXCEPT ![r] = [@ EXCEPT !.state = "serving", !.created = created,
                       !.node = n, !.arrived = now, !.waitUntil = waitUntil, !.seen = seen]]
  BY <1>1 DEF ArriveAt
<1>6. /\ request'[r].state = "serving" /\ request'[r].created = created
      /\ request'[r].arrived = now
      /\ \A s \in Requests : s # r => request'[s] = request[s]
  BY <1>4, <1>5 DEF RequestType
<1>7. \A s \in Requests : s # r => newest'[s] = newest[s]
  BY <1>3, <1>4 DEF Types
<1>8. \A m \in Nodes : newest'[r][m] \in {newest[r][m], Len(commits)}
  BY <1>3, <1>4 DEF Types
<1>9. Grows
  BY <1>2, <1>4 DEF Grows
<1>10. Stamped(r)'
  <2>1. created <= now
    BY <1>2, <1>6 DEF Inv, CreatedBefore
  <2>2. ASSUME NEW m \in Nodes, newest'[r][m] \notin {Unstamped, Len(commits)}
        PROVE  created <= commits[newest'[r][m] + 1].at
    <3>1. newest'[r][m] = newest[r][m]
      BY <1>8, <2>2
    <3>2. request[r].state = "sent"
      BY <1>4, <1>5, <2>2, <3>1 DEF Stamped
    <3>3. created = request[r].created
      BY <1>1, <3>2 DEF Created
    <3> QED BY <1>4, <2>2, <3>1, <3>3 DEF Stamped
  <2> QED BY <1>2, <1>6, <2>1, <2>2 DEF Stamped
<1>11. \A s \in Requests : Stamped(s)'
  <2> SUFFICES ASSUME NEW s \in Requests, s # r PROVE Stamped(s)'
    BY <1>10
  <2> QED BY <1>4, <1>6, <1>7, <1>9, StampStays DEF OracleInv
<1>12. now <= MaxTime
  BY DEF OracleInv
<1> QED BY <1>2, <1>11, <1>12, QuietStep

\* A request that is not at a node any more keeps its stamps or has none.
LEMMA LeavingOracle ==
  ASSUME OracleInv, NEW r \in Requests, NEW new, Grows,
         request' = [request EXCEPT ![r] = new], new.state \notin {"new", "serving"},
         \A s \in Requests : s # r => newest'[s] = newest[s],
         \A m \in Nodes : newest'[r][m] = newest[r][m] \/ newest'[r][m] = Unstamped,
         new.created = request[r].created \/ \A m \in Nodes : newest'[r][m] = Unstamped
  PROVE  \A s \in Requests : Stamped(s)'
<1>1. /\ Types /\ Existing /\ CreatedBefore /\ Len(commits) \in Nat
      /\ request \in [Requests -> RequestType]
  BY DEF OracleInv, Inv, Types
<1>2. request'[r] = new /\ \A s \in Requests : s # r => request'[s] = request[s]
  BY <1>1
<1>3. Stamped(r)'
  <2> SUFFICES ASSUME NEW n \in Nodes, newest'[r][n] \notin {Unstamped, Len(commits')}
               PROVE  request[r].created <= commits'[newest[r][n] + 1].at
    BY <1>2 DEF Stamped
  <2>1. newest'[r][n] = newest[r][n]
    OBVIOUS
  <2>2. PICK v : v = newest[r][n]
    OBVIOUS
  <2>3. v \in 0 .. Len(commits)
    <3>1. newest[r][n] \in Nat \cup {Unstamped} /\ newest[r][n] <= Len(commits)
      BY <1>1 DEF Types, Existing
    <3> QED BY <1>1, <2>1, <2>2, <3>1
  <2>4. CASE v # Len(commits)
    <3>1. v + 1 \in 1 .. Len(commits)
      BY <1>1, <2>3, <2>4
    <3>2. commits'[v + 1] = commits[v + 1]
      BY <3>1 DEF Grows
    <3> QED BY <2>1, <2>2, <2>4, <3>2 DEF OracleInv, Stamped
  <2>5. CASE v = Len(commits)
    <3>1. v + 1 \in 1 .. Len(commits') /\ v + 1 > Len(commits)
      BY <1>1, <2>1, <2>2, <2>5 DEF Grows
    <3>2. commits'[v + 1].at = now
      BY <3>1 DEF Grows
    <3> QED BY <1>1, <2>2, <3>2 DEF CreatedBefore
  <2> QED BY <2>4, <2>5
<1>4. \A s \in Requests : s # r => Stamped(s)'
  BY <1>1, <1>2, StampStays DEF OracleInv
<1> QED BY <1>3, <1>4

\* A retry leaves the ledger as it is.
LEMMA RetryOracle ==
  ASSUME OracleInv, Inv', NEW r \in Requests, Retry(r)
  PROVE  OracleInv'
<1>1. UNCHANGED <<now, newest, commits, history, counted>>
  BY DEF Retry, ledger
<1>2. PICK new : /\ request' = [request EXCEPT ![r] = new]
                 /\ new.created = request[r].created /\ new.state = "sent"
  BY Retried DEF OracleInv
<1>3. Grows
  <2>1. Len(commits) \in Nat
    BY DEF OracleInv, Inv, Types
  <2> QED BY <1>1, <2>1 DEF Grows
<1>4. \A s \in Requests : Stamped(s)'
  BY <1>1, <1>2, <1>3, LeavingOracle
<1>5. now <= MaxTime
  BY DEF OracleInv
<1> QED BY <1>1, <1>4, <1>5, QuietStep

\* A request ends: its operations end with it or are dropped, and its stamps go.
LEMMA EndOracle ==
  ASSUME OracleInv, Inv', NEW r \in Requests, Succeed(r) \/ GiveUp(r)
  PROVE  OracleInv'
<1> DEFINE new == [Fresh EXCEPT !.state = "terminal"]
<1>1. /\ request' = [request EXCEPT ![r] = new]
      /\ newest' = [newest EXCEPT ![r] = [n \in Nodes |-> Unstamped]]
      /\ UNCHANGED <<now, commits, counted>>
  BY DEF Succeed, GiveUp, Terminate
<1>2. new.state = "terminal"
  BY DEF Fresh
<1> HIDE DEF new
<1>3. /\ Types /\ Types' /\ Len(commits) \in Nat /\ Len(history) \in Nat
      /\ DOMAIN history = 1 .. Len(history)
      /\ newest \in [Requests -> [Nodes -> Nat \cup {Unstamped}]]
  BY DEF OracleInv, Inv, Types
<1>4. Grows
  BY <1>1, <1>3 DEF Grows
<1>5. \A s \in Requests : Stamped(s)'
  <2>1. \A m \in Nodes : newest'[r][m] = Unstamped
    BY <1>1, <1>3
  <2>2. \A s \in Requests : s # r => newest'[s] = newest[s]
    BY <1>1, <1>3
  <2> QED BY <1>1, <1>2, <1>4, <2>1, <2>2, LeavingOracle
<1>6. DOMAIN history' = DOMAIN history /\ \A i \in DOMAIN history : OpKept(i)
  <2>1. CASE Succeed(r)
    <3>1. history' = [i \in DOMAIN history |->
            IF \E n \in Nodes : pending[r][n].op = i THEN [history[i] EXCEPT !.end = now]
            ELSE history[i]]
      BY <2>1 DEF Succeed
    <3> QED BY <3>1 DEF OpKept
  <2>2. CASE GiveUp(r)
    <3>1. history' = [i \in DOMAIN history |->
            IF \E n \in Nodes : pending[r][n].op = i
              THEN DropOperation(history, [version |-> 0, op |-> i])[i] ELSE history[i]]
      BY <2>2 DEF GiveUp
    <3>2. \A i \in DOMAIN history :
             LET dropped == DropOperation(history, [version |-> 0, op |-> i])[i]
             IN  dropped = history[i] \/ (dropped = Dropped /\ history[i].kind # "write")
      BY DEF DropOperation
    <3> QED BY <3>1, <3>2 DEF OpKept
  <2> QED BY <2>1, <2>2
<1>7. Len(history') = Len(history)
  BY <1>3, <1>6 DEF Types
<1>8. Written'
  <2>1. DOMAIN history' \ DOMAIN history = {}
    BY <1>6
  <2> QED BY <1>1, <1>3, <1>6, <1>7, <2>1, WrittenStays DEF OracleInv
<1>9. now \in Nat /\ now <= MaxTime
  BY <1>3 DEF OracleInv, Types
<1> QED BY <1>1, <1>4, <1>5, <1>6, <1>7, <1>8, <1>9, OracleStep

\* What is recorded is one operation more, without an end.
LEMMA RecordedOp ==
  ASSUME Types, Types', NEW r \in Requests, NEW kind, NEW version, Record(r, kind, version)
  PROVE  /\ \A i \in DOMAIN history : OpKept(i)
         /\ Len(history') = Len(history) + 1
         /\ DOMAIN history' \ DOMAIN history = {Len(history) + 1}
         /\ history'[Len(history) + 1] =
              [kind |-> kind, start |-> request[r].created, end |-> Never,
               value |-> version, dropped |-> FALSE]
<1> DEFINE p == pending[r][request[r].node]
           kept == DropOperation(history, p)
           op == [kind |-> kind, start |-> request[r].created, end |-> Never,
                  value |-> version, dropped |-> FALSE]
<1>1. history' = Append(kept, op)
  BY DEF Record
<1>2. /\ Len(history) \in Nat /\ DOMAIN history = 1 .. Len(history)
      /\ history \in Seq(OpType) /\ DOMAIN history' = 1 .. Len(history')
  BY DEF Types
<1>3. kept \in Seq(OpType) /\ DOMAIN kept = DOMAIN history
  <2>1. kept \in Seq(OpType)
    BY <1>2, DropType
  <2>2. DOMAIN kept = DOMAIN history
    BY DEF DropOperation
  <2> QED BY <2>1, <2>2
<1>4. \A i \in DOMAIN history :
         kept[i] = history[i] \/ (kept[i] = Dropped /\ history[i].kind # "write")
  <2> SUFFICES ASSUME NEW i \in DOMAIN history
               PROVE  kept[i] = history[i] \/ (kept[i] = Dropped /\ history[i].kind # "write")
    OBVIOUS
  <2> DEFINE k == p.op
  <2>1. \/ kept = history
        \/ history[k].kind # "write" /\ kept = [history EXCEPT ![k] = Dropped]
    BY DEF DropOperation
  <2> HIDE DEF kept, k
  <2> QED BY <2>1
<1> HIDE DEF kept, op
<1>5. Len(kept) = Len(history)
  BY <1>2, <1>3
<1>6. /\ Len(history') = Len(kept) + 1 /\ history'[Len(kept) + 1] = op
      /\ \A i \in 1 .. Len(kept) : history'[i] = kept[i]
  <2>1. DOMAIN kept = 1 .. Len(kept) /\ Len(kept) \in Nat
    BY <1>2, <1>3, <1>5
  <2> QED BY <1>1, <2>1, AppendProperties, <1>3
<1>7. \A i \in DOMAIN history : OpKept(i)
  BY <1>2, <1>4, <1>5, <1>6 DEF OpKept
<1>8. \A m \in Nat : 1 .. m + 1 \ 1 .. m = {m + 1}
  BY ONLY SMT
<1> QED BY <1>2, <1>5, <1>6, <1>7, <1>8 DEF op

\* What a stamp or, without one, the time of arrival says was the newest version
\* stayed so until the request had been created.
LEMMA BaselineIsLate ==
  ASSUME OracleInv, NEW r \in Requests, NEW n \in Nodes, request[r].state = "serving",
         NEW v, v = (IF newest[r][n] = Unstamped THEN LatestCommitted(request[r].arrived)
                     ELSE newest[r][n])
  PROVE  /\ v \in 0 .. Len(commits)
         /\ v # Len(commits) => request[r].created <= commits[v + 1].at
<1>1. Types /\ Past /\ Existing /\ Stamped(r)
  BY DEF OracleInv, Inv
<1>2. /\ Len(commits) \in Nat /\ DOMAIN commits = 1 .. Len(commits)
      /\ \A u \in DOMAIN commits : commits[u].at \in Nat
  BY <1>1, Entries
<1>3. request[r].created \in Nat /\ request[r].arrived \in Nat
      /\ request[r].created <= request[r].arrived
  BY <1>1 DEF Types, RequestType, Stamped
<1>4. CASE newest[r][n] # Unstamped
  <2>1. newest[r][n] \in Nat \cup {Unstamped} /\ newest[r][n] <= Len(commits)
    BY <1>1 DEF Types, Existing
  <2> QED BY <1>1, <1>2, <1>4, <2>1 DEF Stamped
<1>5. CASE newest[r][n] = Unstamped
  <2>1. v = LatestCommitted(request[r].arrived)
    BY <1>5
  <2> DEFINE S == {0} \cup {u \in DOMAIN commits : commits[u].at <= request[r].arrived}
  <2>2. S \subseteq 0 .. Len(commits) /\ S # {}
    BY <1>2
  <2>3. v \in S /\ \A w \in S : w <= v
    <3>1. v = NewestOf(S)
      BY <2>1 DEF LatestCommitted
    <3> HIDE DEF S
    <3> QED BY <1>2, <2>2, <3>1, NewestExists
  <2>4. v \in 0 .. Len(commits)
    BY <2>2, <2>3
  <2>5. ASSUME v # Len(commits) PROVE request[r].created <= commits[v + 1].at
    <3>1. v + 1 \in DOMAIN commits /\ ~(v + 1 <= v)
      BY <1>2, <2>4, <2>5
    <3>2. v + 1 \notin S
      <4> HIDE DEF S
      <4> QED BY <2>3, <3>1
    <3>3. ~(commits[v + 1].at <= request[r].arrived)
      BY <3>1, <3>2
    <3> QED BY <1>2, <1>3, <3>1, <3>3
  <2> QED BY <2>4, <2>5
<1> QED BY <1>4, <1>5

\* After its service a request keeps the time of its creation.
LEMMA AnsweredOracle ==
  ASSUME OracleInv, NEW r \in Requests, ServiceEnds(r), Grows,
         newest' = newest \/ newest' = [newest EXCEPT ![r][request[r].node] = Unstamped]
  PROVE  \A s \in Requests : Stamped(s)'
<1>1. PICK new : /\ request' = [request EXCEPT ![r] = new]
                 /\ new.created = request[r].created /\ new.state = "answered"
  BY Served DEF OracleInv
<1>3. newest \in [Requests -> [Nodes -> Nat \cup {Unstamped}]]
  BY DEF OracleInv, Inv, Types
<1>4. \A s \in Requests : s # r => newest'[s] = newest[s]
  BY <1>3
<1>5. \A m \in Nodes : newest'[r][m] = newest[r][m] \/ newest'[r][m] = Unstamped
  BY <1>3
<1> QED BY <1>1, <1>4, <1>5, LeavingOracle

\* A read that is not counted as stale returns nothing that was outdated when its
\* request was created.
LEMMA ObserveOracle ==
  ASSUME OracleInv, Inv', NEW r \in Requests, ObserveRead(r)
  PROVE  OracleInv'
<1> DEFINE n == request[r].node
<1>1. PICK observed, baseline :
        /\ observed = (IF n = Leader THEN LatestCommitted(now) ELSE AppliedOnFollower(n))
        /\ baseline = (IF newest[r][n] = Unstamped
                         THEN LatestCommitted(request[r].arrived) ELSE newest[r][n])
  OBVIOUS
<1>2. /\ ServiceEnds(r) /\ Record(r, "read", observed) /\ UNCHANGED <<now, commits>>
      /\ newest' = [newest EXCEPT ![r][n] = Unstamped] /\ request[r].state = "serving"
  BY <1>1 DEF ObserveRead, ServiceEnds
<1>3. counted'.stale = IF observed < baseline THEN counted.stale \cup {Attempt(r)}
                       ELSE counted.stale
  BY <1>1 DEF ObserveRead
<1>4. /\ Inv /\ Types /\ Types' /\ Past /\ CreatedBefore /\ InOrder /\ Written
      /\ now <= MaxTime /\ \A i \in DOMAIN history : Genuine(i)
  BY DEF OracleInv, Inv
<1>5. /\ Len(commits) \in Nat /\ DOMAIN commits = 1 .. Len(commits) /\ now \in Nat
      /\ \A u \in DOMAIN commits : commits[u].at \in Nat
      /\ n \in Nodes /\ request[r].created \in Nat /\ request[r].created <= now
      /\ MaxTime \in Nat
  BY <1>4, Entries, ConsistencyAssumption DEF Types, RequestType, CreatedBefore
<1>6. observed \in 0 .. Len(commits)
  BY <1>1, <1>4, ObservedKnown
<1>7. /\ baseline \in 0 .. Len(commits)
      /\ baseline # Len(commits) => request[r].created <= commits[baseline + 1].at
  BY <1>1, <1>2, <1>5, BaselineIsLate
<1>8. /\ \A i \in DOMAIN history : OpKept(i)
      /\ Len(history') = Len(history) + 1
      /\ DOMAIN history' \ DOMAIN history = {Len(history) + 1}
      /\ history'[Len(history) + 1] =
              [kind |-> "read", start |-> request[r].created, end |-> Never,
               value |-> observed, dropped |-> FALSE]
  BY <1>2, <1>4, RecordedOp
<1> HIDE DEF n
<1>9. Grows
  BY <1>2, <1>5 DEF Grows
<1>10. \A s \in Requests : Stamped(s)'
  BY <1>2, <1>9, AnsweredOracle DEF n
<1>11. ASSUME NEW i \in DOMAIN history' \ DOMAIN history PROVE Genuine(i)'
  <2>1. history'[i] = [kind |-> "read", start |-> request[r].created, end |-> Never,
                       value |-> observed, dropped |-> FALSE]
    BY <1>8
  <2>2. request[r].created <= Never /\ now <= Never
    BY <1>4, <1>5 DEF Never
  <2>3. observed # 0 => commits[observed].at <= Never
    <3>1. ASSUME observed # 0 PROVE commits[observed].at <= Never
      <4>1. observed \in DOMAIN commits /\ commits[observed].at <= now
        BY <1>4, <1>5, <1>6, <3>1 DEF Past
      <4> QED BY <1>4, <1>5, <4>1 DEF Never
    <3> QED BY <3>1
  <2> QED BY <1>2, <1>5, <1>6, <2>1, <2>2, <2>3 DEF Genuine
<1>12. ASSUME NEW i \in DOMAIN history' \ DOMAIN history, counted'.stale = {} PROVE Current(i)'
  <2>1. /\ history'[i].start = request[r].created /\ history'[i].value = observed
    BY <1>8
  <2>2. ~(observed < baseline)
    BY <1>3, <1>12
  <2>3. ASSUME observed # Len(commits)
        PROVE  request[r].created <= commits[observed + 1].at
    <3>1. /\ baseline # Len(commits) /\ baseline + 1 \in DOMAIN commits
          /\ observed + 1 \in DOMAIN commits /\ baseline + 1 <= observed + 1
      BY <1>5, <1>6, <1>7, <2>2, <2>3
    <3>2. commits[baseline + 1].at <= commits[observed + 1].at
      BY <1>4, <3>1 DEF InOrder
    <3> QED BY <1>5, <1>7, <3>1, <3>2
  <2> QED BY <1>2, <2>1, <2>3 DEF Current
<1>13. Written'
  <2>1. \A i \in DOMAIN history' \ DOMAIN history : history'[i].kind # "write"
    BY <1>8
  <2> QED BY <1>2, <1>4, <1>8, <2>1, WrittenStays
<1>14. counted'.stale = {} => counted.stale = {}
  BY <1>3
<1> QED BY <1>2, <1>4, <1>5, <1>8, <1>9, <1>10, <1>11, <1>12, <1>13, <1>14, OracleStep

\* A commit is recorded as the write of the version that it adds.
LEMMA CommitOracle ==
  ASSUME OracleInv, Inv', NEW r \in Requests, CommitWrite(r)
  PROVE  OracleInv'
<1>1. ServiceEnds(r) /\ UNCHANGED <<now, newest, counted>>
  BY DEF CommitWrite
<1>2. /\ Types /\ Types' /\ Past /\ CreatedBefore /\ Written
      /\ now <= MaxTime /\ \A i \in DOMAIN history : Genuine(i)
  BY DEF OracleInv, Inv
<1>3. /\ Len(commits) \in Nat /\ now \in Nat /\ MaxTime \in Nat /\ commits \in Seq(CommitType)
      /\ request[r].created \in Nat /\ request[r].created <= now
  BY <1>2, Entries, ConsistencyAssumption DEF Types, RequestType, CreatedBefore
<1>4. CASE request[r].node # Leader
  <2>1. UNCHANGED <<commits, history>>
    BY <1>4 DEF CommitWrite
  <2>2. Grows
    BY <1>3, <2>1 DEF Grows
  <2>3. \A s \in Requests : Stamped(s)'
    BY <1>1, <2>2, AnsweredOracle
  <2> QED BY <1>1, <1>2, <2>1, <2>3, QuietStep
<1>5. CASE request[r].node = Leader
  <2>1. PICK new : commits' = Append(commits, new) /\ new.at = now /\ new \in CommitType
    <3>1. PICK holders \in HeldAtCommit :
            commits' = Append(commits, [at |-> now, holders |-> holders])
      BY <1>5 DEF CommitWrite
    <3>2. [at |-> now, holders |-> holders] \in CommitType
      BY <1>3, ConsistencyAssumption DEF CommitType
    <3> QED BY <3>1, <3>2
  <2>2. Record(r, "write", Len(commits) + 1)
    BY <1>5 DEF CommitWrite
  <2>3. /\ Len(commits') = Len(commits) + 1 /\ commits'[Len(commits) + 1] = new
        /\ \A v \in 1 .. Len(commits) : commits'[v] = commits[v]
    BY <1>3, <2>1, AppendProperties
  <2>4. Grows
    BY <1>3, <2>1, <2>3 DEF Grows
  <2>5. \A s \in Requests : Stamped(s)'
    BY <1>1, <2>4, AnsweredOracle
  <2>6. /\ \A i \in DOMAIN history : OpKept(i)
        /\ Len(history') = Len(history) + 1
        /\ DOMAIN history' \ DOMAIN history = {Len(history) + 1}
        /\ history'[Len(history) + 1] =
              [kind |-> "write", start |-> request[r].created, end |-> Never,
               value |-> Len(commits) + 1, dropped |-> FALSE]
    BY <1>2, <2>2, RecordedOp
  <2>7. ASSUME NEW i \in DOMAIN history' \ DOMAIN history PROVE Genuine(i)' /\ Current(i)'
    <3>1. history'[i] = [kind |-> "write", start |-> request[r].created, end |-> Never,
                         value |-> Len(commits) + 1, dropped |-> FALSE]
      BY <2>6
    <3>2. request[r].created <= Never /\ now <= Never
      BY <1>2, <1>3 DEF Never
    <3>3. commits'[Len(commits) + 1].at = now /\ Len(commits) + 1 \in 0 .. Len(commits')
      BY <1>3, <2>1, <2>3
    <3>4. Len(commits) + 1 # 0
      BY <1>3
    <3> QED BY <1>1, <1>3, <3>1, <3>2, <3>3, <3>4 DEF Genuine, Current
  <2>8. Written'
    <3>1. /\ \E i \in DOMAIN history' \ DOMAIN history : history'[i].kind = "write"
          /\ \A i \in DOMAIN history' \ DOMAIN history : history'[i].value = Len(commits) + 1
      BY <2>6
    <3> QED BY <1>2, <2>3, <2>6, <3>1, WrittenStays
  <2> QED BY <1>1, <1>2, <1>3, <2>4, <2>5, <2>6, <2>7, <2>8, OracleStep
<1> QED BY <1>4, <1>5

\* The invariant holds at the start,
LEMMA InitOracle ==
  ASSUME Init
  PROVE  OracleInv
<1>1. Inv /\ now = 0 /\ MaxTime \in Nat
  BY InitInv, ConsistencyAssumption DEF Init
<1>2. DOMAIN commits = {} /\ DOMAIN history = {}
  BY SMT DEF Init
<1>3. InOrder /\ Written
  BY <1>2 DEF InOrder, Written
<1>4. ASSUME NEW r \in Requests PROVE Stamped(r)
  <2>1. request[r].state = "new" /\ \A n \in Nodes : newest[r][n] = Unstamped
    BY DEF Init, Fresh
  <2> QED BY <2>1 DEF Stamped
<1> QED BY <1>1, <1>2, <1>3, <1>4 DEF OracleInv

\* and every step keeps it.
LEMMA NextOracle ==
  ASSUME OracleInv, [Next]_consistencyVars
  PROVE  OracleInv'
<1>1. Inv'
  BY NextInv DEF OracleInv
<1>2. ASSUME NEW r \in Requests, ObserveRead(r) \/ CommitWrite(r) \/ Retry(r)
                                   \/ Succeed(r) \/ GiveUp(r)
      PROVE  OracleInv'
  BY <1>1, <1>2, ObserveOracle, CommitOracle, RetryOracle, EndOracle
<1>3. ASSUME NEW r \in Requests, NEW n \in Nodes,
             ArriveRead(r, n) \/ ArriveWrite(r, n) \/ ArriveFrozen(r, n)
      PROVE  OracleInv'
  BY <1>1, <1>3, ArrivalOracle
<1>4. CASE Tick \/ Over \/ UNCHANGED consistencyVars
  BY <1>1, <1>4, TickOracle DEF Over
<1> QED BY <1>2, <1>3, <1>4 DEF Next

\* The two oracles agree (the head comment of consistencyModel.ts and the check of
\* buildReport): if the ledger counted no read as stale, there is an order of what the
\* clients saw that respects real time and is a run of a register.
THEOREM OraclesAlwaysAgree == Spec => []OraclesAgree
<1>1. Init => OracleInv
  BY InitOracle
<1>2. OracleInv /\ [Next]_consistencyVars => OracleInv'
  BY NextOracle
<1>3. OracleInv => OraclesAgree
  <2> SUFFICES ASSUME OracleInv, counted.stale = {} PROVE Linearizable(history, Returned)
    BY DEF OraclesAgree
  <2> QED BY ItIsLinearizable DEF OracleInv, Inv
<1> QED BY <1>1, <1>2, <1>3, PTL DEF Spec

\* A read that the trait did not see is at the leader, and so is what a read has left
\* behind.
Seen ==
  \A r \in Requests :
    /\ request[r].state = "serving" /\ ~request[r].seen => request[r].node = Leader
    /\ r \in Reads => \A c \in request[r].left : c.node = Leader

\* No follower freezes, and a read that is retried does not time out at one.
Undisturbed ==
  /\ MayFreeze \cap Followers = {}
  /\ \A r \in Reads : MaxAttempts[r] <= 1 \/ MayTimeOut \cap Followers = {}

\* A request in service leaves its completion behind when it is retried after a timeout.
LEMMA LeftAtLeader ==
  ASSUME Inv, Undisturbed, NEW r \in Reads, Retry(r), NEW c \in LeftBehind(r)
  PROVE  c.node = Leader
<1>1. request[r].node \in MayTimeOut /\ c = Completion(r)
  BY DEF LeftBehind
<1>2. c.node = request[r].node
  BY <1>1 DEF Completion
<1>3. request[r].attempts \in Nat \ {0} /\ request[r].node \in Nodes
  BY DEF Inv, Types, RequestType, Requests
<1>4. ~(MaxAttempts[r] <= 1)
  <2>1. MaxAttempts[r] \in Nat /\ request[r].attempts < MaxAttempts[r]
    BY ConsistencyAssumption DEF Retry, Requests
  <2> QED BY <1>3, <2>1
<1>5. request[r].node \notin Followers
  BY <1>1, <1>4 DEF Undisturbed
<1> QED
  BY <1>2, <1>3, <1>5 DEF Nodes

\* Where nothing disturbs the followers, that is so in every step.
LEMMA SeenStays ==
  ASSUME Inv, Seen, Undisturbed, [Next]_consistencyVars
  PROVE  Seen'
<1>1. request \in [Requests -> RequestType]
  BY DEF Inv, Types
<1>2. ASSUME NEW r \in Requests, NEW new, request' = [request EXCEPT ![r] = new],
             new.state = "serving" /\ ~new.seen => new.node = Leader,
             r \in Reads => \A c \in new.left : c.node = Leader
      PROVE  Seen'
  BY <1>1, <1>2 DEF Seen
<1>3. ASSUME NEW r \in Requests, ObserveRead(r) \/ CommitWrite(r) PROVE Seen'
  <2>1. ServiceEnds(r)
    BY <1>3 DEF ObserveRead, CommitWrite
  <2>2. PICK new \in RequestType :
           /\ request' = [request EXCEPT ![r] = new] /\ new.state = "answered"
           /\ \E c \in request[r].left \cup {Completion(r)} :
                /\ c.node = request[r].node
                /\ new.left = (request[r].left \cup {Completion(r)}) \ {c}
    BY <2>1, Served
  <2>3. ASSUME r \in Reads, NEW c \in new.left PROVE c.node = Leader
    <3>1. PICK d \in request[r].left \cup {Completion(r)} :
            d.node = request[r].node
            /\ new.left = (request[r].left \cup {Completion(r)}) \ {d}
      BY <2>2
    <3>2. CASE c \in request[r].left
      BY <2>3, <3>2 DEF Seen
    <3>3. CASE c = Completion(r)
      <4>1. d \in request[r].left
        BY <2>3, <3>1, <3>3
      <4>2. d.node = Leader
        BY <2>3, <4>1 DEF Seen
      <4> QED BY <3>1, <3>3, <4>2 DEF Completion
    <3> QED BY <2>3, <3>1, <3>2, <3>3
  <2> QED BY <1>2, <2>2, <2>3
<1>4. ASSUME NEW r \in Requests, Retry(r) PROVE Seen'
  <2>1. PICK new \in RequestType :
           /\ request' = [request EXCEPT ![r] = new] /\ new.state = "sent"
           /\ \E more \in SUBSET LeftBehind(r) : new.left = request[r].left \cup more
    BY <1>4, Retried
  <2>2. ASSUME r \in Reads, NEW c \in new.left PROVE c.node = Leader
    <3>1. c \in request[r].left \/ c \in LeftBehind(r)
      BY <2>1, <2>2
    <3>2. CASE c \in request[r].left
      BY <2>2, <3>2 DEF Seen
    <3>3. CASE c \in LeftBehind(r)
      BY <1>4, <2>2, <3>3, LeftAtLeader
    <3> QED BY <3>1, <3>2, <3>3
  <2> QED BY <1>2, <2>1, <2>2
<1>5. ASSUME NEW r \in Requests, Succeed(r) \/ GiveUp(r) PROVE Seen'
  <2>1. request' = [request EXCEPT ![r] = [Fresh EXCEPT !.state = "terminal"]]
    BY <1>5 DEF Succeed, GiveUp, Terminate
  <2>2. /\ [Fresh EXCEPT !.state = "terminal"].state # "serving"
        /\ [Fresh EXCEPT !.state = "terminal"].left = {}
    BY DEF Fresh
  <2> QED BY <1>2, <2>1, <2>2
<1>6. ASSUME NEW r \in Requests, NEW n \in Nodes,
             ArriveRead(r, n) \/ ArriveWrite(r, n) \/ ArriveFrozen(r, n)
      PROVE  Seen'
  <2>1. PICK created, waitUntil, seen :
          ArriveAt(r, n, created, waitUntil, seen) /\ (seen \/ n \in MayFreeze)
    BY <1>6 DEF ArriveRead, ArriveWrite, ArriveFrozen
  <2>2. ~seen => n = Leader
    BY <2>1 DEF Nodes, Undisturbed
  <2>3. PICK new : /\ request' = [request EXCEPT ![r] = new] /\ new.seen = seen /\ new.node = n
                   /\ new.left = request[r].left
    <3> DEFINE new == [request[r] EXCEPT !.state = "serving", !.created = created, !.node = n,
                        !.arrived = now, !.waitUntil = waitUntil, !.seen = seen]
    <3>1. request' = [request EXCEPT ![r] = new]
      BY <1>1, <2>1 DEF ArriveAt
    <3>2. new.seen = seen /\ new.node = n /\ new.left = request[r].left
      BY <1>1 DEF RequestType
    <3> QED BY <3>1, <3>2
  <2>4. r \in Reads => \A c \in new.left : c.node = Leader
    BY <2>3 DEF Seen
  <2> QED BY <1>2, <2>2, <2>3, <2>4
<1>7. CASE Tick \/ Over \/ UNCHANGED consistencyVars
  BY <1>7 DEF Tick, Over, consistencyVars, Seen
<1> QED BY <1>3, <1>4, <1>5, <1>6, <1>7 DEF Next

\* So nothing that a strong read returns is counted as stale.
LEMMA NoneIsStale ==
  ASSUME Inv, Seen, model = "strong", counted.stale = {}, [Next]_consistencyVars
  PROVE  counted'.stale = {}
<1>1. ASSUME NEW q \in Requests, ObserveRead(q) PROVE counted'.stale = {}
  <2>1. q \in Reads /\ request[q].state = "serving"
        /\ counted'.stale \in {counted.stale, counted.stale \cup {Attempt(q)}}
    BY <1>1 DEF ObserveRead, ServiceEnds
  <2>2. Keeps(q, "stale", "strong")
    BY <1>1, <2>1, ObservationKeeps
  <2>3. ASSUME Attempt(q) \in counted'.stale PROVE FALSE
    <3>1. request[q].node \in Followers /\ (~request[q].seen \/ CutShort(q))
      BY <2>1, <2>2, <2>3 DEF Keeps, CountedNow
    <3>2. request[q].node = Leader
      BY <2>1, <3>1 DEF Seen, CutShort
    <3> QED BY <3>1, <3>2, ConsistencyAssumption
  <2> QED BY <2>1, <2>3
<1>2. CASE ~ \E q \in Requests : ObserveRead(q)
  BY <1>2, OthersCountNothing
<1> QED BY <1>1, <1>2

\* The model is configured once.
LEMMA ModelStays ==
  ASSUME [Next]_consistencyVars
  PROVE  model' = model
BY DEF Next, ObserveRead, CommitWrite, Retry, Succeed, GiveUp, ArriveRead, ArriveWrite,
       ArriveFrozen, Tick, Over, consistencyVars, ledger

\* The strong model is linearizable while no follower freezes and no read times out in
\* service at a follower and is retried, whatever the lags and whatever else fails and
\* is retried, writes that committed already among it.
THEOREM StrongIsLinearizable ==
  ASSUME MayFreeze \cap Followers = {},
         \A r \in Reads : MaxAttempts[r] <= 1 \/ MayTimeOut \cap Followers = {}
  PROVE  Spec => [](model = "strong" => Linearizable(history, Returned))
<1> DEFINE Strong == OracleInv /\ Seen /\ (model = "strong" => counted.stale = {})
<1>0. Undisturbed
  BY DEF Undisturbed
<1>1. Init => Strong
  <2>1. Init => Seen
    BY DEF Init, Fresh, Seen
  <2>2. Init => counted.stale = {}
    BY DEF Init
  <2> QED BY <2>1, <2>2, InitOracle
<1>2. Strong /\ [Next]_consistencyVars => Strong'
  <2> SUFFICES ASSUME Strong, [Next]_consistencyVars PROVE Strong'
    OBVIOUS
  <2>1. OracleInv' /\ Seen'
    BY <1>0, NextOracle, SeenStays DEF OracleInv
  <2>2. model' = "strong" => counted'.stale = {}
    BY ModelStays, NoneIsStale DEF OracleInv
  <2> QED BY <2>1, <2>2
<1>3. Strong => (model = "strong" => Linearizable(history, Returned))
  BY ItIsLinearizable DEF OracleInv, Inv
<1> HIDE DEF Strong
<1> QED BY <1>1, <1>2, <1>3, PTL DEF Spec

=============================================================================
