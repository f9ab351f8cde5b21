--------------------------- MODULE HeldRequestsProofs ---------------------------
(***************************************************************************)
(* Proofs about HeldRequests, for every number of requests, keys and       *)
(* lanes, every assignment of them and any number of retries.              *)
(***************************************************************************)
EXTENDS HeldRequests, TLAPS

(* The invariant of the fetches *)

\* Those in line are waiting, each at one place of the line of its lane.
Lines ==
  \A l \in Lanes :
    /\ \A i \in 1 .. Len(waiting[l]) : at[waiting[l][i]] = "waiting" /\ Lane[waiting[l][i]] = l
    /\ \A i, j \in 1 .. Len(waiting[l]) : waiting[l][i] = waiting[l][j] => i = j

\* Only deliveries of a lane wait in one.
Waiters == \A r \in Requests : at[r] = "waiting" => Lane[r] \in Lanes

\* The cache waits to hear of whoever it has down as fetching a key, and of nobody else;
\* a delivery that fetches is at work, for nobody would retry it.
Fetches ==
  /\ \A r \in misses :
       /\ Key[r] \in Keys /\ Fetching(r) /\ inFlight[Key[r]] = r
       /\ Lane[r] # NoLane => at[r] = "working"
  /\ \A k \in Keys : inFlight[k] # None => inFlight[k] \in misses /\ Key[inFlight[k]] = k

\* A collapse timeout in force is that of a request that is parked.
SoundTimers(r) ==
  \A timer \in timers[r] :
    timer[2] <= timeoutSeq[r] /\ (timer[2] = timeoutSeq[r] => at[r] = "parked")
Timers == \A r \in Requests : SoundTimers(r)

\* A fate is that of a request which has a leader that ended so.
SoundFate(r) ==
  /\ outcome[r] # None <=> at[r] = "done"
  /\ fate[r] # None => at[r] \in {"resolved", "done"}
  /\ at[r] = "resolved" => /\ leader[r] \in Requests /\ at[leader[r]] = "done"
                           /\ fate[r] = outcome[leader[r]]
  /\ at[r] = "done" /\ fate[r] # None => outcome[r] = fate[r]
Fates == \A r \in Requests : SoundFate(r)

FlightInv ==
  TypeOK /\ Lines /\ Waiters /\ Fetches /\ FollowersHaveALeader /\ Timers /\ Fates

-----------------------------------------------------------------------------
(* The invariant of the lanes *)

InService == {"working", "parked", "resolved"}

\* A delivery comes to its lane once, and is not heard of in the lane before.
HasCome(r) == at[r] \in InService \cup {"waiting"} \/ outcome[r] = "success"
SoundArrivals(l) ==
  /\ \A i \in 1 .. Len(arrived[l]) : Lane[arrived[l][i]] = l /\ at[arrived[l][i]] # "coming"
  /\ \A i, j \in 1 .. Len(arrived[l]) : arrived[l][i] = arrived[l][j] => i = j
  /\ \A r \in Requests :
       Lane[r] = l /\ HasCome(r) => \E i \in 1 .. Len(arrived[l]) : arrived[l][i] = r

\* Whoever has gone on holds the lane, and a lane that nobody holds has no line.
SoundHolder(l) ==
  /\ holder[l] # None => Lane[holder[l]] = l /\ at[holder[l]] \in InService
  /\ \A r \in Requests : Lane[r] = l /\ at[r] \in InService => holder[l] = r
  /\ holder[l] = None => waiting[l] = <<>>
  /\ \A r \in Requests :
       Lane[r] = l /\ at[r] = "waiting" => \E i \in 1 .. Len(waiting[l]) : waiting[l][i] = r

\* The holder came before those in line, and they came in the order of the line.
SoundOrder(l) ==
  \A a, b \in 1 .. Len(arrived[l]) :
    /\ arrived[l][a] = holder[l] /\ at[arrived[l][b]] = "waiting" => a < b
    /\ \A i, j \in 1 .. Len(waiting[l]) :
         i < j /\ arrived[l][a] = waiting[l][i] /\ arrived[l][b] = waiting[l][j] => a < b

\* OneAtATime, of one lane.
SoundPassage(l) ==
  \A i, j \in 1 .. Len(arrived[l]) :
    i < j /\ GoneOn(arrived[l][j]) => at[arrived[l][i]] = "done"

SoundLane(l) == SoundArrivals(l) /\ SoundHolder(l) /\ SoundOrder(l) /\ SoundPassage(l)

\* The newest change applied of a key is that of one that succeeded.
Applied ==
  \A k \in Keys : applied[k] > 0 =>
    \E r \in Requests : Key[r] = k /\ Change[r] = applied[k] /\ outcome[r] = "success"

LaneInv ==
  FlightInv /\ (\A l \in Lanes : SoundLane(l)) /\ Applied /\ ReorderedOnArrival

-----------------------------------------------------------------------------
(* Lines *)

\* What is left of the line of r's lane while r ends: all of the line but r itself, in
\* the order of the line.
RestOfLine(r, line) ==
  /\ line \in Seq(Requests)
  /\ Lane[r] = NoLane => line = <<>>
  /\ \A i \in 1 .. Len(line) :
       line[i] # r /\ at[line[i]] = "waiting" /\ Lane[line[i]] = Lane[r]
  /\ \A i, j \in 1 .. Len(line) : line[i] = line[j] => i = j

\* Two sequences joined are the one and then the other.
LEMMA Joined ==
  ASSUME NEW S, NEW s \in Seq(S), NEW t \in Seq(S)
  PROVE  /\ s \o t \in Seq(S) /\ Len(s \o t) = Len(s) + Len(t)
         /\ \A j \in 1 .. Len(s) + Len(t) :
              (s \o t)[j] = IF j <= Len(s) THEN s[j] ELSE t[j - Len(s)]
OBVIOUS

\* Removing a position of a sequence closes the gap.
LEMMA RemoveAtElements ==
  ASSUME NEW S, NEW s \in Seq(S), NEW i \in 1 .. Len(s)
  PROVE  /\ RemoveAt(s, i) \in Seq(S) /\ Len(RemoveAt(s, i)) = Len(s) - 1
         /\ \A j \in 1 .. Len(s) - 1 : RemoveAt(s, i)[j] = s[IF j < i THEN j ELSE j + 1]
<1> DEFINE ahead == SubSeq(s, 1, i - 1)
           behind == SubSeq(s, i + 1, Len(s))
<1>1. /\ ahead \in Seq(S) /\ Len(ahead) = i - 1
      /\ \A j \in 1 .. i - 1 : ahead[j] = s[j]
  OBVIOUS
<1>2. /\ behind \in Seq(S) /\ Len(behind) = Len(s) - i
      /\ \A j \in 1 .. Len(s) - i : behind[j] = s[j + i]
  OBVIOUS
<1>3. RemoveAt(s, i) = ahead \o behind
  BY DEF RemoveAt
<1> HIDE DEF ahead, behind
<1>4. /\ ahead \o behind \in Seq(S) /\ Len(ahead \o behind) = Len(s) - 1
      /\ \A j \in 1 .. Len(s) - 1 :
           (ahead \o behind)[j] = IF j < i THEN ahead[j] ELSE behind[j - i + 1]
  <2>1. Len(ahead) + Len(behind) = Len(s) - 1
    BY <1>1, <1>2
  <2>2. \A j \in 1 .. Len(s) - 1 :
          (j <= Len(ahead) <=> j < i) /\ j - Len(ahead) = j - i + 1
    BY <1>1
  <2>3. /\ ahead \o behind \in Seq(S) /\ Len(ahead \o behind) = Len(ahead) + Len(behind)
        /\ \A j \in 1 .. Len(ahead) + Len(behind) :
             (ahead \o behind)[j] = IF j <= Len(ahead) THEN ahead[j] ELSE behind[j - Len(ahead)]
    BY <1>1, <1>2, Joined
  <2> QED BY <2>1, <2>2, <2>3
<1>5. \A j \in 1 .. Len(s) - 1 :
        (ahead \o behind)[j] = s[IF j < i THEN j ELSE j + 1]
  <2> TAKE j \in 1 .. Len(s) - 1
  <2>1. CASE j < i
    BY <1>1, <1>4, <2>1
  <2>2. CASE ~(j < i)
    <3>1. j - i + 1 \in 1 .. Len(s) - i /\ (j - i + 1) + i = j + 1
      BY <2>2
    <3> QED BY <1>2, <1>4, <2>2, <3>1
  <2> QED BY <2>1, <2>2
<1> QED BY <1>3, <1>4, <1>5

\* The line of a request that ends elsewhere is the whole line of its lane.
LEMMA WholeLine ==
  ASSUME FlightInv, NEW r \in Requests, at[r] # "waiting"
  PROVE  RestOfLine(r, IF Lane[r] = NoLane THEN <<>> ELSE waiting[Lane[r]])
<1>1. CASE Lane[r] = NoLane
  BY <1>1 DEF RestOfLine
<1>2. CASE Lane[r] # NoLane
  <2>1. Lane[r] \in Lanes
    BY <1>2, HeldAssumption
  <2> DEFINE line == waiting[Lane[r]]
  <2>2. line \in Seq(Requests)
    BY <2>1 DEF FlightInv, TypeOK
  <2>3. /\ \A i \in 1 .. Len(line) : at[line[i]] = "waiting" /\ Lane[line[i]] = Lane[r]
        /\ \A i, j \in 1 .. Len(line) : line[i] = line[j] => i = j
    BY <2>1 DEF FlightInv, Lines
  <2> HIDE DEF line
  <2>4. RestOfLine(r, line)
    BY <1>2, <2>2, <2>3 DEF RestOfLine
  <2> QED BY <1>2, <2>4 DEF line
<1> QED BY <1>1, <1>2

\* A request that runs out of time in the line leaves the rest of it.
LEMMA LineWithout ==
  ASSUME FlightInv, NEW r \in Requests, Lane[r] \in Lanes,
         NEW i \in 1 .. Len(waiting[Lane[r]]), waiting[Lane[r]][i] = r
  PROVE  RestOfLine(r, RemoveAt(waiting[Lane[r]], i))
<1> DEFINE w == waiting[Lane[r]]
           line == RemoveAt(w, i)
<1>1. w \in Seq(Requests)
  BY DEF FlightInv, TypeOK
<1>2. /\ line \in Seq(Requests) /\ Len(line) = Len(w) - 1
      /\ \A j \in 1 .. Len(w) - 1 : line[j] = w[IF j < i THEN j ELSE j + 1]
  BY <1>1, RemoveAtElements
<1>3. /\ \A j \in 1 .. Len(w) : at[w[j]] = "waiting" /\ Lane[w[j]] = Lane[r]
      /\ \A j, k \in 1 .. Len(w) : w[j] = w[k] => j = k
  BY DEF FlightInv, Lines
<1>4. Lane[r] # NoLane /\ w[i] = r /\ i \in 1 .. Len(w)
  BY HeldAssumption
<1> HIDE DEF line, w
<1>5. \A j \in 1 .. Len(line) : (IF j < i THEN j ELSE j + 1) \in (1 .. Len(w)) \ {i}
  BY <1>1, <1>2
<1>6. \A j \in 1 .. Len(line) : line[j] # r /\ at[line[j]] = "waiting" /\ Lane[line[j]] = Lane[r]
  <2> TAKE j \in 1 .. Len(line)
  <2> DEFINE k == IF j < i THEN j ELSE j + 1
  <2>1. k \in 1 .. Len(w) /\ k # i /\ line[j] = w[k]
    BY <1>2, <1>5
  <2>2. w[k] # w[i]
    BY <1>3, <1>4, <2>1
  <2> QED BY <1>3, <1>4, <2>1, <2>2
<1>7. \A j, k \in 1 .. Len(line) : line[j] = line[k] => j = k
  <2> TAKE j, k \in 1 .. Len(line)
  <2> HAVE line[j] = line[k]
  <2>1. (IF j < i THEN j ELSE j + 1) = (IF k < i THEN k ELSE k + 1)
    BY <1>2, <1>3, <1>5
  <2> QED BY <2>1, <1>1, <1>2
<1> QED BY <1>2, <1>4, <1>6, <1>7 DEF RestOfLine, line, w

\* Whoever is let into the lane was waiting in it, and the line is without him.
LEMMA LaneGoesOn ==
  ASSUME FlightInv, NEW r \in Requests, NEW line, RestOfLine(r, line),
         NEW next \in Requests \cup {None}, ReleaseOrderingLane(r, line, next)
  PROVE  /\ next # None => /\ next \in Requests /\ next # r /\ at[next] = "waiting"
                           /\ Lane[next] = Lane[r] /\ Lane[r] \in Lanes
                           /\ line # <<>> /\ next = line[1] /\ holder[Lane[r]] = r
                           /\ waiting' = [waiting EXCEPT ![Lane[r]] = Tail(line)]
                           /\ holder' = [holder EXCEPT ![Lane[r]] = next]
         /\ next = None => /\ Lane[r] = NoLane => waiting' = waiting /\ holder' = holder
                           /\ Lane[r] # NoLane =>
                                /\ Lane[r] \in Lanes
                                /\ waiting' = [waiting EXCEPT ![Lane[r]] = line]
                                /\ holder[Lane[r]] = r =>
                                     /\ line = <<>>
                                     /\ holder' = [holder EXCEPT ![Lane[r]] = None]
                                /\ holder[Lane[r]] # r => holder' = holder
         /\ waiting' \in [Lanes -> Seq(Requests)] /\ holder' \in [Lanes -> Requests \cup {None}]
<1>1. /\ Lane[r] \in Lanes \cup {NoLane} /\ None \notin Requests
      /\ waiting \in [Lanes -> Seq(Requests)] /\ holder \in [Lanes -> Requests \cup {None}]
      /\ line \in Seq(Requests)
  BY HeldAssumption DEF FlightInv, TypeOK, RestOfLine
<1>2. CASE Lane[r] = NoLane
  BY <1>1, <1>2 DEF ReleaseOrderingLane
<1>3. CASE Lane[r] # NoLane /\ (holder[Lane[r]] # r \/ line = <<>>)
  BY <1>1, <1>3 DEF ReleaseOrderingLane
<1>4. CASE Lane[r] # NoLane /\ holder[Lane[r]] = r /\ line # <<>>
  <2>1. 1 \in 1 .. Len(line) /\ Head(line) = line[1] /\ Tail(line) \in Seq(Requests)
    BY <1>1, <1>4
  <2>2. /\ next = line[1] /\ holder' = [holder EXCEPT ![Lane[r]] = next]
        /\ waiting' = [waiting EXCEPT ![Lane[r]] = Tail(line)]
    BY <1>4, <2>1 DEF ReleaseOrderingLane
  <2>3. next # r /\ at[next] = "waiting" /\ Lane[next] = Lane[r]
    BY <2>1, <2>2 DEF RestOfLine
  <2>4. next \in Requests
    BY <1>1, <2>1, <2>2
  <2> QED BY <1>1, <1>4, <2>1, <2>2, <2>3, <2>4
<1> QED BY <1>2, <1>3, <1>4

-----------------------------------------------------------------------------
(* A terminal, and the fetches *)

\* An end of r that may come now: not a second one, and for one whose leader has ended
\* the leader's.
MayEnd(r, status) ==
  /\ status \in Statuses /\ at[r] # "done"
  /\ at[r] = "resolved" => status = fate[r]

\* The terminal of a request keeps the invariant of the fetches: those behind it are
\* resolved, and the next of its lane leads, follows or works.
LEMMA TerminalKeepsFlight ==
  ASSUME FlightInv, NEW r \in Requests, NEW status, MayEnd(r, status),
         NEW line, RestOfLine(r, line), MarkTerminal(r, status, line)
  PROVE  FlightInv'
<1> DEFINE followers == ParkedBehind(r)
           free == Freed(r)
<1>1. PICK next \in Requests \cup {None}, missed \in BOOLEAN :
        /\ ReleaseOrderingLane(r, line, next)
        /\ at' = [q \in Requests |->
                    IF q = r THEN "done"
                    ELSE IF q \in followers THEN "resolved"
                    ELSE IF q = next THEN Continued(q, missed, free)
                    ELSE at[q]]
        /\ ContinueArrival(next, r, missed, free)
  BY DEF MarkTerminal
<1> DEFINE parks == next # None /\ Follows(next, missed, free)
           leads == next # None /\ Leads(next, missed, free)
<1>2. /\ outcome' = [outcome EXCEPT ![r] = status]
      /\ ApplyChange(r, status)
      /\ fate' = [q \in Requests |-> IF q \in followers THEN status ELSE fate[q]]
      /\ timeoutSeq' = [q \in Requests |-> IF q \in followers THEN timeoutSeq[q] + 1
                                           ELSE timeoutSeq[q]]
      /\ UNCHANGED <<retries, arrived>>
  BY DEF MarkTerminal, Superseded
<1>3. TypeOK /\ Lines /\ Waiters /\ Fetches /\ FollowersHaveALeader /\ Timers /\ Fates
  BY DEF FlightInv
<1>4. status \in Statuses /\ status # None /\ at[r] # "done"
  BY HeldAssumption DEF MayEnd
<1>5. /\ next # None => next \in Requests /\ next # r /\ at[next] = "waiting"
                        /\ Lane[next] = Lane[r] /\ Lane[r] \in Lanes
                        /\ line # <<>> /\ next = line[1]
      /\ waiting' \in [Lanes -> Seq(Requests)] /\ holder' \in [Lanes -> Requests \cup {None}]
  BY <1>1, LaneGoesOn
<1>6. /\ followers \subseteq Requests /\ r \notin followers /\ next \notin followers
      /\ \A q \in followers : at[q] = "parked" /\ leader[q] = r
      /\ \A q \in Requests \ followers : at[q] = "parked" => leader[q] # r
  BY <1>3, <1>5, HeldAssumption
     DEF ParkedBehind, FollowersHaveALeader, Fetches, Fetching, TypeOK
<1>7. /\ free \in [Keys -> Requests \cup {None}]
      /\ \A k \in Keys : free[k] # None => /\ free[k] = inFlight[k] /\ free[k] # r
                                           /\ free[k] \in misses /\ Key[free[k]] = k
      /\ \A k \in Keys : inFlight[k] # r => free[k] = inFlight[k]
  BY <1>3, HeldAssumption DEF Freed, Fetches, TypeOK
<1>8. /\ inFlight' = [k \in Keys |-> IF leads /\ k = Key[next] THEN next ELSE free[k]]
      /\ misses' = (misses \ {r}) \cup IF leads THEN {next} ELSE {}
      /\ leader' = [q \in Requests |-> IF parks /\ q = next THEN free[Key[q]]
                                       ELSE IF q = r THEN None ELSE leader[q]]
      /\ timers' = [q \in Requests |->
                      IF parks /\ q = next THEN timers[q] \cup {<<free[Key[q]], timeoutSeq[q]>>}
                      ELSE IF q = r THEN {} ELSE timers[q]]
  <2>1. CASE next = None
    BY <1>1, <2>1, HeldAssumption DEF ContinueArrival
  <2>2. CASE next # None
    BY <1>1, <1>5, <2>2 DEF ContinueArrival
  <2> QED BY <2>1, <2>2
<1>9. /\ parks => /\ Key[next] \in Keys /\ free[Key[next]] # None /\ ~leads
                  /\ at'[next] = "parked"
      /\ leads => /\ Key[next] \in Keys /\ free[Key[next]] = None /\ next \in Requests
                  /\ at'[next] = "working"
      /\ next # None => at'[next] \in {"working", "parked"} /\ (at'[next] = "parked" => parks)
      /\ at'[r] = "done"
      /\ \A q \in followers : at'[q] = "resolved"
      /\ \A q \in Requests \ (followers \cup {r, next}) : at'[q] = at[q]
  <2>1. parks => /\ Key[next] \in Keys /\ free[Key[next]] # None /\ ~leads
    BY <1>5, HeldAssumption DEF Follows, Leads
  <2>2. leads => Key[next] \in Keys /\ free[Key[next]] = None
    <3> SUFFICES ASSUME leads
                 PROVE  Key[next] \in Keys /\ free[Key[next]] = None
      OBVIOUS
    <3>1. Key[next] \in Keys /\ free[Key[next]] \in {None, next} /\ at[next] = "waiting"
      BY <1>5, HeldAssumption DEF Leads
    <3>2. free[Key[next]] = next => FALSE
      <4>1. free[Key[next]] # None => free[Key[next]] \in misses
        BY <1>7, <3>1
      <4> QED BY <1>3, <1>5, <3>1, <4>1, HeldAssumption DEF Fetches, Fetching
    <3> QED BY <3>1, <3>2
  <2>3. next # None => at'[next] = IF parks THEN "parked" ELSE "working"
    BY <1>1, <1>5, <1>6 DEF Continued
  <2>4. /\ at'[r] = "done"
        /\ \A q \in followers : at'[q] = "resolved"
        /\ \A q \in Requests \ (followers \cup {r, next}) : at'[q] = at[q]
    BY <1>1, <1>6
  <2> HIDE DEF parks, leads, followers, free
  <2>5. leads => ~parks
    BY <2>1
  <2>6. leads => next \in Requests
    BY DEF leads
  <2> QED BY <2>1, <2>2, <2>3, <2>4, <2>5, <2>6 DEF parks, leads
<1>10. at' \in [Requests -> Places]
  BY <1>1, <1>3 DEF TypeOK, Places, Continued
<1> HIDE DEF followers, free, parks, leads
<1>11. TypeOK'
  <2>1. /\ outcome' \in [Requests -> Statuses \cup {None}]
        /\ fate' \in [Requests -> Statuses \cup {None}]
        /\ retries' \in [Requests -> Nat] /\ timeoutSeq' \in [Requests -> Nat]
        /\ arrived' \in [Lanes -> Seq(Requests)]
    BY <1>2, <1>3, <1>4 DEF TypeOK
  <2>2. /\ inFlight' \in [Keys -> Requests \cup {None}] /\ misses' \subseteq Requests
    BY <1>3, <1>5, <1>7, <1>8, <1>9 DEF TypeOK
  <2>5. leader' \in [Requests -> Requests \cup {None}]
    <3>1. parks => free[Key[next]] \in Requests \cup {None}
      BY <1>7, <1>9
    <3>2. ASSUME NEW q \in Requests
          PROVE  leader'[q] \in Requests \cup {None}
      BY <1>3, <1>8, <3>1 DEF TypeOK
    <3> QED BY <1>8, <3>2
  <2>3. timers' \in [Requests -> SUBSET (Requests \X Nat)]
    <3>1. parks => <<free[Key[next]], timeoutSeq[next]>> \in Requests \X Nat
      BY <1>3, <1>5, <1>7, <1>9 DEF TypeOK, parks
    <3>2. ASSUME NEW q \in Requests
          PROVE  timers'[q] \subseteq Requests \X Nat
      BY <1>3, <1>8, <3>1 DEF TypeOK
    <3> QED BY <1>8, <3>2
  <2>4. applied' \in [Keys -> Nat] /\ reordered' \subseteq Requests
    <3>1. Key[r] # NoKey => Key[r] \in Keys
      BY HeldAssumption
    <3>2. Change[r] \in Nat
      BY HeldAssumption
    <3> QED BY <1>2, <1>3, <3>1, <3>2 DEF TypeOK, ApplyChange, streamVars
  <2> QED BY <1>5, <1>10, <2>1, <2>2, <2>3, <2>4, <2>5 DEF TypeOK
<1>12. Fetches'
  <2>1. ASSUME NEW q \in misses'
        PROVE  /\ Key[q] \in Keys /\ Fetching(q)' /\ inFlight'[Key[q]] = q
               /\ Lane[q] # NoLane => at'[q] = "working"
    <3>1. CASE leads /\ q = next
      BY <1>5, <1>8, <1>9, <3>1 DEF Fetching
    <3>2. CASE ~(leads /\ q = next)
      <4>1. /\ q \in misses /\ q # r /\ q \in Requests
            /\ Key[q] \in Keys /\ Fetching(q) /\ inFlight[Key[q]] = q
            /\ Lane[q] # NoLane => at[q] = "working"
        BY <1>3, <1>8, <2>1, <3>2 DEF Fetches, TypeOK
      <4>2. q \notin followers /\ q # next
        BY <1>5, <1>6, <4>1, HeldAssumption DEF Fetching
      <4>3. free[Key[q]] = q
        BY <1>7, <4>1
      <4>4. ~(leads /\ Key[q] = Key[next])
        BY <1>9, <4>1, <4>3, HeldAssumption
      <4> QED BY <1>8, <1>9, <4>1, <4>2, <4>3, <4>4 DEF Fetching
    <3> QED BY <3>1, <3>2
  <2>2. ASSUME NEW k \in Keys, inFlight'[k] # None
        PROVE  inFlight'[k] \in misses' /\ Key[inFlight'[k]] = k
    BY <1>7, <1>8, <2>2
  <2> QED BY <2>1, <2>2 DEF Fetches
<1>13. FollowersHaveALeader'
  <2> SUFFICES ASSUME NEW q \in Requests, at'[q] = "parked"
               PROVE  /\ leader'[q] \in misses' /\ Key[q] # NoKey
                      /\ inFlight'[Key[q]] = leader'[q]
    BY DEF FollowersHaveALeader
  <2>1. CASE q = next
    <3>1. parks /\ ~leads /\ Key[q] \in Keys /\ free[Key[q]] # None
      BY <1>5, <1>9, <2>1, HeldAssumption
    <3>2. leader'[q] = free[Key[q]] /\ inFlight'[Key[q]] = free[Key[q]]
      BY <1>8, <2>1, <3>1
    <3> QED BY <1>7, <1>8, <3>1, <3>2, HeldAssumption
  <2>2. CASE q # next
    <3>1. q # r /\ q \notin followers /\ at[q] = "parked"
      BY <1>9, <2>2
    <3>2. /\ leader[q] \in misses /\ leader[q] # r /\ Key[q] # NoKey /\ Key[q] \in Keys
          /\ inFlight[Key[q]] = leader[q] /\ leader[q] \in Requests
      BY <1>3, <1>6, <3>1, HeldAssumption DEF FollowersHaveALeader, TypeOK
    <3>3. free[Key[q]] = leader[q] /\ leader[q] # None
      BY <1>7, <3>2, HeldAssumption
    <3>4. ~(leads /\ Key[q] = Key[next])
      BY <1>9, <3>3
    <3> QED BY <1>8, <2>2, <3>1, <3>2, <3>3, <3>4
  <2> QED BY <2>1, <2>2
<1>14. Timers'
  <2> SUFFICES ASSUME NEW q \in Requests
               PROVE  SoundTimers(q)'
    BY DEF Timers
  <2>1. /\ SoundTimers(q) /\ timeoutSeq[q] \in Nat
        /\ \A timer \in timers[q] : timer[2] \in Nat
    BY <1>3 DEF Timers, TypeOK
  <2>2. CASE q = r
    BY <1>5, <1>8, <2>2 DEF SoundTimers, parks
  <2>3. CASE q \in followers
    BY <1>2, <1>6, <1>8, <2>1, <2>3 DEF SoundTimers
  <2>4. CASE q \notin followers /\ q = next
    <3>1. at[q] # "parked" /\ q # r
      BY <1>5, <2>4, HeldAssumption
    <3>2. timeoutSeq'[q] = timeoutSeq[q]
      BY <1>2, <2>4
    <3>3. /\ ~parks => timers'[q] = timers[q]
          /\ parks => timers'[q] = timers[q] \cup {<<free[Key[q]], timeoutSeq[q]>>}
      BY <1>8, <2>4, <3>1
    <3> QED BY <1>9, <2>1, <2>4, <3>1, <3>2, <3>3 DEF SoundTimers
  <2>5. CASE q # r /\ q \notin followers /\ q # next
    BY <1>2, <1>8, <1>9, <2>1, <2>5 DEF SoundTimers
  <2> QED BY <2>2, <2>3, <2>4, <2>5
<1>15. Fates'
  <2> SUFFICES ASSUME NEW q \in Requests
               PROVE  SoundFate(q)'
    BY DEF Fates
  <2>1. SoundFate(q) /\ SoundFate(r)
    BY <1>3 DEF Fates
  <2>2. /\ outcome'[r] = status
        /\ \A p \in Requests \ {r} : outcome'[p] = outcome[p]
        /\ \A p \in Requests : at[p] = "done" => at'[p] = "done" /\ p # r
    <3>1. /\ outcome'[r] = status
          /\ \A p \in Requests \ {r} : outcome'[p] = outcome[p]
      BY <1>2, <1>3 DEF TypeOK
    <3>2. ASSUME NEW p \in Requests, at[p] = "done"
          PROVE  at'[p] = "done" /\ p # r
      <4>1. p # r /\ p \notin followers /\ p # next
        BY <1>4, <1>5, <1>6, <3>2, HeldAssumption
      <4> QED BY <1>9, <3>2, <4>1
    <3> QED BY <3>1, <3>2
  <2>3. CASE q = r
    BY <1>2, <1>4, <1>6, <1>9, <2>1, <2>2, <2>3 DEF SoundFate, MayEnd
  <2>4. CASE q \in followers
    <3>1. leader'[q] = r /\ q # r /\ fate'[q] = status
      BY <1>2, <1>5, <1>6, <1>8, <2>4
    <3> QED BY <1>6, <1>9, <2>1, <2>2, <2>4, <3>1 DEF SoundFate
  <2>5. CASE q \notin followers /\ q = next
    <3>1. at[q] = "waiting" /\ q # r
      BY <1>5, <2>5, HeldAssumption
    <3> QED BY <1>2, <1>9, <2>1, <2>2, <2>5, <3>1, HeldAssumption DEF SoundFate
  <2>6. CASE q # r /\ q \notin followers /\ q # next
    <3>1. /\ at'[q] = at[q] /\ fate'[q] = fate[q] /\ leader'[q] = leader[q]
          /\ outcome'[q] = outcome[q]
      BY <1>2, <1>8, <1>9, <2>2, <2>6
    <3> QED BY <2>1, <2>2, <3>1 DEF SoundFate
  <2> QED BY <2>3, <2>4, <2>5, <2>6
<1>16. Lines'
  <2> SUFFICES ASSUME NEW l \in Lanes
               PROVE  /\ \A i \in 1 .. Len(waiting'[l]) :
                           at'[waiting'[l][i]] = "waiting" /\ Lane[waiting'[l][i]] = l
                      /\ \A i, j \in 1 .. Len(waiting'[l]) :
                           waiting'[l][i] = waiting'[l][j] => i = j
    BY DEF Lines
  <2>1. \A q \in Requests : at[q] = "waiting" /\ q # r /\ q # next => at'[q] = "waiting"
    BY <1>6, <1>9
  <2>2. CASE l # Lane[r]
    <3>1. waiting'[l] = waiting[l]
      BY <1>1, <1>3, <2>2, LaneGoesOn DEF TypeOK
    <3>2. \A i \in 1 .. Len(waiting[l]) :
            /\ waiting[l][i] \in Requests /\ at[waiting[l][i]] = "waiting"
            /\ Lane[waiting[l][i]] = l
      BY <1>3 DEF Lines, TypeOK
    <3>3. \A i \in 1 .. Len(waiting[l]) : waiting[l][i] # r /\ waiting[l][i] # next
      BY <1>5, <2>2, <3>2, HeldAssumption
    <3> QED BY <1>3, <2>1, <3>1, <3>2, <3>3 DEF Lines
  <2>3. CASE l = Lane[r] /\ next = None
    <3>1. waiting'[l] = line
      BY <1>1, <1>3, <2>3, HeldAssumption, LaneGoesOn DEF TypeOK
    <3>2. \A i \in 1 .. Len(line) : line[i] \in Requests /\ line[i] # next
      BY <2>3, HeldAssumption DEF RestOfLine
    <3> QED BY <2>1, <2>3, <3>1, <3>2 DEF RestOfLine
  <2>4. CASE l = Lane[r] /\ next # None
    <3>1. waiting'[l] = Tail(line) /\ line # <<>> /\ next = line[1]
      BY <1>1, <1>3, <2>4, LaneGoesOn DEF TypeOK
    <3>2. line \in Seq(Requests)
      BY DEF RestOfLine
    <3>3. /\ Len(Tail(line)) = Len(line) - 1
          /\ \A i \in 1 .. Len(Tail(line)) : Tail(line)[i] = line[i + 1]
                                             /\ i + 1 \in 1 .. Len(line) /\ i + 1 # 1
      BY <3>1, <3>2
    <3>4. \A i \in 1 .. Len(Tail(line)) :
            /\ Tail(line)[i] \in Requests /\ Tail(line)[i] # next /\ Tail(line)[i] # r
            /\ at[Tail(line)[i]] = "waiting" /\ Lane[Tail(line)[i]] = l
      BY <2>4, <3>1, <3>2, <3>3 DEF RestOfLine
    <3>5. \A i, j \in 1 .. Len(Tail(line)) : Tail(line)[i] = Tail(line)[j] => i = j
      BY <3>3 DEF RestOfLine
    <3> QED BY <2>1, <3>1, <3>4, <3>5
  <2> QED BY <2>2, <2>3, <2>4
<1>17. Waiters'
  <2> SUFFICES ASSUME NEW q \in Requests, at'[q] = "waiting"
               PROVE  Lane[q] \in Lanes
    BY DEF Waiters
  <2>1. q # r /\ q \notin followers
    BY <1>9
  <2>2. q # next
    BY <1>9, HeldAssumption
  <2> QED BY <1>3, <1>9, <2>1, <2>2 DEF Waiters
<1> QED BY <1>11, <1>12, <1>13, <1>14, <1>15, <1>16, <1>17 DEF FlightInv

-----------------------------------------------------------------------------
(* The other steps, and the fetches *)

\* A request that arrives leads, follows or works.
LEMMA ArriveKeepsFlight ==
  ASSUME FlightInv, NEW r \in Requests, Arrive(r)
  PROVE  FlightInv'
<1>1. PICK missed \in BOOLEAN :
        /\ ContinueArrival(r, None, missed, inFlight)
        /\ at' = [at EXCEPT ![r] = Continued(r, missed, inFlight)]
  BY DEF Arrive
<1> DEFINE parks == Follows(r, missed, inFlight)
           leads == Leads(r, missed, inFlight)
<1>2. TypeOK /\ Lines /\ Waiters /\ Fetches /\ FollowersHaveALeader /\ Timers /\ Fates
  BY DEF FlightInv
<1>3. /\ at[r] = "coming" /\ TakeLane(r)
      /\ UNCHANGED <<outcome, retries, timeoutSeq, fate, streamVars>>
  BY DEF Arrive
<1>4. r # None
  BY HeldAssumption
<1>5. /\ inFlight' = [k \in Keys |-> IF leads /\ k = Key[r] THEN r ELSE inFlight[k]]
      /\ misses' = misses \cup IF leads THEN {r} ELSE {}
      /\ leader' = [q \in Requests |-> IF q = r /\ parks THEN inFlight[Key[q]] ELSE leader[q]]
      /\ timers' = [q \in Requests |->
                      IF q = r /\ parks THEN timers[q] \cup {<<inFlight[Key[q]], timeoutSeq[q]>>}
                      ELSE timers[q]]
  <2>1. None \notin Requests /\ misses \subseteq Requests
    BY <1>2, HeldAssumption DEF TypeOK
  <2>2. inFlight' = [k \in Keys |-> IF leads /\ k = Key[r] THEN r ELSE inFlight[k]]
    BY <1>1, <1>4 DEF ContinueArrival
  <2>3. misses' = misses \cup IF leads THEN {r} ELSE {}
    BY <1>1, <2>1 DEF ContinueArrival
  <2> QED BY <1>1, <2>1, <2>2, <2>3 DEF ContinueArrival
<1>6. /\ parks => /\ Key[r] \in Keys /\ inFlight[Key[r]] \in Requests \ {r} /\ ~leads
      /\ leads => Key[r] \in Keys /\ inFlight[Key[r]] \in {None, r} /\ ~parks
  BY <1>2, HeldAssumption DEF Follows, Leads, TypeOK
<1>7. /\ at' = [at EXCEPT ![r] = IF parks THEN "parked" ELSE "working"]
      /\ at'[r] = IF parks THEN "parked" ELSE "working"
      /\ \A q \in Requests \ {r} : at'[q] = at[q]
  BY <1>1, <1>2 DEF Continued, TypeOK
<1> HIDE DEF parks, leads
<1>8. /\ waiting' = waiting
      /\ holder' \in [Lanes -> Requests \cup {None}] /\ arrived' \in [Lanes -> Seq(Requests)]
  <2>1. CASE Lane[r] = NoLane
    BY <1>2, <1>3, <2>1 DEF TakeLane, laneVars, TypeOK
  <2>2. CASE Lane[r] # NoLane
    <3>1. Lane[r] \in Lanes /\ arrived[Lane[r]] \in Seq(Requests)
      BY <1>2, <2>2, HeldAssumption DEF TypeOK
    <3>2. Append(arrived[Lane[r]], r) \in Seq(Requests)
      BY <3>1
    <3> QED BY <1>2, <1>3, <2>2, <3>1, <3>2 DEF TakeLane, TypeOK
  <2> QED BY <2>1, <2>2
<1>9. TypeOK'
  <2>1. at' \in [Requests -> Places]
    BY <1>2, <1>7 DEF TypeOK, Places
  <2>2. inFlight' \in [Keys -> Requests \cup {None}] /\ misses' \subseteq Requests
    BY <1>2, <1>5 DEF TypeOK
  <2>3. leader' \in [Requests -> Requests \cup {None}]
    BY <1>2, <1>5, <1>6 DEF TypeOK
  <2>4. timers' \in [Requests -> SUBSET (Requests \X Nat)]
    <3>1. parks => <<inFlight[Key[r]], timeoutSeq[r]>> \in Requests \X Nat
      BY <1>2, <1>6 DEF TypeOK
    <3>2. timers'[r] \subseteq Requests \X Nat
      BY <1>2, <1>5, <3>1 DEF TypeOK
    <3> QED BY <1>2, <1>5, <3>2 DEF TypeOK
  <2> QED BY <1>2, <1>3, <1>8, <2>1, <2>2, <2>3, <2>4 DEF TypeOK, streamVars
<1>10. Lines'
  BY <1>2, <1>3, <1>7, <1>8 DEF Lines, TypeOK
<1>11. Fetches'
  <2>1. ASSUME NEW q \in misses'
        PROVE  /\ Key[q] \in Keys /\ Fetching(q)' /\ inFlight'[Key[q]] = q
               /\ Lane[q] # NoLane => at'[q] = "working"
    <3>1. CASE q = r
      <4>1. q \in misses => Key[q] \in Keys /\ inFlight[Key[q]] = q
        BY <1>2 DEF Fetches
      <4>2. ~parks
        BY <1>5, <1>6, <2>1, <3>1, <4>1
      <4> QED BY <1>2, <1>5, <1>6, <1>7, <2>1, <3>1, <4>1, <4>2 DEF Fetching, TypeOK
    <3>2. CASE q # r
      <4>1. /\ q \in misses /\ q \in Requests /\ Key[q] \in Keys /\ Fetching(q)
            /\ inFlight[Key[q]] = q /\ (Lane[q] # NoLane => at[q] = "working")
        BY <1>2, <1>5, <2>1, <3>2 DEF Fetches, TypeOK
      <4>2. ~(leads /\ Key[q] = Key[r])
        BY <1>6, <3>2, <4>1, HeldAssumption
      <4> QED BY <1>5, <1>7, <3>2, <4>1, <4>2 DEF Fetching
    <3> QED BY <3>1, <3>2
  <2>2. ASSUME NEW k \in Keys, inFlight'[k] # None
        PROVE  inFlight'[k] \in misses' /\ Key[inFlight'[k]] = k
    BY <1>2, <1>5, <2>2 DEF Fetches
  <2> QED BY <2>1, <2>2 DEF Fetches
<1>12. FollowersHaveALeader'
  <2> SUFFICES ASSUME NEW q \in Requests, at'[q] = "parked"
               PROVE  /\ leader'[q] \in misses' /\ Key[q] # NoKey
                      /\ inFlight'[Key[q]] = leader'[q]
    BY DEF FollowersHaveALeader
  <2>1. CASE q = r
    <3>1. parks /\ Key[r] \in Keys /\ inFlight[Key[r]] \in Requests /\ ~leads
      BY <1>6, <1>7, <2>1
    <3>2. inFlight[Key[r]] \in misses
      BY <1>2, <3>1, HeldAssumption DEF Fetches
    <3>3. leader'[q] = inFlight[Key[r]]
      BY <1>2, <1>5, <2>1, <3>1 DEF TypeOK
    <3> QED BY <1>5, <2>1, <3>1, <3>2, <3>3, HeldAssumption
  <2>2. CASE q # r
    <3>1. /\ leader[q] \in misses /\ Key[q] # NoKey /\ Key[q] \in Keys
          /\ inFlight[Key[q]] = leader[q] /\ leader[q] \in Requests
      <4>1. at[q] = "parked"
        BY <1>7, <2>2
      <4>2. leader[q] \in misses /\ Key[q] # NoKey /\ inFlight[Key[q]] = leader[q]
        BY <1>2, <4>1 DEF FollowersHaveALeader
      <4> QED BY <1>2, <4>2, HeldAssumption DEF TypeOK
    <3>2. leads /\ Key[q] = Key[r] => leader[q] = r
      BY <1>6, <3>1, HeldAssumption
    <3> QED BY <1>2, <1>5, <2>2, <3>1, <3>2 DEF TypeOK
  <2> QED BY <2>1, <2>2
<1>13. Timers'
  <2> SUFFICES ASSUME NEW q \in Requests
               PROVE  SoundTimers(q)'
    BY DEF Timers
  <2>1. SoundTimers(q) /\ timeoutSeq'[q] = timeoutSeq[q]
    BY <1>2, <1>3 DEF Timers
  <2>2. CASE q = r
    <3>1. /\ ~parks => timers'[q] = timers[q]
          /\ parks => timers'[q] = timers[q] \cup {<<inFlight[Key[q]], timeoutSeq[q]>>}
      BY <1>2, <1>5, <2>2 DEF TypeOK
    <3>2. timeoutSeq[q] \in Nat
      BY <1>2 DEF TypeOK
    <3> QED BY <1>3, <1>7, <2>1, <2>2, <3>1, <3>2 DEF SoundTimers
  <2>3. CASE q # r
    BY <1>2, <1>5, <1>7, <2>1, <2>3 DEF SoundTimers, TypeOK
  <2> QED BY <2>2, <2>3
<1>14. Fates'
  <2> SUFFICES ASSUME NEW q \in Requests
               PROVE  SoundFate(q)'
    BY DEF Fates
  <2>1. SoundFate(q)
    BY <1>2 DEF Fates
  <2>2. CASE q = r
    BY <1>3, <1>7, <2>1, <2>2 DEF SoundFate
  <2>3. CASE q # r
    <3>1. leader'[q] = leader[q] /\ at'[q] = at[q]
      BY <1>2, <1>5, <1>7, <2>3 DEF TypeOK
    <3> QED BY <1>3, <1>7, <2>1, <3>1 DEF SoundFate
  <2> QED BY <2>2, <2>3
<1>15. Waiters'
  BY <1>2, <1>7 DEF Waiters
<1> QED BY <1>9, <1>10, <1>11, <1>12, <1>13, <1>14, <1>15 DEF FlightInv

\* A request that waits for its lane is at one more place of its line.
LEMMA HoldKeepsFlight ==
  ASSUME FlightInv, NEW r \in Requests, HoldForOrderingLane(r)
  PROVE  FlightInv'
<1> DEFINE l == Lane[r]
<1>1. TypeOK /\ Lines /\ Waiters /\ Fetches /\ FollowersHaveALeader /\ Timers /\ Fates
  BY DEF FlightInv
<1>2. /\ l \in Lanes /\ waiting[l] \in Seq(Requests) /\ arrived[l] \in Seq(Requests)
  BY <1>1, HeldAssumption DEF HoldForOrderingLane, LaneTaken, TypeOK
<1>3. /\ at[r] = "coming" /\ at' = [at EXCEPT ![r] = "waiting"]
      /\ waiting' = [waiting EXCEPT ![l] = Append(waiting[l], r)]
      /\ arrived' = [arrived EXCEPT ![l] = Append(arrived[l], r)]
      /\ UNCHANGED <<outcome, retries, timeoutSeq, timers, leader, fate, inFlight, misses,
                     holder, applied, reordered>>
  BY DEF HoldForOrderingLane, streamVars
<1>4. /\ Append(waiting[l], r) \in Seq(Requests) /\ Len(Append(waiting[l], r)) = Len(waiting[l]) + 1
      /\ \A i \in 1 .. Len(waiting[l]) + 1 :
           Append(waiting[l], r)[i] = IF i = Len(waiting[l]) + 1 THEN r ELSE waiting[l][i]
      /\ Append(arrived[l], r) \in Seq(Requests)
  BY <1>2
<1> HIDE DEF l
<1>5. TypeOK'
  BY <1>1, <1>2, <1>3, <1>4 DEF TypeOK, Places
<1>6. at'[r] = "waiting" /\ \A q \in Requests \ {r} : at'[q] = at[q]
  BY <1>1, <1>3 DEF TypeOK
<1>7. Lines'
  <2> SUFFICES ASSUME NEW m \in Lanes
               PROVE  /\ \A i \in 1 .. Len(waiting'[m]) :
                           at'[waiting'[m][i]] = "waiting" /\ Lane[waiting'[m][i]] = m
                      /\ \A i, j \in 1 .. Len(waiting'[m]) :
                           waiting'[m][i] = waiting'[m][j] => i = j
    BY DEF Lines
  <2>1. /\ \A i \in 1 .. Len(waiting[m]) :
             /\ waiting[m][i] \in Requests /\ at[waiting[m][i]] = "waiting"
             /\ Lane[waiting[m][i]] = m
        /\ \A i, j \in 1 .. Len(waiting[m]) : waiting[m][i] = waiting[m][j] => i = j
    BY <1>1 DEF Lines, TypeOK
  <2>2. \A i \in 1 .. Len(waiting[m]) : waiting[m][i] # r /\ at'[waiting[m][i]] = "waiting"
    BY <1>3, <1>6, <2>1
  <2>3. CASE m # l
    BY <1>1, <1>3, <2>1, <2>2, <2>3 DEF TypeOK
  <2>4. CASE m = l
    <3>1. waiting'[m] = Append(waiting[l], r)
      BY <1>1, <1>3, <2>4 DEF TypeOK
    <3>2. Len(waiting'[m]) = Len(waiting[l]) + 1 /\ Len(waiting[l]) \in Nat
      BY <1>2, <1>4, <3>1
    <3>3. \A i \in 1 .. Len(waiting'[m]) :
            at'[waiting'[m][i]] = "waiting" /\ Lane[waiting'[m][i]] = m
      BY <1>4, <1>6, <2>1, <2>2, <2>4, <3>1, <3>2 DEF l
    <3>4. \A i, j \in 1 .. Len(waiting'[m]) : waiting'[m][i] = waiting'[m][j] => i = j
      BY <1>4, <2>1, <2>2, <2>4, <3>1, <3>2
    <3> QED BY <3>3, <3>4
  <2> QED BY <2>3, <2>4
<1>8. Fetches'
  <2>1. r \notin misses
    BY <1>1, <1>2, <1>3, HeldAssumption DEF Fetches, l
  <2> QED BY <1>1, <1>3, <1>6, <2>1 DEF Fetches, Fetching, TypeOK
<1>9. FollowersHaveALeader'
  BY <1>1, <1>3, <1>6 DEF FollowersHaveALeader
<1>10. Timers'
  BY <1>1, <1>3, <1>6 DEF Timers, SoundTimers
<1>11. Fates'
  BY <1>1, <1>3, <1>6 DEF Fates, SoundFate, TypeOK
<1>12. Waiters'
  BY <1>1, <1>2, <1>6 DEF Waiters, l
<1> QED BY <1>5, <1>7, <1>8, <1>9, <1>10, <1>11, <1>12 DEF FlightInv

\* A retry sends the request on its way again; a leader remains one.
LEMMA RetryKeepsFlight ==
  ASSUME FlightInv, NEW r \in Requests, at[r] \in {"working", "resolved"}, Retry(r)
  PROVE  FlightInv'
<1>1. TypeOK /\ Lines /\ Waiters /\ Fetches /\ FollowersHaveALeader /\ Timers /\ Fates
  BY DEF FlightInv
<1>2. /\ retries' = [retries EXCEPT ![r] = @ + 1] /\ at' = [at EXCEPT ![r] = "coming"]
      /\ fate' = [fate EXCEPT ![r] = None]
      /\ UNCHANGED <<outcome, timeoutSeq, timers, leader, inFlight, misses, holder, waiting,
                     arrived, applied, reordered>>
  BY DEF Retry, laneVars, streamVars
<1>3. /\ at'[r] = "coming" /\ \A q \in Requests \ {r} : at'[q] = at[q]
      /\ fate'[r] = None /\ \A q \in Requests \ {r} : fate'[q] = fate[q]
  BY <1>1, <1>2 DEF TypeOK
<1>4. Lane[r] = NoLane
  BY <1>1, HeldAssumption DEF Retry, TypeOK
<1>5. TypeOK'
  BY <1>1, <1>2 DEF TypeOK, Places
<1>6. Lines'
  BY <1>1, <1>2, <1>3 DEF Lines, TypeOK
<1>7. Fetches'
  BY <1>1, <1>2, <1>3, <1>4 DEF Fetches, Fetching, TypeOK
<1>8. FollowersHaveALeader'
  BY <1>1, <1>2, <1>3 DEF FollowersHaveALeader
<1>9. Timers'
  BY <1>1, <1>2, <1>3 DEF Timers, SoundTimers
<1>10. Fates'
  <2> SUFFICES ASSUME NEW q \in Requests
               PROVE  SoundFate(q)'
    BY DEF Fates
  <2>1. SoundFate(q)
    BY <1>1 DEF Fates
  <2> QED BY <1>2, <1>3, <2>1 DEF SoundFate
<1>11. Waiters'
  BY <1>1, <1>3 DEF Waiters
<1> QED BY <1>5, <1>6, <1>7, <1>8, <1>9, <1>10, <1>11 DEF FlightInv

\* A terminal at the end of a request's own way is one that may come, with the whole line.
LEMMA EndKeepsFlight ==
  ASSUME FlightInv, NEW r \in Requests, NEW status, MayEnd(r, status), at[r] # "waiting",
         Terminal(r, status)
  PROVE  FlightInv'
<1> DEFINE line == IF Lane[r] = NoLane THEN <<>> ELSE waiting[Lane[r]]
<1>1. RestOfLine(r, line)
  BY WholeLine
<1>2. MarkTerminal(r, status, line)
  BY DEF Terminal
<1> HIDE DEF line
<1> QED BY <1>1, <1>2, TerminalKeepsFlight

\* The ends that the actions bring may come.
LEMMA EndsMayCome ==
  ASSUME FlightInv, NEW r \in Requests
  PROVE  /\ at[r] \in {"coming", "waiting", "parked", "working"} =>
              \A status \in Statuses : MayEnd(r, status)
         /\ at[r] = "resolved" => MayEnd(r, fate[r])
<1>1. SoundFate(r) /\ fate[r] \in Statuses \cup {None}
  BY DEF FlightInv, Fates, TypeOK
<1>2. at[r] = "resolved" => fate[r] # None
  <2>1. at[r] = "resolved" => SoundFate(leader[r]) /\ outcome[leader[r]] # None
    BY <1>1 DEF FlightInv, Fates, SoundFate
  <2> QED BY <1>1, <2>1 DEF SoundFate
<1> QED BY <1>1, <1>2 DEF MayEnd

THEOREM FlightStep == FlightInv /\ [HeldNext]_vars => FlightInv'
<1> SUFFICES ASSUME FlightInv, [HeldNext]_vars
             PROVE  FlightInv'
  OBVIOUS
<1>1. CASE UNCHANGED vars
  BY <1>1 DEF vars, requestVars, laneVars, streamVars, FlightInv, TypeOK, Lines, Waiters, Fetches, Fetching,
              FollowersHaveALeader, Timers, SoundTimers, Fates, SoundFate
<1>2. ASSUME NEW r \in Requests, Proceed(r)
      PROVE  FlightInv'
  <2>1. CASE HoldForOrderingLane(r)
    BY <2>1, HoldKeepsFlight
  <2>2. CASE Arrive(r)
    BY <2>2, ArriveKeepsFlight
  <2>3. CASE Succeed(r)
    BY <2>3, EndsMayCome, EndKeepsFlight DEF Succeed, Statuses
  <2>4. CASE FailAtWork(r)
    BY <2>4, EndsMayCome, EndKeepsFlight, RetryKeepsFlight DEF FailAtWork, Fail, Statuses
  <2>5. CASE Refuse(r)
    BY <2>5, EndsMayCome, EndKeepsFlight DEF Refuse, Statuses
  <2>6. CASE Resolve(r)
    <3>1. at[r] = "resolved" /\ MayEnd(r, fate[r])
      BY <2>6, EndsMayCome DEF Resolve
    <3>2. CASE Retry(r)
      BY <3>1, <3>2, RetryKeepsFlight
    <3>3. CASE Terminal(r, fate[r])
      BY <3>1, <3>3, EndKeepsFlight
    <3>4. Retry(r) \/ Terminal(r, fate[r])
      BY <2>6 DEF Resolve, Fail
    <3> QED BY <3>2, <3>3, <3>4
  <2> QED BY <1>2, <2>1, <2>2, <2>3, <2>4, <2>5, <2>6 DEF Proceed
<1>3. ASSUME NEW r \in Requests, Expire(r)
      PROVE  FlightInv'
  <2>1. CASE Deadline(r)
    BY <2>1, EndsMayCome, EndKeepsFlight DEF Deadline, Statuses
  <2>2. CASE LaneDeadline(r)
    <3>1. at[r] = "waiting" /\ MayEnd(r, "final")
      BY <2>2, EndsMayCome DEF LaneDeadline, Statuses
    <3>2. PICK i \in 1 .. Len(waiting[Lane[r]]) :
            /\ waiting[Lane[r]][i] = r
            /\ MarkTerminal(r, "final", RemoveAt(waiting[Lane[r]], i))
      BY <2>2 DEF LaneDeadline
    <3>3. Lane[r] \in Lanes
      BY <3>1 DEF FlightInv, Waiters
    <3>4. RestOfLine(r, RemoveAt(waiting[Lane[r]], i))
      BY <3>2, <3>3, LineWithout
    <3> QED BY <3>1, <3>2, <3>4, TerminalKeepsFlight
  <2>3. CASE CollapseDeadline(r)
    <3>1. at[r] = "parked"
      BY <2>3 DEF CollapseDeadline, FlightInv, Timers, SoundTimers
    <3> QED BY <2>3, <3>1, EndsMayCome, EndKeepsFlight DEF CollapseDeadline, Statuses
  <2> QED BY <1>3, <2>1, <2>2, <2>3 DEF Expire
<1> QED BY <1>1, <1>2, <1>3 DEF HeldNext

LEMMA FlightInit == HeldInit => FlightInv
<1> SUFFICES ASSUME HeldInit
             PROVE  FlightInv
  OBVIOUS
<1>1. TypeOK
  BY DEF HeldInit, TypeOK, Places
<1>2. Lines /\ Waiters /\ Fetches /\ FollowersHaveALeader /\ Timers
  BY DEF HeldInit, Lines, Waiters, Fetches, FollowersHaveALeader, Timers, SoundTimers
<1>3. Fates
  BY DEF HeldInit, Fates, SoundFate
<1> QED BY <1>1, <1>2, <1>3 DEF FlightInv

\* The invariant of the fetches holds of every behaviour.
THEOREM FlightInvariant == HeldSpec => []FlightInv
<1>1. FlightInv /\ [HeldNext]_vars => FlightInv'
  BY FlightStep
<1> QED BY <1>1, FlightInit, PTL DEF HeldSpec

\* What is held keeps its types (traits/cache.ts, traits/changeStream.ts and the maps of
\* held requests in engine.ts).
THEOREM HeldTypeCorrect == HeldSpec => []TypeOK
<1>1. FlightInv => TypeOK
  BY DEF FlightInv
<1> QED BY <1>1, FlightInvariant, PTL

\* Request collapsing: one miss of a key fetches it at a time, whoever is parked waits
\* for a fetch under way, and a follower ends as its leader did.
THEOREM CollapsedMissesShareOneFetch == HeldSpec => []SingleFlight
<1>1. FlightInv => SingleFlight
  <2> SUFFICES ASSUME FlightInv
               PROVE  SingleFlight
    OBVIOUS
  <2>1. OneFetchPerKey
    BY DEF FlightInv, Fetches, OneFetchPerKey
  <2>2. FollowersHaveALeader
    BY DEF FlightInv
  <2>3. SharedFate
    <3> SUFFICES ASSUME NEW r \in Requests
                 PROVE  /\ at[r] = "resolved" => fate[r] = outcome[leader[r]] /\ fate[r] # None
                        /\ at[r] = "done" /\ fate[r] # None => outcome[r] = fate[r]
      BY DEF SharedFate
    <3>1. SoundFate(r)
      BY DEF FlightInv, Fates
    <3>2. at[r] = "resolved" => SoundFate(leader[r])
      BY <3>1 DEF FlightInv, Fates, SoundFate
    <3> QED BY <3>1, <3>2 DEF SoundFate
  <2> QED BY <2>1, <2>2, <2>3 DEF SingleFlight
<1> QED BY <1>1, FlightInvariant, PTL

-----------------------------------------------------------------------------
(* The lanes *)

\* A lane stays sound while its holder, its line and its arrivals do, and nobody in it
\* ends, comes or goes on.
LEMMA UntouchedLane ==
  ASSUME LaneInv, NEW l \in Lanes, holder'[l] = holder[l], waiting'[l] = waiting[l],
         arrived'[l] = arrived[l],
         \A q \in Requests : Lane[q] = l =>
           /\ outcome'[q] = outcome[q]
           /\ at'[q] # at[q] => at[q] \in InService /\ at'[q] \in InService
  PROVE  SoundLane(l)'
<1>1. SoundLane(l) /\ TypeOK /\ SoundArrivals(l) /\ SoundHolder(l) /\ SoundOrder(l) /\ SoundPassage(l)
  BY DEF LaneInv, FlightInv, SoundLane
<1>2. \A i \in 1 .. Len(arrived[l]) : arrived[l][i] \in Requests /\ Lane[arrived[l][i]] = l
  BY <1>1 DEF SoundArrivals, TypeOK
<1>3. \A q \in Requests : Lane[q] = l =>
        /\ at'[q] \in InService <=> at[q] \in InService
        /\ \A place \in {"coming", "waiting", "done"} : at'[q] = place <=> at[q] = place
        /\ GoneOn(q)' <=> GoneOn(q)
        /\ HasCome(q)' <=> HasCome(q)
  BY DEF InService, GoneOn, HasCome
<1>4. SoundArrivals(l)'
  BY <1>1, <1>2, <1>3 DEF SoundArrivals
<1>5. SoundHolder(l)'
  <2>1. holder[l] # None => holder[l] \in Requests
    BY <1>1 DEF TypeOK
  <2> QED BY <1>1, <1>3, <2>1 DEF SoundHolder
<1>6. SoundOrder(l)'
  BY <1>1, <1>2, <1>3 DEF SoundOrder
<1>7. SoundPassage(l)'
  BY <1>1, <1>2, <1>3 DEF SoundPassage
<1> QED BY <1>4, <1>5, <1>6, <1>7 DEF SoundLane

\* What came to a lane in some order has come in that order for good.
LEMMA OrderOfArrivalStays ==
  ASSUME ReorderedOnArrival, reordered' = reordered, reordered \subseteq Requests,
         \A l \in Lanes :
           /\ Len(arrived[l]) \in Nat /\ Len(arrived'[l]) \in Nat
           /\ Len(arrived[l]) <= Len(arrived'[l])
           /\ \A i \in 1 .. Len(arrived[l]) : arrived'[l][i] = arrived[l][i]
  PROVE  ReorderedOnArrival'
<1>1. ASSUME NEW a \in Requests, NEW b \in Requests, Before(a, b)
      PROVE  Before(a, b)'
  <2> PICK l \in Lanes : \E i, j \in 1 .. Len(arrived[l]) :
        i < j /\ arrived[l][i] = a /\ arrived[l][j] = b
    BY <1>1 DEF Before
  <2>1. PICK i \in 1 .. Len(arrived[l]), j \in 1 .. Len(arrived[l]) :
          i < j /\ arrived[l][i] = a /\ arrived[l][j] = b
    OBVIOUS
  <2>2. /\ i \in 1 .. Len(arrived'[l]) /\ arrived'[l][i] = a
         /\ j \in 1 .. Len(arrived'[l]) /\ arrived'[l][j] = b
    <3>1. /\ Len(arrived[l]) \in Nat /\ Len(arrived'[l]) \in Nat
          /\ Len(arrived[l]) <= Len(arrived'[l])
          /\ arrived'[l][i] = arrived[l][i] /\ arrived'[l][j] = arrived[l][j]
      OBVIOUS
    <3> QED BY <2>1, <3>1
  <2> QED BY <2>1, <2>2 DEF Before
<1>2. ASSUME NEW r \in reordered, ShareALane(Key[r])
      PROVE  \E b \in Requests : Key[b] = Key[r] /\ Change[b] > Change[r] /\ Before(b, r)
  BY <1>2 DEF ReorderedOnArrival
<1> QED BY <1>1, <1>2 DEF ReorderedOnArrival, ShareALane

\* A retry is not of a delivery, so that it touches no lane.
LEMMA RetryKeepsLanes ==
  ASSUME LaneInv, NEW r \in Requests, Retry(r)
  PROVE  (\A l \in Lanes : SoundLane(l)') /\ Applied' /\ ReorderedOnArrival'
<1>1. TypeOK
  BY DEF LaneInv, FlightInv
<1>2. /\ retries[r] < MaxRetries[r] /\ at' = [at EXCEPT ![r] = "coming"]
      /\ UNCHANGED <<outcome, holder, waiting, arrived, applied, reordered>>
  BY DEF Retry, laneVars, streamVars
<1>3. Lane[r] = NoLane
  BY <1>1, <1>2, HeldAssumption DEF TypeOK
<1>4. ASSUME NEW l \in Lanes
      PROVE  SoundLane(l)'
  <2>1. \A q \in Requests : Lane[q] = l =>
          /\ outcome'[q] = outcome[q]
          /\ at'[q] # at[q] => at[q] \in InService /\ at'[q] \in InService
    BY <1>1, <1>2, <1>3, HeldAssumption DEF TypeOK
  <2>2. holder'[l] = holder[l] /\ waiting'[l] = waiting[l] /\ arrived'[l] = arrived[l]
    BY <1>2
  <2> QED BY <2>1, <2>2, UntouchedLane
<1>5. Applied' /\ ReorderedOnArrival'
  BY <1>2 DEF LaneInv, Applied, ReorderedOnArrival, ShareALane, Before
<1> QED BY <1>4, <1>5

\* A request that waits for its lane is the last to have come.
LEMMA HoldKeepsLanes ==
  ASSUME LaneInv, NEW r \in Requests, HoldForOrderingLane(r)
  PROVE  (\A l \in Lanes : SoundLane(l)') /\ Applied' /\ ReorderedOnArrival'
<1> DEFINE l == Lane[r]
           n == Len(arrived[l]) + 1
           m == Len(waiting[l]) + 1
<1>1. TypeOK /\ FlightInv
  BY DEF LaneInv, FlightInv
<1>2. /\ l \in Lanes /\ waiting[l] \in Seq(Requests) /\ arrived[l] \in Seq(Requests)
      /\ holder[l] \in Requests /\ holder[l] # r
  BY <1>1, HeldAssumption DEF HoldForOrderingLane, LaneTaken, TypeOK
<1>3. /\ at[r] = "coming" /\ at' = [at EXCEPT ![r] = "waiting"]
      /\ waiting' = [waiting EXCEPT ![l] = Append(waiting[l], r)]
      /\ arrived' = [arrived EXCEPT ![l] = Append(arrived[l], r)]
      /\ UNCHANGED <<outcome, holder, applied, reordered>>
  BY DEF HoldForOrderingLane, streamVars
<1>4. /\ waiting'[l] = Append(waiting[l], r) /\ Len(waiting'[l]) = m
      /\ \A i \in 1 .. m : waiting'[l][i] = IF i = m THEN r ELSE waiting[l][i]
      /\ m \in Nat /\ m - 1 = Len(waiting[l])
  BY <1>1, <1>2, <1>3 DEF TypeOK
<1>5. /\ arrived'[l] = Append(arrived[l], r) /\ Len(arrived'[l]) = n
      /\ \A i \in 1 .. n : arrived'[l][i] = IF i = n THEN r ELSE arrived[l][i]
      /\ n \in Nat /\ n - 1 = Len(arrived[l])
  <2>1. arrived'[l] = Append(arrived[l], r)
    BY <1>1, <1>2, <1>3 DEF TypeOK
  <2> QED BY <1>2, <2>1
<1>6. at'[r] = "waiting" /\ \A q \in Requests \ {r} : at'[q] = at[q]
  BY <1>1, <1>3 DEF TypeOK
<1>7. SoundArrivals(l) /\ SoundHolder(l) /\ SoundOrder(l) /\ SoundPassage(l)
  BY <1>2 DEF LaneInv, SoundLane
<1>8. outcome[r] # "success"
  BY <1>1, <1>3, HeldAssumption DEF FlightInv, Fates, SoundFate, Statuses
<1>9. /\ \A i \in 1 .. n - 1 : arrived[l][i] \in Requests \ {r} /\ Lane[arrived[l][i]] = l
      /\ \A i \in 1 .. m - 1 : waiting[l][i] \in Requests \ {r}
  BY <1>1, <1>2, <1>3, <1>4, <1>5, <1>7 DEF SoundArrivals, FlightInv, Lines
<1>10. Lane[r] = l
  OBVIOUS
<1> HIDE DEF l, n, m
<1>11. SoundArrivals(l)'
  <2>1. \A i \in 1 .. n : Lane[arrived'[l][i]] = l /\ at'[arrived'[l][i]] # "coming"
    BY <1>5, <1>6, <1>7, <1>9, <1>10 DEF SoundArrivals
  <2>2. \A i, j \in 1 .. n : arrived'[l][i] = arrived'[l][j] => i = j
    BY <1>5, <1>7, <1>9 DEF SoundArrivals
  <2>3. ASSUME NEW q \in Requests, Lane[q] = l, HasCome(q)'
        PROVE  \E i \in 1 .. n : arrived'[l][i] = q
    <3>1. CASE q = r
      BY <1>5, <3>1
    <3>2. CASE q # r
      <4>1. HasCome(q)
        BY <1>3, <1>6, <2>3, <3>2 DEF HasCome
      <4>2. PICK i \in 1 .. n - 1 : arrived[l][i] = q
        BY <1>5, <1>7, <2>3, <4>1 DEF SoundArrivals
      <4> QED BY <1>5, <4>2
    <3> QED BY <3>1, <3>2
  <2> QED BY <1>5, <2>1, <2>2, <2>3 DEF SoundArrivals
<1>12. SoundHolder(l)'
  <2>1. holder'[l] = holder[l] /\ at'[holder[l]] = at[holder[l]] /\ holder[l] # None
    BY <1>2, <1>3, <1>6, HeldAssumption
  <2>2. ASSUME NEW q \in Requests, Lane[q] = l, at'[q] \in InService
        PROVE  holder'[l] = q
    BY <1>6, <1>7, <2>1, <2>2 DEF SoundHolder, InService
  <2>3. ASSUME NEW q \in Requests, Lane[q] = l, at'[q] = "waiting"
        PROVE  \E i \in 1 .. m : waiting'[l][i] = q
    <3>1. CASE q = r
      BY <1>4, <3>1
    <3>2. CASE q # r
      <4>1. PICK i \in 1 .. m - 1 : waiting[l][i] = q
        BY <1>4, <1>6, <1>7, <2>3, <3>2 DEF SoundHolder
      <4> QED BY <1>4, <4>1
    <3> QED BY <3>1, <3>2
  <2> QED BY <1>4, <1>7, <2>1, <2>2, <2>3 DEF SoundHolder
<1>13. SoundOrder(l)'
  <2> SUFFICES ASSUME NEW a \in 1 .. n, NEW b \in 1 .. n
               PROVE  /\ arrived'[l][a] = holder'[l] /\ at'[arrived'[l][b]] = "waiting" => a < b
                      /\ \A i, j \in 1 .. m :
                           i < j /\ arrived'[l][a] = waiting'[l][i]
                                 /\ arrived'[l][b] = waiting'[l][j] => a < b
    BY <1>4, <1>5 DEF SoundOrder
  <2>1. ASSUME arrived'[l][a] = holder'[l], at'[arrived'[l][b]] = "waiting"
        PROVE  a < b
    <3>1. a # n /\ arrived'[l][a] = arrived[l][a] /\ a \in 1 .. n - 1
      BY <1>2, <1>3, <1>5, <2>1
    <3>2. CASE b = n
      BY <1>5, <3>1, <3>2
    <3>3. CASE b # n
      <4>1. b \in 1 .. n - 1 /\ at[arrived[l][b]] = "waiting"
        BY <1>5, <1>6, <1>9, <2>1, <3>3
      <4> QED BY <1>3, <1>5, <1>7, <2>1, <3>1, <4>1 DEF SoundOrder
    <3> QED BY <3>2, <3>3
  <2>2. ASSUME NEW i \in 1 .. m, NEW j \in 1 .. m, i < j,
               arrived'[l][a] = waiting'[l][i], arrived'[l][b] = waiting'[l][j]
        PROVE  a < b
    <3>1. i \in 1 .. m - 1 /\ waiting'[l][i] = waiting[l][i] /\ waiting[l][i] # r
      BY <1>4, <1>9, <2>2
    <3>2. a \in 1 .. n - 1 /\ arrived[l][a] = waiting[l][i]
      BY <1>5, <2>2, <3>1
    <3>3. CASE b = n
      BY <1>5, <3>2, <3>3
    <3>4. CASE b # n
      <4>1. b \in 1 .. n - 1 /\ arrived'[l][b] = arrived[l][b] /\ arrived[l][b] # r
        BY <1>5, <1>9, <3>4
      <4>2. j # m
        BY <1>4, <2>2, <4>1
      <4>3. j \in 1 .. m - 1
        BY <1>4, <4>2
      <4>4. waiting'[l][j] = waiting[l][j]
        BY <1>4, <4>2
      <4>5. /\ a \in 1 .. Len(arrived[l]) /\ b \in 1 .. Len(arrived[l])
            /\ i \in 1 .. Len(waiting[l]) /\ j \in 1 .. Len(waiting[l])
        BY <1>4, <1>5, <3>1, <3>2, <4>1, <4>3
      <4>6. arrived[l][b] = waiting[l][j]
        BY <2>2, <4>1, <4>4
      <4> QED BY <1>7, <2>2, <3>2, <4>5, <4>6 DEF SoundOrder
    <3> QED BY <3>3, <3>4
  <2> QED BY <2>1, <2>2
<1>14. SoundPassage(l)'
  <2> SUFFICES ASSUME NEW i \in 1 .. n, NEW j \in 1 .. n, i < j,
                      \/ at'[arrived'[l][j]] \in InService
                      \/ outcome'[arrived'[l][j]] = "success"
               PROVE  at'[arrived'[l][i]] = "done"
    BY <1>5 DEF SoundPassage, GoneOn, InService
  <2>1. j # n
    BY <1>3, <1>5, <1>6, <1>8 DEF InService
  <2>2. /\ i \in 1 .. n - 1 /\ j \in 1 .. n - 1
        /\ arrived'[l][i] = arrived[l][i] /\ arrived'[l][j] = arrived[l][j]
    BY <1>5, <2>1
  <2>3. GoneOn(arrived[l][j])
    BY <1>3, <1>6, <1>9, <2>2 DEF GoneOn, InService
  <2>4. at[arrived[l][i]] = "done"
    BY <1>5, <1>7, <2>2, <2>3 DEF SoundPassage
  <2> QED BY <1>6, <1>9, <2>2, <2>4
<1>15. ASSUME NEW k \in Lanes
       PROVE  SoundLane(k)'
  <2>1. CASE k = l
    BY <1>11, <1>12, <1>13, <1>14, <2>1 DEF SoundLane
  <2>2. CASE k # l
    <3>1. /\ holder'[k] = holder[k] /\ waiting'[k] = waiting[k] /\ arrived'[k] = arrived[k]
          /\ \A q \in Requests : Lane[q] = k =>
               /\ outcome'[q] = outcome[q]
               /\ at'[q] # at[q] => at[q] \in InService /\ at'[q] \in InService
      BY <1>1, <1>3, <1>6, <1>10, <2>2 DEF TypeOK
    <3> QED BY <3>1, UntouchedLane
  <2> QED BY <2>1, <2>2
<1>16. Applied'
  BY <1>3 DEF LaneInv, Applied
<1>17. ReorderedOnArrival'
  <2>1. ASSUME NEW k \in Lanes
        PROVE  /\ Len(arrived[k]) \in Nat /\ Len(arrived'[k]) \in Nat
               /\ Len(arrived[k]) <= Len(arrived'[k])
               /\ \A i \in 1 .. Len(arrived[k]) : arrived'[k][i] = arrived[k][i]
    <3>1. CASE k = l
      BY <1>5, <3>1
    <3>2. CASE k # l
      <4>1. arrived'[k] = arrived[k] /\ arrived[k] \in Seq(Requests)
        BY <1>1, <1>3, <3>2 DEF TypeOK
      <4> QED BY <4>1
    <3> QED BY <3>1, <3>2
  <2>2. reordered' = reordered /\ reordered \subseteq Requests
    BY <1>1, <1>3 DEF TypeOK
  <2> QED BY <2>1, <2>2, OrderOfArrivalStays DEF LaneInv
<1> QED BY <1>15, <1>16, <1>17

\* A request that arrives at once finds nobody in its lane, and holds it.
LEMMA ArriveKeepsLanes ==
  ASSUME LaneInv, NEW r \in Requests, Arrive(r)
  PROVE  (\A l \in Lanes : SoundLane(l)') /\ Applied' /\ ReorderedOnArrival'
<1> DEFINE l == Lane[r]
           n == Len(arrived[l]) + 1
<1>1. TypeOK /\ FlightInv
  BY DEF LaneInv, FlightInv
<1>2. /\ at[r] = "coming" /\ TakeLane(r)
      /\ UNCHANGED <<outcome, applied, reordered>>
  BY DEF Arrive, streamVars
<1>3. at'[r] \in InService /\ \A q \in Requests \ {r} : at'[q] = at[q]
  BY <1>1 DEF Arrive, Continued, InService, TypeOK
<1>4. /\ l # NoLane => /\ l \in Lanes /\ ~LaneTaken(r) /\ holder' = [holder EXCEPT ![l] = r]
                       /\ arrived' = [arrived EXCEPT ![l] = Append(arrived[l], r)]
      /\ l = NoLane => holder' = holder /\ arrived' = arrived
      /\ waiting' = waiting
  BY <1>2, HeldAssumption DEF TakeLane, laneVars
<1>5. Lane[r] = l
  OBVIOUS
<1> HIDE DEF l
<1>6. ASSUME l # NoLane
      PROVE  SoundLane(l)'
  <2>1. /\ l \in Lanes /\ arrived[l] \in Seq(Requests) /\ waiting'[l] = waiting[l]
        /\ holder'[l] = r /\ r # None /\ r \in Requests
    BY <1>1, <1>4, <1>6, HeldAssumption DEF TypeOK
  <2>2. /\ arrived'[l] = Append(arrived[l], r) /\ Len(arrived'[l]) = n
        /\ \A i \in 1 .. n : arrived'[l][i] = IF i = n THEN r ELSE arrived[l][i]
        /\ n \in Nat /\ n - 1 = Len(arrived[l])
    <3>1. arrived' = [arrived EXCEPT ![l] = Append(arrived[l], r)]
      BY <1>4, <1>6
    <3>2. arrived'[l] = Append(arrived[l], r)
      BY <1>1, <2>1, <3>1 DEF TypeOK
    <3> QED BY <2>1, <3>2
  <2>3. SoundArrivals(l) /\ SoundHolder(l) /\ SoundOrder(l) /\ SoundPassage(l)
    BY <2>1 DEF LaneInv, SoundLane
  <2>4. holder[l] = None /\ waiting[l] = <<>>
    BY <1>2, <1>4, <1>5, <1>6, <2>3 DEF LaneTaken, SoundHolder, InService
  <2>5. \A i \in 1 .. n - 1 : arrived[l][i] \in Requests \ {r} /\ Lane[arrived[l][i]] = l
    BY <1>2, <2>1, <2>2, <2>3 DEF SoundArrivals
  <2> HIDE DEF n
  <2>6. \A i \in 1 .. n - 1 : at[arrived[l][i]] = "done"
    <3> SUFFICES ASSUME NEW i \in 1 .. n - 1
                 PROVE  at[arrived[l][i]] = "done"
      OBVIOUS
    <3>1. arrived[l][i] \in Requests /\ Lane[arrived[l][i]] = l /\ arrived[l][i] # None
      BY <2>5, HeldAssumption
    <3>2. at[arrived[l][i]] \notin InService
      BY <2>3, <2>4, <3>1 DEF SoundHolder
    <3>3. at[arrived[l][i]] # "waiting"
      <4>1. Len(waiting[l]) = 0
        BY <2>4
      <4> QED BY <2>3, <3>1, <4>1 DEF SoundHolder
    <3>4. at[arrived[l][i]] # "coming"
      BY <2>2, <2>3 DEF SoundArrivals
    <3> QED BY <1>1, <3>1, <3>2, <3>3, <3>4 DEF TypeOK, Places, InService
  <2>7. SoundArrivals(l)'
    <3>1. \A i \in 1 .. n : Lane[arrived'[l][i]] = l /\ at'[arrived'[l][i]] # "coming"
      BY <1>3, <1>5, <2>2, <2>5, <2>6 DEF InService
    <3>2. \A i, j \in 1 .. n : arrived'[l][i] = arrived'[l][j] => i = j
      BY <2>2, <2>3, <2>5 DEF SoundArrivals
    <3>3. ASSUME NEW q \in Requests, Lane[q] = l, HasCome(q)'
          PROVE  \E i \in 1 .. n : arrived'[l][i] = q
      <4>1. CASE q = r
        BY <2>2, <4>1
      <4>2. CASE q # r
        <5>1. HasCome(q)
          BY <1>2, <1>3, <3>3, <4>2 DEF HasCome
        <5>2. PICK i \in 1 .. n - 1 : arrived[l][i] = q
          BY <2>2, <2>3, <3>3, <5>1 DEF SoundArrivals
        <5> QED BY <2>2, <5>2
      <4> QED BY <4>1, <4>2
    <3> QED BY <2>2, <3>1, <3>2, <3>3 DEF SoundArrivals
  <2>8. SoundHolder(l)'
    <3>1. ASSUME NEW q \in Requests, Lane[q] = l, at'[q] \in InService
          PROVE  q = r
      BY <1>3, <2>3, <2>4, <3>1, HeldAssumption DEF SoundHolder
    <3>2. ASSUME NEW q \in Requests, Lane[q] = l, at'[q] = "waiting"
          PROVE  \E i \in 1 .. Len(waiting'[l]) : waiting'[l][i] = q
      BY <1>3, <2>1, <2>3, <3>2 DEF SoundHolder, InService
    <3> QED BY <1>3, <1>5, <2>1, <3>1, <3>2 DEF SoundHolder
  <2>9. SoundOrder(l)'
    <3>1. \A b \in 1 .. n : at'[arrived'[l][b]] # "waiting"
      BY <1>3, <2>2, <2>5, <2>6 DEF InService
    <3>2. Len(waiting'[l]) = 0
      BY <2>1, <2>4
    <3> QED BY <2>2, <3>1, <3>2 DEF SoundOrder
  <2>10. SoundPassage(l)'
    <3> SUFFICES ASSUME NEW i \in 1 .. n, NEW j \in 1 .. n, i < j
                 PROVE  at'[arrived'[l][i]] = "done"
      BY <2>2 DEF SoundPassage
    <3>1. i \in 1 .. n - 1
      BY <2>2
    <3> QED BY <1>3, <2>2, <2>5, <2>6, <3>1
  <2> QED BY <2>7, <2>8, <2>9, <2>10 DEF SoundLane
<1>7. ASSUME NEW k \in Lanes, k # l
      PROVE  /\ holder'[k] = holder[k] /\ waiting'[k] = waiting[k] /\ arrived'[k] = arrived[k]
  BY <1>1, <1>4, <1>7 DEF TypeOK
<1>8. ASSUME NEW k \in Lanes
      PROVE  SoundLane(k)'
  <2>1. CASE k = l
    BY <1>6, <2>1, HeldAssumption
  <2>2. CASE k # l
    <3>1. \A q \in Requests : Lane[q] = k =>
            /\ outcome'[q] = outcome[q]
            /\ at'[q] # at[q] => at[q] \in InService /\ at'[q] \in InService
      BY <1>2, <1>3, <1>5, <2>2
    <3> QED BY <1>7, <2>2, <3>1, UntouchedLane
  <2> QED BY <2>1, <2>2
<1>9. Applied'
  BY <1>2 DEF LaneInv, Applied
<1>10. ReorderedOnArrival'
  <2>1. ASSUME NEW k \in Lanes
        PROVE  /\ Len(arrived[k]) \in Nat /\ Len(arrived'[k]) \in Nat
               /\ Len(arrived[k]) <= Len(arrived'[k])
               /\ \A i \in 1 .. Len(arrived[k]) : arrived'[k][i] = arrived[k][i]
    <3>1. arrived[k] \in Seq(Requests)
      BY <1>1 DEF TypeOK
    <3>2. CASE k = l
      <4>1. arrived'[k] = Append(arrived[k], r)
        BY <1>1, <1>4, <3>2, HeldAssumption DEF TypeOK
      <4> QED BY <3>1, <4>1
    <3>3. CASE k # l
      BY <1>7, <3>1, <3>3
    <3> QED BY <3>2, <3>3
  <2>2. reordered' = reordered /\ reordered \subseteq Requests
    BY <1>1, <1>2 DEF TypeOK
  <2> QED BY <2>1, <2>2, OrderOfArrivalStays DEF LaneInv
<1> QED BY <1>8, <1>9, <1>10


(* A terminal, and the lanes *)

\* The line that is left of a lane keeps the order of the line there was.
InOrder(r, line) ==
  Lane[r] # NoLane =>
    /\ \A i \in 1 .. Len(line) : \E a \in 1 .. Len(waiting[Lane[r]]) : waiting[Lane[r]][a] = line[i]
    /\ \A a \in 1 .. Len(waiting[Lane[r]]) :
         waiting[Lane[r]][a] # r => \E i \in 1 .. Len(line) : line[i] = waiting[Lane[r]][a]
    /\ \A i, j \in 1 .. Len(line) : \A a, b \in 1 .. Len(waiting[Lane[r]]) :
         i < j /\ waiting[Lane[r]][a] = line[i] /\ waiting[Lane[r]][b] = line[j] => a < b

LEMMA WholeLineInOrder ==
  ASSUME FlightInv, NEW r \in Requests
  PROVE  InOrder(r, IF Lane[r] = NoLane THEN <<>> ELSE waiting[Lane[r]])
<1> SUFFICES ASSUME Lane[r] # NoLane
             PROVE  InOrder(r, waiting[Lane[r]])
  BY DEF InOrder
<1>1. Lane[r] \in Lanes
  BY HeldAssumption
<1>2. \A i, j \in 1 .. Len(waiting[Lane[r]]) :
        waiting[Lane[r]][i] = waiting[Lane[r]][j] => i = j
  BY <1>1 DEF FlightInv, Lines
<1> QED BY <1>2 DEF InOrder

LEMMA LineWithoutInOrder ==
  ASSUME FlightInv, NEW r \in Requests, Lane[r] \in Lanes,
         NEW i \in 1 .. Len(waiting[Lane[r]]), waiting[Lane[r]][i] = r
  PROVE  InOrder(r, RemoveAt(waiting[Lane[r]], i))
<1> DEFINE w == waiting[Lane[r]]
           line == RemoveAt(w, i)
<1>1. w \in Seq(Requests) /\ Len(w) \in Nat
  BY DEF FlightInv, TypeOK
<1>2. /\ line \in Seq(Requests) /\ Len(line) = Len(w) - 1
      /\ \A j \in 1 .. Len(w) - 1 : line[j] = w[IF j < i THEN j ELSE j + 1]
  BY <1>1, RemoveAtElements
<1>3. \A j, k \in 1 .. Len(w) : w[j] = w[k] => j = k
  BY DEF FlightInv, Lines
<1>4. w[i] = r /\ i \in 1 .. Len(w)
  OBVIOUS
<1> HIDE DEF line, w
<1>5. ASSUME NEW j \in 1 .. Len(line)
      PROVE  \E a \in 1 .. Len(w) : w[a] = line[j]
  <2>1. (IF j < i THEN j ELSE j + 1) \in 1 .. Len(w)
    BY <1>1, <1>2
  <2> QED BY <1>2, <2>1
<1>6. ASSUME NEW a \in 1 .. Len(w), w[a] # r
      PROVE  \E j \in 1 .. Len(line) : line[j] = w[a]
  <2>1. a # i
    BY <1>4, <1>6
  <2>2. CASE a < i
    <3>1. a \in 1 .. Len(w) - 1
      BY <1>1, <1>4, <2>2
    <3>2. line[a] = w[a]
      BY <1>2, <2>2, <3>1
    <3> QED BY <1>2, <3>1, <3>2
  <2>3. CASE ~(a < i)
    <3>1. a - 1 \in 1 .. Len(w) - 1 /\ ~(a - 1 < i) /\ (a - 1) + 1 = a
      BY <1>1, <2>1, <2>3
    <3>2. line[a - 1] = w[a]
      BY <1>2, <3>1
    <3> QED BY <1>2, <3>1, <3>2
  <2> QED BY <2>2, <2>3
<1>7. ASSUME NEW j \in 1 .. Len(line), NEW k \in 1 .. Len(line), j < k,
             NEW a \in 1 .. Len(w), NEW b \in 1 .. Len(w), w[a] = line[j], w[b] = line[k]
      PROVE  a < b
  <2>1. a = (IF j < i THEN j ELSE j + 1) /\ b = (IF k < i THEN k ELSE k + 1)
    <3>1. (IF j < i THEN j ELSE j + 1) \in 1 .. Len(w) /\ (IF k < i THEN k ELSE k + 1) \in 1 .. Len(w)
      BY <1>1, <1>2
    <3>2. line[j] = w[IF j < i THEN j ELSE j + 1] /\ line[k] = w[IF k < i THEN k ELSE k + 1]
      BY <1>2
    <3> QED BY <1>3, <1>7, <3>1, <3>2
  <2> QED BY <1>1, <1>7, <2>1
<1> QED BY <1>5, <1>6, <1>7 DEF InOrder, line, w

\* What a terminal does to those it does not end: the next in line goes on, those parked
\* behind r are resolved, and nobody else moves.
LEMMA TerminalMoves ==
  ASSUME FlightInv, NEW r \in Requests, NEW status, MayEnd(r, status),
         NEW line, RestOfLine(r, line), MarkTerminal(r, status, line)
  PROVE  \E next \in Requests \cup {None} :
           /\ ReleaseOrderingLane(r, line, next)
           /\ next # None => at'[next] \in InService
           /\ at'[r] = "done"
           /\ \A q \in Requests \ {r, next} :
                at'[q] = at[q] \/ (at[q] = "parked" /\ at'[q] = "resolved")
           /\ outcome' = [outcome EXCEPT ![r] = status] /\ ApplyChange(r, status)
           /\ arrived' = arrived
<1>1. PICK next \in Requests \cup {None}, missed \in BOOLEAN :
        /\ ReleaseOrderingLane(r, line, next)
        /\ at' = [q \in Requests |->
                    IF q = r THEN "done"
                    ELSE IF q \in ParkedBehind(r) THEN "resolved"
                    ELSE IF q = next THEN Continued(q, missed, Freed(r))
                    ELSE at[q]]
  BY DEF MarkTerminal
<1>2. next # None => next \in Requests /\ next # r /\ at[next] = "waiting"
  BY LaneGoesOn, <1>1
<1>3. next # None => at'[next] \in InService
  <2>1. next # None => next \notin ParkedBehind(r)
    BY <1>2 DEF ParkedBehind
  <2> QED BY <1>1, <1>2, <2>1 DEF Continued, InService
<1>4. ASSUME NEW q \in Requests \ {r, next}
      PROVE  at'[q] = at[q] \/ (at[q] = "parked" /\ at'[q] = "resolved")
  BY <1>1 DEF ParkedBehind
<1>5. outcome' = [outcome EXCEPT ![r] = status] /\ ApplyChange(r, status) /\ arrived' = arrived
  BY DEF MarkTerminal
<1>6. at'[r] = "done"
  BY <1>1
<1> QED BY <1>1, <1>3, <1>4, <1>5, <1>6


\* A terminal keeps the lane of the request that ends: the first in line takes it only
\* from the one that held it, and all that came before him have ended.
LEMMA TerminalKeepsItsLane ==
  ASSUME LaneInv, NEW r \in Requests, NEW status, MayEnd(r, status),
         status = "success" => at[r] \in InService,
         NEW line, RestOfLine(r, line), InOrder(r, line), Lane[r] \in Lanes,
         NEW next \in Requests \cup {None}, ReleaseOrderingLane(r, line, next),
         next # None => at'[next] \in InService, at'[r] = "done",
         \A q \in Requests \ {r, next} :
           at'[q] = at[q] \/ (at[q] = "parked" /\ at'[q] = "resolved"),
         outcome' = [outcome EXCEPT ![r] = status], arrived' = arrived
  PROVE  SoundLane(Lane[r])'
<1> DEFINE l == Lane[r]
           w == waiting[l]
           came == arrived[l]
<1>1. TypeOK /\ FlightInv /\ l # NoLane
  BY HeldAssumption DEF LaneInv, FlightInv
<1>2. SoundArrivals(l) /\ SoundHolder(l) /\ SoundOrder(l) /\ SoundPassage(l)
  BY DEF LaneInv, SoundLane
<1>3. /\ next # None => /\ next \in Requests /\ next # r /\ at[next] = "waiting"
                        /\ Lane[next] = l /\ holder[l] = r
                        /\ line # <<>> /\ next = line[1]
                        /\ holder'[l] = next /\ waiting'[l] = Tail(line)
      /\ next = None => /\ waiting'[l] = line
                        /\ holder[l] = r => line = <<>> /\ holder'[l] = None
                        /\ holder[l] # r => holder'[l] = holder[l]
  <2>1. waiting \in [Lanes -> Seq(Requests)] /\ holder \in [Lanes -> Requests \cup {None}]
    BY <1>1 DEF TypeOK
  <2> QED BY <1>1, <2>1, LaneGoesOn
<1>4. /\ at[r] # "done" /\ outcome'[r] = status /\ outcome[r] # "success"
      /\ \A q \in Requests \ {r} : outcome'[q] = outcome[q]
  BY <1>1, HeldAssumption DEF MayEnd, TypeOK, FlightInv, Fates, SoundFate, Statuses
<1>5. /\ came \in Seq(Requests) /\ w \in Seq(Requests) /\ line \in Seq(Requests)
      /\ holder[l] \in Requests \cup {None} /\ None \notin Requests
  BY <1>1, HeldAssumption DEF TypeOK, RestOfLine
<1>6. ASSUME NEW q \in Requests \ {r, next}
      PROVE  /\ at'[q] \in InService <=> at[q] \in InService
             /\ \A place \in {"coming", "waiting", "done"} : at'[q] = place <=> at[q] = place
             /\ GoneOn(q)' <=> GoneOn(q)
             /\ HasCome(q)' <=> HasCome(q)
  BY <1>4 DEF InService, GoneOn, HasCome
<1>7. /\ \A i \in 1 .. Len(came) : /\ came[i] \in Requests /\ Lane[came[i]] = l
                                   /\ at[came[i]] # "coming"
      /\ \A i, j \in 1 .. Len(came) : came[i] = came[j] => i = j
      /\ arrived'[l] = came
  BY <1>2, <1>5 DEF SoundArrivals
<1>8. /\ \A i \in 1 .. Len(line) : line[i] \in Requests /\ \E a \in 1 .. Len(w) : w[a] = line[i]
      /\ \A a \in 1 .. Len(w) : w[a] # r => \E i \in 1 .. Len(line) : line[i] = w[a]
      /\ \A i, j \in 1 .. Len(line) : \A a, b \in 1 .. Len(w) :
           i < j /\ w[a] = line[i] /\ w[b] = line[j] => a < b
      /\ \A i \in 1 .. Len(line) : line[i] # r /\ at[line[i]] = "waiting"
      /\ \A i, j \in 1 .. Len(line) : line[i] = line[j] => i = j
  BY <1>1, <1>5 DEF InOrder, RestOfLine
<1>9. /\ next = None => Len(waiting'[l]) = Len(line)
                        /\ \A i \in 1 .. Len(line) : waiting'[l][i] = line[i]
      /\ next # None => Len(waiting'[l]) = Len(line) - 1 /\ 1 \in 1 .. Len(line)
                        /\ \A i \in 1 .. Len(line) - 1 : waiting'[l][i] = line[i + 1]
      /\ Len(line) \in Nat
  <2>1. Len(line) \in Nat
    BY <1>5
  <2>2. CASE next = None
    BY <1>3, <2>1, <2>2
  <2>3. CASE next # None
    <3>1. waiting'[l] = Tail(line) /\ line # <<>>
      BY <1>3, <2>3
    <3>2. Len(line) # 0
      BY <1>5, <3>1
    <3>3. Len(waiting'[l]) = Len(line) - 1
      BY <1>5, <3>1, <3>2
    <3>4. ASSUME NEW i \in 1 .. Len(line) - 1
          PROVE  waiting'[l][i] = line[i + 1]
      BY <1>5, <3>1, <3>2
    <3>5. 1 \in 1 .. Len(line)
      BY <2>1, <3>2
    <3> QED BY <2>1, <2>3, <3>3, <3>4, <3>5
  <2> QED BY <2>1, <2>2, <2>3
<1>10. Lane[r] = l
  OBVIOUS
<1> HIDE DEF l, w, came
\* Those in line came in the order of the line.
<1>11. ASSUME NEW a \in 1 .. Len(came), NEW b \in 1 .. Len(came),
              NEW i \in 1 .. Len(line), NEW j \in 1 .. Len(line), i < j,
              came[a] = line[i], came[b] = line[j]
       PROVE  a < b
  <2>1. PICK c \in 1 .. Len(w) : w[c] = line[i]
    BY <1>8
  <2>2. PICK d \in 1 .. Len(w) : w[d] = line[j]
    BY <1>8
  <2>3. c < d
    BY <1>8, <1>11, <2>1, <2>2
  <2> QED BY <1>2, <1>11, <2>1, <2>2, <2>3 DEF SoundOrder, came, w
\* Whoever waits on is in the line behind the next.
<1>12. ASSUME NEW q \in Requests, Lane[q] = l, at'[q] = "waiting"
       PROVE  /\ q \notin {r, next} /\ at[q] = "waiting"
              /\ \E i \in 1 .. Len(line) : line[i] = q
  <2>1. q # r /\ q # next
    BY <1>5, <1>12 DEF InService
  <2>2. at[q] = "waiting"
    BY <1>6, <1>12, <2>1
  <2>3. \E a \in 1 .. Len(w) : w[a] = q
    BY <1>2, <1>12, <2>2 DEF SoundHolder, w
  <2> QED BY <1>8, <2>1, <2>2, <2>3
<1>13. SoundArrivals(l)'
  <2>1. ASSUME NEW i \in 1 .. Len(came)
        PROVE  Lane[came[i]] = l /\ at'[came[i]] # "coming"
    <3>1. came[i] \in Requests /\ Lane[came[i]] = l /\ at[came[i]] # "coming"
      BY <1>7
    <3>2. CASE came[i] = r
      BY <3>1, <3>2
    <3>3. CASE came[i] = next
      BY <1>5, <3>1, <3>3 DEF InService
    <3>4. CASE came[i] \notin {r, next}
      BY <1>6, <3>1, <3>4
    <3> QED BY <3>2, <3>3, <3>4
  <2>2. ASSUME NEW q \in Requests, Lane[q] = l, HasCome(q)'
        PROVE  \E i \in 1 .. Len(came) : came[i] = q
    <3>1. CASE q = r
      BY <1>2, <1>4, <2>2, <3>1 DEF HasCome, InService, SoundArrivals, came
    <3>2. CASE q = next
      <4>1. HasCome(q)
        BY <1>3, <1>5, <3>2 DEF HasCome
      <4> QED BY <1>2, <2>2, <4>1 DEF SoundArrivals, came
    <3>3. CASE q \notin {r, next}
      BY <1>2, <1>6, <2>2, <3>3 DEF SoundArrivals, came
    <3> QED BY <3>1, <3>2, <3>3
  <2> QED BY <1>7, <2>1, <2>2 DEF SoundArrivals
<1>14. SoundHolder(l)'
  <2>1. ASSUME holder'[l] # None
        PROVE  Lane[holder'[l]] = l /\ at'[holder'[l]] \in InService
    <3>1. CASE next # None
      BY <1>3, <3>1
    <3>2. CASE next = None
      <4>1. holder[l] \in Requests \ {r, next} /\ holder'[l] = holder[l]
        BY <1>3, <1>5, <2>1, <3>2
      <4> QED BY <1>2, <1>5, <1>6, <4>1 DEF SoundHolder
    <3> QED BY <3>1, <3>2
  <2>2. ASSUME NEW q \in Requests, Lane[q] = l, at'[q] \in InService
        PROVE  holder'[l] = q
    <3>1. q # r
      BY <2>2 DEF InService
    <3>2. CASE q = next
      BY <1>3, <1>5, <3>2
    <3>3. CASE q # next
      <4>1. holder[l] = q
        BY <1>2, <1>6, <2>2, <3>1, <3>3 DEF SoundHolder
      <4> QED BY <1>3, <3>1, <4>1
    <3> QED BY <3>2, <3>3
  <2>3. holder'[l] = None => waiting'[l] = <<>>
    <3> SUFFICES ASSUME holder'[l] = None
                 PROVE  waiting'[l] = <<>>
      OBVIOUS
    <3>1. next = None /\ waiting'[l] = line
      BY <1>3
    <3>2. CASE holder[l] = r
      BY <1>3, <3>1, <3>2
    <3>3. CASE holder[l] # r
      <4>1. w = <<>>
        BY <1>2, <1>3, <3>1, <3>3 DEF SoundHolder, w
      <4>2. Len(w) = 0
        BY <4>1
      <4>3. Len(line) = 0
        BY <1>8, <1>9, <4>2
      <4> QED BY <1>5, <3>1, <4>3
    <3> QED BY <3>2, <3>3
  <2>4. ASSUME NEW q \in Requests, Lane[q] = l, at'[q] = "waiting"
        PROVE  \E i \in 1 .. Len(waiting'[l]) : waiting'[l][i] = q
    <3>1. q # next /\ \E i \in 1 .. Len(line) : line[i] = q
      BY <1>12, <2>4
    <3>2. PICK i \in 1 .. Len(line) : line[i] = q
      BY <3>1
    <3>3. CASE next = None
      BY <1>9, <3>2, <3>3
    <3>4. CASE next # None
      <4>1. i # 1
        BY <1>3, <3>1, <3>2, <3>4
      <4>2. i - 1 \in 1 .. Len(line) - 1 /\ (i - 1) + 1 = i
        BY <1>9, <4>1
      <4>3. waiting'[l][i - 1] = q
        BY <1>9, <3>2, <3>4, <4>2
      <4> QED BY <1>9, <3>4, <4>2, <4>3
    <3> QED BY <3>3, <3>4
  <2> QED BY <2>1, <2>2, <2>3, <2>4 DEF SoundHolder
<1>15. SoundOrder(l)'
  <2> SUFFICES ASSUME NEW a \in 1 .. Len(came), NEW b \in 1 .. Len(came)
               PROVE  /\ came[a] = holder'[l] /\ at'[came[b]] = "waiting" => a < b
                      /\ \A i, j \in 1 .. Len(waiting'[l]) :
                           i < j /\ came[a] = waiting'[l][i] /\ came[b] = waiting'[l][j] => a < b
    BY <1>7 DEF SoundOrder
  <2>1. ASSUME came[a] = holder'[l], at'[came[b]] = "waiting"
        PROVE  a < b
    <3>1. /\ came[b] \in Requests \ {r, next} /\ at[came[b]] = "waiting"
          /\ \E i \in 1 .. Len(line) : line[i] = came[b]
      BY <1>7, <1>12, <2>1
    <3>2. CASE next = None
      <4>1. came[a] = holder[l]
        BY <1>3, <1>5, <1>7, <2>1, <3>2
      <4> QED BY <1>2, <3>1, <4>1 DEF SoundOrder, came
    <3>3. CASE next # None
      <4>1. PICK i \in 1 .. Len(line) : line[i] = came[b]
        BY <3>1
      <4>2. 1 \in 1 .. Len(line) /\ came[a] = line[1] /\ i # 1
        BY <1>3, <1>9, <2>1, <3>1, <3>3, <4>1
      <4>3. 1 < i
        BY <4>2
      <4> QED BY <1>11, <4>1, <4>2, <4>3
    <3> QED BY <3>2, <3>3
  <2>2. ASSUME NEW i \in 1 .. Len(waiting'[l]), NEW j \in 1 .. Len(waiting'[l]), i < j,
               came[a] = waiting'[l][i], came[b] = waiting'[l][j]
        PROVE  a < b
    <3>1. CASE next = None
      <4>1. i \in 1 .. Len(line) /\ j \in 1 .. Len(line) /\ came[a] = line[i] /\ came[b] = line[j]
        BY <1>9, <2>2, <3>1
      <4> QED BY <1>11, <2>2, <4>1
    <3>2. CASE next # None
      <4>1. i \in 1 .. Len(line) - 1 /\ j \in 1 .. Len(line) - 1
        BY <1>9, <3>2
      <4>2. came[a] = line[i + 1] /\ came[b] = line[j + 1]
        BY <1>9, <2>2, <3>2, <4>1
      <4>3. i + 1 \in 1 .. Len(line) /\ j + 1 \in 1 .. Len(line) /\ i + 1 < j + 1
        BY <1>9, <2>2, <4>1
      <4> QED BY <1>11, <4>2, <4>3
    <3> QED BY <3>1, <3>2
  <2> QED BY <2>1, <2>2
<1>16. SoundPassage(l)'
  <2> SUFFICES ASSUME NEW i \in 1 .. Len(came), NEW j \in 1 .. Len(came), i < j,
                      at'[came[j]] \in InService \/ outcome'[came[j]] = "success"
               PROVE  at'[came[i]] = "done"
    BY <1>7 DEF SoundPassage, GoneOn, InService
  <2>1. came[i] \in Requests /\ came[j] \in Requests /\ Lane[came[i]] = l /\ came[i] # came[j]
    BY <1>7
  <2>2. ASSUME at[came[i]] = "done"
        PROVE  at'[came[i]] = "done"
    <3>1. came[i] \notin {r, next}
      BY <1>3, <1>4, <1>5, <2>1, <2>2
    <3> QED BY <1>6, <2>1, <2>2, <3>1
  <2>3. CASE came[j] = next
    <3>1. holder[l] = r /\ next # None
      BY <1>3, <1>5, <2>1, <2>3
    <3>2. CASE came[i] = r
      BY <3>2
    <3>3. CASE came[i] # r
      <4>1. at[came[i]] \notin InService
        BY <1>2, <2>1, <3>1, <3>3 DEF SoundHolder
      <4>2. at[came[i]] # "waiting"
        <5> SUFFICES ASSUME at[came[i]] = "waiting"
                     PROVE  FALSE
          OBVIOUS
        <5>1. PICK c \in 1 .. Len(w) : w[c] = came[i]
          BY <1>2, <2>1 DEF SoundHolder, w
        <5>2. PICK k \in 1 .. Len(line) : line[k] = came[i]
          BY <1>8, <3>3, <5>1
        <5>3. 1 \in 1 .. Len(line) /\ came[j] = line[1] /\ k # 1
          BY <1>3, <1>9, <2>1, <2>3, <3>1, <5>2
        <5>4. j < i
          BY <1>11, <5>2, <5>3
        <5> QED BY <5>4
      <4>3. at[came[i]] = "done"
        BY <1>1, <1>7, <2>1, <4>1, <4>2 DEF TypeOK, Places, InService
      <4> QED BY <2>2, <4>3
    <3> QED BY <3>2, <3>3
  <2>4. CASE came[j] # next
    <3>1. GoneOn(came[j])
      <4>1. CASE came[j] = r
        BY <1>4, <4>1 DEF GoneOn, InService
      <4>2. CASE came[j] # r
        BY <1>4, <1>6, <2>1, <2>4, <4>2 DEF GoneOn, InService
      <4> QED BY <4>1, <4>2
    <3>2. at[came[i]] = "done"
      BY <1>2, <3>1 DEF SoundPassage, came
    <3> QED BY <2>2, <3>2
  <2> QED BY <2>3, <2>4
<1> QED BY <1>13, <1>14, <1>15, <1>16 DEF SoundLane, l


\* A terminal keeps the lanes: what succeeds is applied, and an older change is applied
\* after a newer one of its lane only if it came after it.
LEMMA TerminalKeepsLanes ==
  ASSUME LaneInv, NEW r \in Requests, NEW status, MayEnd(r, status),
         status = "success" => at[r] \in InService,
         NEW line, RestOfLine(r, line), InOrder(r, line), MarkTerminal(r, status, line)
  PROVE  (\A l \in Lanes : SoundLane(l)') /\ Applied' /\ ReorderedOnArrival'
<1>1. TypeOK /\ FlightInv /\ Fates
  BY DEF LaneInv, FlightInv
<1>2. PICK next \in Requests \cup {None} :
        /\ ReleaseOrderingLane(r, line, next)
        /\ next # None => at'[next] \in InService
        /\ at'[r] = "done"
        /\ \A q \in Requests \ {r, next} :
             at'[q] = at[q] \/ (at[q] = "parked" /\ at'[q] = "resolved")
        /\ outcome' = [outcome EXCEPT ![r] = status] /\ ApplyChange(r, status)
        /\ arrived' = arrived
  BY <1>1, TerminalMoves
<1>3. /\ outcome'[r] = status /\ outcome[r] # "success"
      /\ \A q \in Requests \ {r} : outcome'[q] = outcome[q]
  <2>1. at[r] # "done" /\ outcome \in [Requests -> Statuses \cup {None}] /\ SoundFate(r)
    BY <1>1 DEF MayEnd, TypeOK, Fates
  <2>2. outcome[r] # "success"
    BY <2>1, HeldAssumption DEF SoundFate, Statuses
  <2> QED BY <1>2, <2>1, <2>2
<1>4. ASSUME NEW l \in Lanes
      PROVE  SoundLane(l)'
  <2>1. CASE l = Lane[r]
    BY <1>2, <2>1, TerminalKeepsItsLane
  <2>2. CASE l # Lane[r]
    <3>1. next # None => Lane[next] = Lane[r]
      BY <1>1, <1>2, LaneGoesOn
    <3>2. holder'[l] = holder[l] /\ waiting'[l] = waiting[l]
      <4>1. waiting \in [Lanes -> Seq(Requests)] /\ holder \in [Lanes -> Requests \cup {None}]
        BY <1>1 DEF TypeOK
      <4> QED BY <1>2, <2>2, <4>1 DEF ReleaseOrderingLane
    <3>3. ASSUME NEW q \in Requests, Lane[q] = l
          PROVE  /\ outcome'[q] = outcome[q]
                 /\ at'[q] # at[q] => at[q] \in InService /\ at'[q] \in InService
      <4>1. q \notin {r, next}
        BY <2>2, <3>1, <3>3, HeldAssumption
      <4> QED BY <1>2, <1>3, <4>1 DEF InService
    <3> QED BY <1>2, <3>2, <3>3, UntouchedLane
  <2> QED BY <2>1, <2>2
<1>5. Applied'
  <2> SUFFICES ASSUME NEW k \in Keys, applied'[k] > 0
               PROVE  \E q \in Requests :
                        Key[q] = k /\ Change[q] = applied'[k] /\ outcome'[q] = "success"
    BY DEF Applied
  <2>1. CASE applied'[k] = applied[k]
    <3>1. PICK q \in Requests : Key[q] = k /\ Change[q] = applied[k] /\ outcome[q] = "success"
      BY <2>1 DEF LaneInv, Applied
    <3>2. outcome'[q] = "success"
      BY <1>3, <3>1
    <3> QED BY <2>1, <3>1, <3>2
  <2>2. CASE applied'[k] # applied[k]
    <3>1. status = "success" /\ k = Key[r] /\ applied'[k] = Change[r]
      BY <1>1, <1>2, <2>2 DEF ApplyChange, streamVars, TypeOK
    <3> QED BY <1>3, <3>1
  <2> QED BY <2>1, <2>2
<1>6. ReorderedOnArrival'
  <2>1. CASE reordered' = reordered
    <3>1. \A k \in Lanes : Len(arrived[k]) \in Nat /\ arrived'[k] = arrived[k]
      BY <1>1, <1>2 DEF TypeOK
    <3> QED BY <1>1, <2>1, <3>1, OrderOfArrivalStays DEF LaneInv, TypeOK
  <2>2. CASE reordered' # reordered
    <3>1. /\ status = "success" /\ Change[r] > 0 /\ Key[r] # NoKey
          /\ Change[r] < applied[Key[r]] /\ reordered' = reordered \cup {r}
      BY <1>2, <2>2 DEF ApplyChange, streamVars
    <3>2. /\ Key[r] \in Keys /\ applied[Key[r]] \in Nat /\ Change[r] \in Nat
          /\ at[r] \in InService
      BY <1>1, <3>1, HeldAssumption DEF TypeOK
    <3>3. PICK b \in Requests :
            Key[b] = Key[r] /\ Change[b] = applied[Key[r]] /\ outcome[b] = "success"
      BY <3>1, <3>2 DEF LaneInv, Applied
    <3>4. ASSUME ShareALane(Key[r])
          PROVE  Before(b, r)'
      <4> DEFINE l == Lane[r]
                 came == arrived[l]
      <4>1. l \in Lanes /\ Lane[b] = l
        BY <3>1, <3>2, <3>3, <3>4, HeldAssumption DEF ShareALane
      <4>2. SoundArrivals(l) /\ SoundPassage(l) /\ came \in Seq(Requests)
        BY <1>1, <4>1 DEF LaneInv, SoundLane, TypeOK
      <4>3. PICK i \in 1 .. Len(came) : came[i] = b
        BY <3>3, <4>1, <4>2 DEF SoundArrivals, HasCome
      <4>4. PICK j \in 1 .. Len(came) : came[j] = r
        BY <3>2, <4>1, <4>2 DEF SoundArrivals, HasCome
      <4>5. ~(j < i)
        BY <3>2, <3>3, <4>2, <4>3, <4>4 DEF SoundPassage, GoneOn, InService
      <4>6. i # j
        BY <1>3, <3>3, <4>3, <4>4
      <4>7. i < j /\ i \in 1 .. Len(arrived'[l]) /\ j \in 1 .. Len(arrived'[l])
        BY <1>2, <4>2, <4>5, <4>6
      <4>8. arrived'[l][i] = b /\ arrived'[l][j] = r
        BY <1>2, <4>3, <4>4
      <4> QED BY <4>1, <4>7, <4>8 DEF Before
    <3>5. ASSUME NEW q \in reordered, ShareALane(Key[q])
          PROVE  \E c \in Requests : Key[c] = Key[q] /\ Change[c] > Change[q] /\ Before(c, q)'
      BY <1>2, <3>5 DEF LaneInv, ReorderedOnArrival, Before
    <3>6. ShareALane(Key[r]) =>
            \E c \in Requests : Key[c] = Key[r] /\ Change[c] > Change[r] /\ Before(c, r)'
      BY <3>1, <3>3, <3>4
    <3> QED BY <3>1, <3>5, <3>6 DEF ReorderedOnArrival, ShareALane
  <2> QED BY <2>1, <2>2
<1> QED BY <1>4, <1>5, <1>6

-----------------------------------------------------------------------------
(* The steps, and the lanes *)

LEMMA EndKeepsLanes ==
  ASSUME LaneInv, NEW r \in Requests, NEW status, MayEnd(r, status), at[r] # "waiting",
         status = "success" => at[r] \in InService, Terminal(r, status)
  PROVE  (\A l \in Lanes : SoundLane(l)') /\ Applied' /\ ReorderedOnArrival'
<1>1. FlightInv
  BY DEF LaneInv
<1> QED BY <1>1, WholeLine, WholeLineInOrder, TerminalKeepsLanes DEF Terminal

THEOREM LaneStep == LaneInv /\ [HeldNext]_vars => LaneInv'
<1> SUFFICES ASSUME LaneInv, [HeldNext]_vars
             PROVE  LaneInv'
  OBVIOUS
<1>1. FlightInv /\ FlightInv'
  BY FlightStep DEF LaneInv
<1> SUFFICES (\A l \in Lanes : SoundLane(l)') /\ Applied' /\ ReorderedOnArrival'
  BY <1>1 DEF LaneInv
<1>2. CASE UNCHANGED vars
  <2>1. UNCHANGED <<at, outcome, holder, waiting, arrived, applied, reordered>>
    BY <1>2 DEF vars, requestVars, laneVars, streamVars
  <2>2. \A l \in Lanes : SoundLane(l)'
    BY <2>1, UntouchedLane
  <2>3. Applied' /\ ReorderedOnArrival'
    BY <2>1 DEF LaneInv, Applied, ReorderedOnArrival, ShareALane, Before
  <2> QED BY <2>2, <2>3
<1>3. ASSUME NEW r \in Requests, Proceed(r)
      PROVE  (\A l \in Lanes : SoundLane(l)') /\ Applied' /\ ReorderedOnArrival'
  <2>1. CASE HoldForOrderingLane(r)
    BY <2>1, HoldKeepsLanes
  <2>2. CASE Arrive(r)
    BY <2>2, ArriveKeepsLanes
  <2>3. CASE Succeed(r)
    BY <1>1, <2>3, EndsMayCome, EndKeepsLanes DEF Succeed, Statuses, InService
  <2>4. CASE FailAtWork(r)
    BY <1>1, <2>4, EndsMayCome, EndKeepsLanes, RetryKeepsLanes DEF FailAtWork, Fail, Statuses
  <2>5. CASE Refuse(r)
    BY <1>1, <2>5, EndsMayCome, EndKeepsLanes DEF Refuse, Statuses
  <2>6. CASE Resolve(r)
    <3>1. at[r] = "resolved" /\ MayEnd(r, fate[r])
      BY <1>1, <2>6, EndsMayCome DEF Resolve
    <3>2. CASE Retry(r)
      BY <3>2, RetryKeepsLanes
    <3>3. CASE Terminal(r, fate[r])
      BY <3>1, <3>3, EndKeepsLanes DEF InService
    <3>4. Retry(r) \/ Terminal(r, fate[r])
      BY <2>6 DEF Resolve, Fail
    <3> QED BY <3>2, <3>3, <3>4
  <2> QED BY <1>3, <2>1, <2>2, <2>3, <2>4, <2>5, <2>6 DEF Proceed
<1>4. ASSUME NEW r \in Requests, Expire(r)
      PROVE  (\A l \in Lanes : SoundLane(l)') /\ Applied' /\ ReorderedOnArrival'
  <2>1. CASE Deadline(r)
    BY <1>1, <2>1, EndsMayCome, EndKeepsLanes DEF Deadline, Statuses
  <2>2. CASE LaneDeadline(r)
    <3>1. at[r] = "waiting" /\ MayEnd(r, "final")
      BY <1>1, <2>2, EndsMayCome DEF LaneDeadline, Statuses
    <3>2. PICK i \in 1 .. Len(waiting[Lane[r]]) :
            /\ waiting[Lane[r]][i] = r
            /\ MarkTerminal(r, "final", RemoveAt(waiting[Lane[r]], i))
      BY <2>2 DEF LaneDeadline
    <3>3. Lane[r] \in Lanes
      BY <1>1, <3>1 DEF FlightInv, Waiters
    <3>4. /\ RestOfLine(r, RemoveAt(waiting[Lane[r]], i))
          /\ InOrder(r, RemoveAt(waiting[Lane[r]], i))
      BY <1>1, <3>2, <3>3, LineWithout, LineWithoutInOrder
    <3> QED BY <3>1, <3>2, <3>4, TerminalKeepsLanes
  <2>3. CASE CollapseDeadline(r)
    <3>1. at[r] = "parked"
      BY <1>1, <2>3 DEF CollapseDeadline, FlightInv, Timers, SoundTimers
    <3> QED BY <1>1, <2>3, <3>1, EndsMayCome, EndKeepsLanes DEF CollapseDeadline, Statuses
  <2> QED BY <1>4, <2>1, <2>2, <2>3 DEF Expire
<1> QED BY <1>2, <1>3, <1>4 DEF HeldNext

LEMMA LaneInit == HeldInit => LaneInv
<1> SUFFICES ASSUME HeldInit
             PROVE  LaneInv
  OBVIOUS
<1>1. FlightInv
  BY FlightInit
<1>2. ASSUME NEW l \in Lanes
      PROVE  SoundLane(l)
  <2>1. /\ arrived[l] = <<>> /\ waiting[l] = <<>> /\ holder[l] = None
        /\ \A r \in Requests : at[r] = "coming" /\ outcome[r] = None
    BY DEF HeldInit
  <2>2. Len(arrived[l]) = 0
    BY <2>1
  <2>3. SoundArrivals(l) /\ SoundOrder(l) /\ SoundPassage(l)
    BY <2>1, <2>2, HeldAssumption
       DEF SoundArrivals, SoundOrder, SoundPassage, HasCome, InService, Statuses
  <2>4. SoundHolder(l)
    BY <2>1 DEF SoundHolder, InService
  <2> QED BY <2>3, <2>4 DEF SoundLane
<1>3. Applied /\ ReorderedOnArrival
  BY DEF HeldInit, Applied, ReorderedOnArrival
<1> QED BY <1>1, <1>2, <1>3 DEF LaneInv

\* Ordered consumption: a delivery goes past its lane only when all that came to it before
\* have ended, and where the changes of a key share a lane, an older one is applied after
\* a newer one only if it came after it.
THEOREM LanesDeliverInOrder == HeldSpec => []OrderedConsumption
<1>1. LaneInv => OrderedConsumption
  <2> SUFFICES ASSUME LaneInv
               PROVE  OrderedConsumption
    OBVIOUS
  <2>1. \A l \in Lanes : SoundPassage(l)
    BY DEF LaneInv, SoundLane
  <2> QED BY <2>1 DEF LaneInv, OrderedConsumption, OneAtATime, SoundPassage
<1>2. LaneInv /\ [HeldNext]_vars => LaneInv'
  BY LaneStep
<1> QED BY <1>1, <1>2, LaneInit, PTL DEF HeldSpec

=============================================================================
