------------------------- MODULE CoordinatedDelivery -------------------------
(***************************************************************************)
(* The consumers behind a queue, guarded the way redelivery asks for: an   *)
(* idempotency manager with its commit-outcome journal or its dedup        *)
(* window, then a distributed lock on the resource, then the work itself.  *)
(* Translated from traits/idempotencyDedup.ts, traits/lockLease.ts and the *)
(* terminal handling of engine.ts, over the attempts of QueueDelivery.     *)
(*                                                                         *)
(* All messages work on one resource. An attempt is never retried, so it   *)
(* passes the lock once. A lease and a dedup window run out at any time.   *)
(* Freezes of the queue node are left to QueueDelivery.                    *)
(***************************************************************************)
EXTENDS QueueDelivery

CONSTANTS
  Keys,           \* idempotency keys
  KeyMaps,        \* which key each message may carry
  GuardConfigs,   \* configurations of the idempotency manager
  EffectReports,  \* what failed messages may report of their external side effect
  MaxForks,       \* bound on the attempts of a message
  Guarded         \* the queues whose consumers are guarded

GuardConfigType ==
  [journal : BOOLEAN, reconcile : BOOLEAN,
   probe : {"committed", "not-found", "unknown", "modeled"}]

ASSUME CoordinationAssumption ==
  /\ KeyMaps \subseteq [Messages -> Keys]
  /\ GuardConfigs \subseteq GuardConfigType
  /\ EffectReports \subseteq {"silent", "committed", "not-found"}
  /\ MaxForks \in Nat /\ Guarded \subseteq Queues

VARIABLES
  guard, keyOf, report,  \* chosen at the start: configuration and request metadata
  journal,       \* commit outcome of each key
  seenKeys,      \* keys inside their dedup window
  registry,      \* what the external side is known to have done for each key
  attached,      \* attempts whose metadata names their journal entry
  step,          \* where behind the queue each attempt is
  lease,         \* the lock's active lease, NoLease if none
  tokenOf,       \* the fencing token of the lease an attempt holds, 0 without one
  grants,        \* the lock's fencing counter
  overrun        \* history: the attempts whose lease ran out

chosen == <<guard, keyOf, report>>
guardVars == <<journal, seenKeys, registry, attached>>
lockVars == <<lease, tokenOf, grants, overrun>>
coordVars == <<deliveryVars, chosen, guardVars, step, lockVars>>

NoLease == [owner |-> <<>>, token |-> 0, expired |-> FALSE]
AllIds == Messages \X (1 .. MaxForks)

\* Behind the queue, an attempt is past the guard, answered or turned away by it,
\* or turned away by the lock; "start" is everywhere before.
Steps == {"start", "admitted", "duplicate", "refused", "contended", "working"}
PastGuard(id) == step[id] \in {"admitted", "contended", "working"}

CoordInit ==
  /\ DeliveryInit
  /\ guard \in GuardConfigs /\ keyOf \in KeyMaps /\ report \in EffectReports
  /\ journal = [k \in Keys |-> "none"] /\ seenKeys = {}
  /\ registry = [k \in Keys |-> "unknown"] /\ attached = {}
  /\ step = [id \in AllIds |-> "start"]
  /\ lease = NoLease /\ tokenOf = [id \in AllIds |-> 0] /\ grants = 0
  /\ overrun = {}

KeyOf(id) == keyOf[id[1]]
AtConsumer(id) == At(id).state = "consuming" /\ At(id).queue \in Guarded

-----------------------------------------------------------------------------
(* The idempotency manager: beforeArrival *)

GoTo(id, s) == step' = [step EXCEPT ![id] = s]
Journal(id, outcome) == journal' = [journal EXCEPT ![KeyOf(id)] = outcome]

\* The time-window guard: a key is recorded as it arrives.
DedupWindow(id) ==
  /\ ~guard.journal
  /\ \/ KeyOf(id) \in seenKeys /\ GoTo(id, "duplicate") /\ UNCHANGED seenKeys
     \/ /\ KeyOf(id) \notin seenKeys
        /\ GoTo(id, "admitted")
        /\ seenKeys' = seenKeys \cup {KeyOf(id)}
  /\ UNCHANGED <<journal, attached>>

WindowRunsOut(k) ==
  /\ k \in seenKeys
  /\ seenKeys' = seenKeys \ {k}
  /\ UNCHANGED <<deliveryVars, chosen, journal, registry, attached, step, lockVars>>

Admit(id) == GoTo(id, "admitted") /\ attached' = attached \cup {id}

\* Mutant: the guard forgets to record its intent.
AdmitUnrecorded(id) ==
  /\ journal[KeyOf(id)] = "none"
  /\ Admit(id)
  /\ UNCHANGED journal

FirstSeen(id) ==
  /\ journal[KeyOf(id)] = "none"
  /\ Admit(id)
  /\ Journal(id, "pending")

\* Mutant: an attempt under way is taken for one that is done.
PendingIsCommitted(id) ==
  /\ journal[KeyOf(id)] \in {"pending", "committed"}
  /\ GoTo(id, "duplicate")
  /\ UNCHANGED <<journal, attached>>

Committed(id) ==
  /\ journal[KeyOf(id)] = "committed"
  /\ GoTo(id, "duplicate")
  /\ UNCHANGED <<journal, attached>>

Probe(k) == IF guard.probe = "modeled" THEN registry[k] ELSE guard.probe

\* Mutant: what the probe found is written where the outcome belongs.
ReconcileVerbatim(id) ==
  /\ journal[KeyOf(id)] = "unknown" /\ guard.reconcile
  /\ Admit(id) /\ Journal(id, Probe(KeyOf(id)))

\* An unknown outcome is settled by asking the outside: the attempt runs once more
\* if nothing was done there, its journal entry gone, and is otherwise answered.
Reconcile(id) ==
  /\ journal[KeyOf(id)] = "unknown" /\ guard.reconcile
  /\ \/ Probe(KeyOf(id)) = "not-found" /\ Admit(id) /\ Journal(id, "none")
     \/ /\ Probe(KeyOf(id)) # "not-found"
        /\ GoTo(id, "duplicate")
        /\ Journal(id, "committed") /\ UNCHANGED attached

Blocked(id) ==
  /\ \/ journal[KeyOf(id)] = "pending"
     \/ journal[KeyOf(id)] = "unknown" /\ ~guard.reconcile
  /\ GoTo(id, "refused")
  /\ UNCHANGED <<journal, attached>>

CommitJournal(id) ==
  /\ guard.journal
  /\ FirstSeen(id) \/ Committed(id) \/ Reconcile(id) \/ Blocked(id)
  /\ UNCHANGED seenKeys

ReachGuard(id) ==
  /\ AtConsumer(id) /\ step[id] = "start"
  /\ DedupWindow(id) \/ CommitJournal(id)
  /\ UNCHANGED <<deliveryVars, chosen, registry, lockVars>>

-----------------------------------------------------------------------------
(* The distributed lock: beforeRouting *)

\* Expired leases are purged by whoever comes next.
LeaseFree == lease = NoLease \/ lease.expired

\* Mutant: whoever takes over an expired lease takes over its token.
TakeOver(id) ==
  /\ LeaseFree
  /\ grants' = IF lease = NoLease THEN grants + 1 ELSE grants
  /\ lease' = [owner |-> id, token |-> grants', expired |-> FALSE]
  /\ tokenOf' = [tokenOf EXCEPT ![id] = grants']
  /\ GoTo(id, "working")
  /\ UNCHANGED overrun

Acquire(id) ==
  /\ LeaseFree
  /\ grants' = grants + 1
  /\ lease' = [owner |-> id, token |-> grants', expired |-> FALSE]
  /\ tokenOf' = [tokenOf EXCEPT ![id] = grants']
  /\ GoTo(id, "working")
  /\ UNCHANGED overrun

Contended(id) ==
  /\ ~LeaseFree
  /\ GoTo(id, "contended")
  /\ UNCHANGED lockVars

ReachLock(id) ==
  /\ AtConsumer(id) /\ step[id] = "admitted"
  /\ Acquire(id) \/ Contended(id)
  /\ UNCHANGED <<deliveryVars, chosen, guardVars>>

LeaseRunsOut ==
  /\ ~LeaseFree
  /\ lease' = [lease EXCEPT !.expired = TRUE]
  /\ overrun' = overrun \cup {lease.owner}
  /\ UNCHANGED <<deliveryVars, chosen, guardVars, step, tokenOf, grants>>

\* Mutant: a release that trusts the attempt.
ReleaseAnyLease(id) ==
  /\ lease' = IF tokenOf[id] # 0 THEN NoLease ELSE lease
  /\ tokenOf' = [tokenOf EXCEPT ![id] = 0]
  /\ UNCHANGED <<grants, overrun>>

\* releaseRequestLockLeases: only the owner's own grant is taken back.
ReleaseLease(id) ==
  /\ lease' = IF lease.owner = id /\ lease.token = tokenOf[id] THEN NoLease ELSE lease
  /\ tokenOf' = [tokenOf EXCEPT ![id] = 0]
  /\ UNCHANGED <<grants, overrun>>

-----------------------------------------------------------------------------
(* The queue's steps over all this *)

\* A forked attempt copies its parent's metadata, journal entry included, but not
\* its leases.
CloneMetadata(id) ==
  LET m == id[1]
      forked == {<<m, n>> : n \in DOMAIN attempts'[m] \ DOMAIN attempts[m]}
  IN  attached' = IF id \in attached THEN attached \cup forked ELSE attached

\* afterTerminal of the guard, if the attempt came that far.
Settles(id) == guard.journal /\ id \in attached /\ step[id] # "start"

\* Mutant: an interrupted attempt's intent is struck out of the journal.
ForgetInterrupted(id) ==
  /\ IF Settles(id) THEN Journal(id, "none") ELSE UNCHANGED journal
  /\ UNCHANGED registry

JournalSuccess(id) ==
  IF Settles(id)
    THEN /\ Journal(id, "committed")
         /\ registry' = [registry EXCEPT ![KeyOf(id)] = "committed"]
    ELSE UNCHANGED <<journal, registry>>

JournalFailure(id) ==
  IF Settles(id)
    THEN /\ Journal(id, "unknown")
         /\ registry' = IF report = "silent" THEN registry
                        ELSE [registry EXCEPT ![KeyOf(id)] = report]
    ELSE UNCHANGED <<journal, registry>>

MayDeliver(id) ==
  At(id).queue \in Guarded => step[id] \in {"duplicate", "working"}

CoordDeliver(id) ==
  /\ Deliver(id) /\ MayDeliver(id)
  /\ ReleaseLease(id) /\ JournalSuccess(id)
  /\ UNCHANGED <<chosen, seenKeys, attached, step>>

CoordFail(id) ==
  /\ FailAttempt(id)
  /\ ReleaseLease(id) /\ JournalFailure(id) /\ CloneMetadata(id)
  /\ UNCHANGED <<chosen, seenKeys, step>>

CoordExpire(id) ==
  /\ HandleVisibilityExpire(id)
  /\ CloneMetadata(id)
  /\ UNCHANGED <<chosen, journal, seenKeys, registry, step, lockVars>>

QueueOnly(id) ==
  /\ BeginProcessing(id) \/ FinishProcessing(id)
  /\ UNCHANGED <<chosen, guardVars, step, lockVars>>

CoordProduce(m) ==
  /\ Produce(m)
  /\ UNCHANGED <<chosen, guardVars, step, lockVars>>

Advance(id) ==
  \/ ReachGuard(id) \/ ReachLock(id)
  \/ CoordDeliver(id) \/ CoordFail(id) \/ CoordExpire(id) \/ QueueOnly(id)

WithinBound == Ids' \subseteq AllIds

CoordNext ==
  \/ \E m \in Messages : CoordProduce(m) /\ WithinBound
  \/ \E id \in Ids : Advance(id) /\ WithinBound
  \/ LeaseRunsOut
  \/ \E k \in Keys : WindowRunsOut(k)

CoordSpec == CoordInit /\ [][CoordNext]_coordVars

-----------------------------------------------------------------------------
(* Properties *)

CoordTypeOK ==
  /\ AttemptsOK
  /\ guard \in GuardConfigs /\ keyOf \in KeyMaps
  /\ journal \in [Keys -> {"none", "pending", "committed", "unknown"}]
  /\ seenKeys \subseteq Keys
  /\ registry \in [Keys -> {"unknown", "committed", "not-found"}]
  /\ attached \subseteq AllIds /\ step \in [AllIds -> Steps]
  /\ lease \in [owner : AllIds \cup {<<>>}, token : Nat, expired : BOOLEAN]
  /\ tokenOf \in [AllIds -> Nat] /\ grants \in Nat /\ overrun \subseteq AllIds

\* Mutual exclusion: a lease in the table belongs to an attempt still at work under it, however the
\* attempts before it ended and whichever of their releases came late; at most one attempt works on the
\* resource whose lease has not run out, and its fencing token is newer than that of
\* every attempt that works on beyond its own.
LeaseHasLiveOwner ==
  lease # NoLease =>
    lease.owner \in Ids /\ Live(lease.owner) /\ tokenOf[lease.owner] = lease.token

NewestTokenHolds ==
  \A a, b \in AllIds : a # b /\ tokenOf[a] > 0 /\ tokenOf[b] > 0 /\ a \notin overrun
    => b \in overrun /\ tokenOf[b] < tokenOf[a]
Fenced == LeaseHasLiveOwner /\ NewestTokenHolds

\* Without reconciliation the journal lets one attempt of a key through and never
\* a second, across redeliveries, duplicates and failures.
ExecutedOnce ==
  guard.journal /\ ~guard.reconcile =>
    \A a, b \in AllIds : PastGuard(a) /\ PastGuard(b) /\ KeyOf(a) = KeyOf(b) => a = b

\* It answers a duplicate without work only when the work was done: some attempt
\* of the key worked and was delivered.
AnsweredOnlyIfDone ==
  guard.journal /\ ~guard.reconcile =>
    \A id \in AllIds : step[id] = "duplicate" =>
      \E done \in Ids : /\ KeyOf(done) = KeyOf(id)
                        /\ step[done] = "working" /\ At(done).state = "delivered"

\* The lease table and the releases implement a fenced lock whose clients are the
\* attempts: a grant is never made beside a holder whose lease still runs.
Lock == INSTANCE FencedLock
          WITH Clients <- AllIds, token <- tokenOf,
               late <- {id \in overrun : tokenOf[id] > 0}, last <- grants
ImplementsFencedLock == Lock!Spec

=============================================================================
