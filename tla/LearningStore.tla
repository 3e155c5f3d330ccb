---------------------------- MODULE LearningStore ----------------------------
(***************************************************************************)
(* internal/learning.Store: learnings in index.jsonl of a local directory  *)
(* and, redacted, of a shared one that is committed.  Updates hold a file  *)
(* lock, read both files (a local entry wins over a shared one), and       *)
(* replace first the local file, whose failures are only a warning, then   *)
(* the shared one.  Whoever has the lock may die, and the shared file may  *)
(* come back from a merge with a line nobody can parse.                    *)
(*                                                                         *)
(* A learning is its history of use; texts and tags are the relation       *)
(* Similar.  The lock is held by at most one command, so reading under it  *)
(* and deciding what to write is one step.                                 *)
(***************************************************************************)
EXTENDS Integers, Sequences, FiniteSets, SequencesExt

CONSTANTS
  Ids,         \* ids of learnings; each is generated once
  Similar,     \* pairs of ids with two tags in common and similar summaries
  Procs,       \* commands that may run at once
  NoProc,
  Expiry,      \* autoExpiryThreshold
  MaxAge,      \* of expired and superseded learnings
  MinAttach,   \* preventionMinAttachCount
  Confidence,  \* of a learning without outcomes: <<successes, of>>
  MaxTime,     \* bound: the clock stops here
  MaxOutcomes, \* bound: outcomes recorded
  MaxFaults    \* bound: failing writes, dying commands, bad merges

VARIABLES
  local, shared,  \* the learnings in the two files, in their order
  corrupt,        \* the shared file has a line that does not parse
  index,          \* tags.json: the ids it lists
  prevention,     \* ids with a compiled prevention check
  lock, job, now,
  outcomes, faults,
  added,          \* ids generated so far
  acked,          \* history: acked[id]: the outcomes RecordOutcome has reported
  localFailed     \* history: a write of the local file failed

storeVars == <<local, shared, corrupt, index, prevention, lock, job, now, outcomes, faults,
               added, acked, localFailed>>

None == 0

New(id) == [id |-> id, created |-> now, attach |-> 0, success |-> 0, last |-> now,
            expired |-> FALSE, by |-> None]

IdsIn(ls) == {ls[i].id : i \in DOMAIN ls}

(* The learnings at the positions in keep, in their order. *)
Select(ls, keep) ==
  LET upTo[n \in 0 .. Len(ls)] ==
        IF n = 0 THEN <<>>
        ELSE IF n \in keep THEN Append(upTo[n - 1], ls[n]) ELSE upTo[n - 1]
  IN upTo[Len(ls)]

(* mergeLearnings *)
Merge(primary, secondary) ==
  primary \o Select(secondary, {i \in DOMAIN secondary : secondary[i].id \notin IdsIn(primary)})

View == Merge(local, shared)

Active(l) == ~l.expired /\ l.by = None

Effectiveness(l) == IF l.attach = 0 THEN Confidence ELSE <<l.success, l.attach>>

AtLeast(e, f) == e[1] * f[2] >= f[1] * e[2]

(* applyOutcomes *)
WithOutcome(ls, ids, passed) ==
  [i \in DOMAIN ls |-> IF ls[i].id \notin ids THEN ls[i] ELSE
     [ls[i] EXCEPT !.attach = @ + 1, !.success = IF passed THEN @ + 1 ELSE @, !.last = now]]

(* tryMergeDuplicate: the weaker of two is superseded by the other. *)
MergePair(ls, i, j) ==
  IF <<ls[i].id, ls[j].id>> \notin Similar THEN ls
  ELSE IF AtLeast(Effectiveness(ls[i]), Effectiveness(ls[j]))
       THEN [ls EXCEPT ![j].by = ls[i].id]
       ELSE [ls EXCEPT ![i].by = ls[j].id]

ComparedAll(ls, i) ==
  LET upTo[j \in 0 .. Len(ls)] == IF j <= i THEN ls ELSE MergePair(upTo[j - 1], i, j)
  IN upTo[Len(ls)]

DedupAll(ls) ==
  LET upTo[i \in 0 .. Len(ls)] ==
        IF i = 0 THEN ls
        ELSE LET a == upTo[i - 1] IN IF Active(a[i]) THEN ComparedAll(a, i) ELSE a
  IN upTo[Len(ls)]

(* A learning is looked at once: superseded by one that follows, it goes   *)
(* on to be compared with the next.                                        *)
Compared(ls, i) ==
  LET upTo[j \in 0 .. Len(ls)] ==
        IF j <= i THEN ls
        ELSE LET a == upTo[j - 1] IN IF Active(a[j]) THEN MergePair(a, i, j) ELSE a
  IN upTo[Len(ls)]

(* applyDedup *)
Dedup(ls) ==
  LET upTo[i \in 0 .. Len(ls)] ==
        IF i = 0 THEN ls
        ELSE LET a == upTo[i - 1] IN IF Active(a[i]) THEN Compared(a, i) ELSE a
  IN upTo[Len(ls)]

ExpireByAge(ls) ==
  [i \in DOMAIN ls |->
     [ls[i] EXCEPT !.expired = @ \/ (ls[i].by = None /\ now - ls[i].created > Expiry)]]

(* applyAutoExpiry: by the last outcome, or the creation if there is none. *)
Expire(ls) ==
  [i \in DOMAIN ls |->
     [ls[i] EXCEPT !.expired = @ \/ (ls[i].by = None /\ now - ls[i].last > Expiry)]]

(* applyGC *)
Collect(ls) == Select(ls, {i \in DOMAIN ls : Active(ls[i]) \/ now - ls[i].created <= MaxAge})

Maintained(ls) == Collect(Expire(Dedup(ls)))

(* rebuildIndex, qualifiesForPrevention *)
Indexed(ls) == {l \in IdsIn(ls) : \E i \in DOMAIN ls : ls[i].id = l /\ Active(ls[i])}

Qualified(ls) ==
  {l \in IdsIn(ls) : \E i \in DOMAIN ls : /\ ls[i].id = l /\ Active(ls[i])
                                          /\ ls[i].attach >= MinAttach
                                          /\ 10 * ls[i].success >= 7 * ls[i].attach}

Idle == [pc |-> "idle", op |-> "none", ids |-> {}, at |-> 0, new |-> <<>>]

Init ==
  /\ local = <<>> /\ shared = <<>>
  /\ corrupt = FALSE
  /\ index = {} /\ prevention = {}
  /\ lock = NoProc
  /\ job = [p \in Procs |-> Idle]
  /\ now = 0 /\ outcomes = 0 /\ faults = 0
  /\ added = {}
  /\ acked = [id \in Ids |-> <<>>]
  /\ localFailed = FALSE

BeginUnlocked(p, op, ids, new) ==
  /\ job[p] = Idle
  /\ lock' = p
  /\ job' = [job EXCEPT ![p] = [pc |-> "local", op |-> op, ids |-> ids, at |-> now, new |-> new]]
  /\ UNCHANGED <<local, shared, corrupt, index, prevention, now, faults, acked, localFailed>>

(* withLock, and what the operation makes of the learnings it reads. *)
Begin(p, op, ids, new) ==
  /\ job[p] = Idle
  /\ lock = NoProc
  /\ lock' = p
  /\ job' = [job EXCEPT ![p] = [pc |-> "local", op |-> op, ids |-> ids, at |-> now, new |-> new]]
  /\ UNCHANGED <<local, shared, corrupt, index, prevention, now, faults, acked, localFailed>>

Add(p) ==
  /\ ~corrupt
  /\ \E id \in Ids \ added :
       /\ \A i \in Ids : i < id <=> i \in added
       /\ added' = added \cup {id}
       /\ Begin(p, "add", {id}, Append(View, New(id)))
  /\ UNCHANGED outcomes

RecordOutcome(p, ids, passed) ==
  /\ ~corrupt
  /\ outcomes < MaxOutcomes
  /\ outcomes' = outcomes + 1
  /\ Begin(p, "outcome", ids, WithOutcome(View, ids, passed))
  /\ UNCHANGED added

(* Maintain, which GarbageCollect calls as well. *)
Maintain(p) ==
  /\ ~corrupt
  /\ Begin(p, "maintain", {}, Maintained(View))
  /\ UNCHANGED <<outcomes, added>>

Repair(p) ==
  /\ corrupt
  /\ Begin(p, "repair", {}, View)
  /\ UNCHANGED <<outcomes, added>>

(* writeAll *)
WriteLocal(p) ==
  /\ job[p].pc = "local"
  /\ local' = job[p].new
  /\ job' = [job EXCEPT ![p].pc = "shared"]
  /\ UNCHANGED <<shared, corrupt, index, prevention, lock, now, outcomes, faults,
                 added, acked, localFailed>>

LocalFails(p) ==
  /\ job[p].pc = "local"
  /\ faults < MaxFaults
  /\ faults' = faults + 1
  /\ localFailed' = TRUE
  /\ job' = [job EXCEPT ![p].pc = "shared"]
  /\ UNCHANGED <<local, shared, corrupt, index, prevention, lock, now, outcomes, added, acked>>

(* RecordOutcome returns after this, and the other operations go on.       *)
WriteShared(p) ==
  /\ job[p].pc = "shared"
  /\ shared' = job[p].new
  /\ corrupt' = FALSE
  /\ LET ends == job[p].op = "outcome" IN
       /\ job' = [job EXCEPT ![p] = IF ends THEN Idle ELSE [@ EXCEPT !.pc = "index"]]
       /\ lock' = IF ends THEN NoProc ELSE lock
       /\ acked' = [id \in Ids |-> IF ends /\ id \in job[p].ids THEN Append(acked[id], job[p].at)
                                   ELSE acked[id]]
  /\ UNCHANGED <<local, index, prevention, now, outcomes, faults, added, localFailed>>

Index(p) ==
  /\ job[p].pc = "index"
  /\ index' = Indexed(job[p].new)
  /\ LET ends == job[p].op # "maintain" IN
       /\ job' = [job EXCEPT ![p] = IF ends THEN Idle ELSE [@ EXCEPT !.pc = "prevent"]]
       /\ lock' = IF ends THEN NoProc ELSE lock
  /\ UNCHANGED <<local, shared, corrupt, prevention, now, outcomes, faults, added, acked, localFailed>>

(* compilePreventionChecks writes what qualifies and prunes the rest. *)
Prevent(p) ==
  /\ job[p].pc = "prevent"
  /\ prevention' = Qualified(job[p].new)
  /\ job' = [job EXCEPT ![p] = Idle]
  /\ lock' = NoProc
  /\ UNCHANGED <<local, shared, corrupt, index, now, outcomes, faults, added, acked, localFailed>>

(* A command dies, or fails to write anything but the local file.          *)
Crash(p) ==
  /\ job[p] # Idle
  /\ faults < MaxFaults
  /\ faults' = faults + 1
  /\ job' = [job EXCEPT ![p] = Idle]
  /\ lock' = NoProc
  /\ UNCHANGED <<local, shared, corrupt, index, prevention, now, outcomes, added, acked, localFailed>>

(* A merge of the committed file damages a line. *)
BadMerge ==
  /\ faults < MaxFaults /\ lock = NoProc
  /\ faults' = faults + 1
  /\ \E i \in DOMAIN shared : shared' = RemoveAt(shared, i)
  /\ corrupt' = TRUE
  /\ UNCHANGED <<local, index, prevention, lock, job, now, outcomes, added, acked, localFailed>>

Tick ==
  /\ now < MaxTime
  /\ now' = now + 1
  /\ UNCHANGED <<local, shared, corrupt, index, prevention, lock, job, outcomes, faults,
                 added, acked, localFailed>>

Step(p) ==
  \/ Add(p) \/ Maintain(p) \/ Repair(p)
  \/ \E ids \in (SUBSET IdsIn(View)) \ {{}}, passed \in BOOLEAN : RecordOutcome(p, ids, passed)
  \/ WriteLocal(p) \/ LocalFails(p) \/ WriteShared(p) \/ Index(p) \/ Prevent(p) \/ Crash(p)

Next == Tick \/ BadMerge \/ \E p \in Procs : Step(p)

Spec == Init /\ [][Next]_storeVars

-----------------------------------------------------------------------------
Learning ==
  [id : Ids, created : 0 .. MaxTime, attach : 0 .. MaxOutcomes, success : 0 .. MaxOutcomes,
   last : 0 .. MaxTime, expired : BOOLEAN, by : Ids \cup {None}]

TypeOK ==
  /\ \A f \in {local, shared} : /\ f \in Seq(Learning)
                                /\ Cardinality(IdsIn(f)) = Len(f)
                                /\ \A i \in DOMAIN f : f[i].success <= f[i].attach
  /\ index \subseteq Ids /\ prevention \subseteq Ids
  /\ lock \in Procs \cup {NoProc}
  /\ \A p \in Procs : job[p] # Idle <=> lock = p

(* An outcome RecordOutcome has reported as recorded is in the counters    *)
(* the next command reads, whichever commands ran into each other and      *)
(* wherever they died, unless a local write failed (store.go:137).         *)
OutcomesAreKept ==
  ~localFailed => \A i \in DOMAIN View : View[i].attach >= Len(acked[View[i].id])

(* A learning that duplicates no other stays active for as long as it was  *)
(* added to a task within the expiry, through maintenance, crashes and bad *)
(* merges: only those that "haven't been attached to a task in 90 days"    *)
(* expire (store.go:932).                                                  *)
UsedIsActive ==
  ~localFailed =>
    \A id \in Ids :
      /\ acked[id] # <<>> /\ now - Last(acked[id]) <= Expiry
      /\ \A other \in Ids : <<id, other>> \notin Similar /\ <<other, id>> \notin Similar
      => \E i \in DOMAIN View : View[i].id = id /\ Active(View[i])

(* Following superseded_by from a learning ends, at one that is not        *)
(* superseded or was collected: no two learnings hide each other for good, *)
(* although their effectiveness changes between rounds of maintenance,     *)
(* unless a local write failed.                                            *)
SupersessionEnds ==
  ~localFailed =>
    \A S \in SUBSET IdsIn(View) :
      S # {} => \E i \in DOMAIN View : View[i].id \in S /\ View[i].by \notin S
=============================================================================
