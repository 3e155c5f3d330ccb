----------------------------- MODULE TicketLinks -----------------------------
(***************************************************************************)
(* internal/ticket: Link and Unlink change two ticket files under the      *)
(* locks of both, taken in the order of their paths, and put the first     *)
(* back if the second cannot be written.  Every other operation rewrites   *)
(* one file and keeps the links it read in it: those that take its lock,   *)
(* and WriteTasks, which takes none.  What else is in a ticket is in       *)
(* TicketStore.                                                            *)
(***************************************************************************)
EXTENDS Naturals, Sequences, SequencesExt

CONSTANTS
  Tickets,     \* tickets, numbered in the order of their paths
  Procs, NoProc,
  MaxCommands, \* bound: operations started
  MaxFaults    \* bound: reads and writes that fail, processes that die

VARIABLES
  links,     \* links[t]: "links" in the frontmatter of t
  holder,    \* holder[t]: the process that has the flock of t
  job,
  commands, faults,
  spoiled    \* history: an update was lost for want of a lock, or half-made

linkVars == <<links, holder, job, commands, faults, spoiled>>

NotWorking == [pc |-> "idle", op |-> "none", a |-> 0, b |-> 0, todo |-> <<>>,
               updates |-> <<>>, applied |-> <<>>]

Init ==
  /\ links = [t \in Tickets |-> {}]
  /\ holder = [t \in Tickets |-> NoProc]
  /\ job = [p \in Procs |-> NotWorking]
  /\ commands = 0 /\ faults = 0
  /\ spoiled = FALSE

At(p, pc) == job[p].pc = pc

(* withLocks: unlocked in any case, whatever fn returned. *)
Ends(p) ==
  /\ job' = [job EXCEPT ![p] = NotWorking]
  /\ holder' = [t \in Tickets |-> IF holder[t] = p THEN NoProc ELSE holder[t]]

Fault == faults < MaxFaults /\ faults' = faults + 1

(* uniqueSortedPaths *)
LockOrder(a, b) == IF a = b THEN <<a>> ELSE IF a < b THEN <<a, b>> ELSE <<b, a>>

Begin(p, op, a, b, todo) ==
  /\ At(p, "idle")
  /\ commands < MaxCommands
  /\ commands' = commands + 1
  /\ job' = [job EXCEPT ![p] = [NotWorking EXCEPT !.pc = "lock", !.op = op, !.a = a, !.b = b,
                                                  !.todo = todo]]
  /\ UNCHANGED <<links, holder, faults, spoiled>>

StartAsGiven(p, op, a, b) == Begin(p, op, a, b, IF a = b THEN <<a>> ELSE <<a, b>>)

(* Link and Unlink; a ticket may be linked to itself. *)
Start(p, op, a, b) == Begin(p, op, a, b, LockOrder(a, b))

(* An operation on one ticket; WriteTasks does without the lock. *)
StartRewrite(p, a) == Begin(p, "rewrite", a, a, <<a>>) \/ Begin(p, "rewrite", a, a, <<>>)

Lock(p) ==
  /\ At(p, "lock") /\ job[p].todo # <<>>
  /\ LET t == Head(job[p].todo) IN
       /\ holder[t] = NoProc
       /\ holder' = [holder EXCEPT ![t] = p]
  /\ job' = [job EXCEPT ![p].todo = Tail(@)]
  /\ UNCHANGED <<links, commands, faults, spoiled>>

(* appendUniqueLink, removeLink *)
Mutated(op, ls, other) ==
  CASE op = "link" -> ls \cup {other}
    [] op = "unlink" -> ls \ {other}
    [] op = "rewrite" -> ls

(* prepareTicketLinkUpdate: nothing, if the link is there or gone already. *)
Prepared(p, t, other) ==
  LET new == Mutated(job[p].op, links[t], other) IN
  IF new = links[t] /\ job[p].op # "rewrite" THEN <<>>
  ELSE <<[ticket |-> t, previous |-> links[t], updated |-> new]>>

ReadFirst(p) ==
  /\ At(p, "lock") /\ job[p].todo = <<>>
  /\ job' = [job EXCEPT ![p].pc = IF job[p].a = job[p].b THEN "write" ELSE "second",
                        ![p].updates = Prepared(p, job[p].a, job[p].b)]
  /\ UNCHANGED <<links, holder, commands, faults, spoiled>>

ReadSecond(p) ==
  /\ At(p, "second")
  /\ job' = [job EXCEPT ![p].pc = "write",
                        ![p].updates = @ \o Prepared(p, job[p].b, job[p].a)]
  /\ UNCHANGED <<links, holder, commands, faults, spoiled>>

(* A ticket is missing or malformed: no file is written. *)
ReadFails(p) ==
  /\ (At(p, "lock") /\ job[p].todo = <<>>) \/ At(p, "second")
  /\ Fault
  /\ Ends(p)
  /\ UNCHANGED <<links, commands, spoiled>>

(* applyTicketLinkUpdates *)
Write(p) ==
  /\ At(p, "write") /\ job[p].updates # <<>>
  /\ LET u == Head(job[p].updates) IN
       /\ links' = [links EXCEPT ![u.ticket] = u.updated]
       /\ spoiled' = (spoiled \/ (job[p].op = "rewrite" /\ links[u.ticket] # u.updated))
       /\ job' = [job EXCEPT ![p].updates = Tail(@), ![p].applied = Append(@, u)]
  /\ UNCHANGED <<holder, commands, faults>>

WriteFailsForGood(p) ==
  /\ At(p, "write") /\ job[p].updates # <<>>
  /\ Fault
  /\ Ends(p)
  /\ UNCHANGED <<links, commands, spoiled>>

WriteFails(p) ==
  /\ At(p, "write") /\ job[p].updates # <<>>
  /\ Fault
  /\ job' = [job EXCEPT ![p].pc = "rollback"]
  /\ UNCHANGED <<links, holder, commands, spoiled>>

Rollback(p) ==
  /\ At(p, "rollback") /\ job[p].applied # <<>>
  /\ LET u == Last(job[p].applied) IN
       links' = [links EXCEPT ![u.ticket] = u.previous]
  /\ job' = [job EXCEPT ![p].applied = Front(@)]
  /\ UNCHANGED <<holder, commands, faults, spoiled>>

RollbackFails(p) ==
  /\ At(p, "rollback") /\ job[p].applied # <<>>
  /\ Fault
  /\ Ends(p)
  /\ spoiled' = TRUE
  /\ UNCHANGED <<links, commands>>

Return(p) ==
  /\ \/ At(p, "write") /\ job[p].updates = <<>>
     \/ At(p, "rollback") /\ job[p].applied = <<>>
  /\ Ends(p)
  /\ UNCHANGED <<links, commands, faults, spoiled>>

(* A process dies, and the kernel drops its locks. *)
Crash(p) ==
  /\ ~At(p, "idle")
  /\ Fault
  /\ Ends(p)
  /\ spoiled' = (spoiled \/ job[p].applied # <<>>)
  /\ UNCHANGED <<links, commands>>

Next ==
  \E p \in Procs :
     \/ \E op \in {"link", "unlink"}, a, b \in Tickets : Start(p, op, a, b)
     \/ \E a \in Tickets : StartRewrite(p, a)
     \/ Lock(p) \/ ReadFirst(p) \/ ReadSecond(p) \/ ReadFails(p)
     \/ Write(p) \/ WriteFails(p) \/ Rollback(p) \/ RollbackFails(p)
     \/ Return(p) \/ Crash(p)

Spec == Init /\ [][Next]_linkVars

-----------------------------------------------------------------------------
TypeOK ==
  /\ links \in [Tickets -> SUBSET Tickets]
  /\ holder \in [Tickets -> Procs \cup {NoProc}]
  /\ \A p \in Procs :
       /\ Range(job[p].todo) \subseteq Tickets
       /\ \A u \in Range(job[p].updates \o job[p].applied) : u.ticket \in Tickets
  /\ commands \in 0 .. MaxCommands /\ faults \in 0 .. MaxFaults
  /\ spoiled \in BOOLEAN

(* "Link creates a bidirectional link between two tickets"                 *)
(* (src/internal/ticket/store.go:344): of two tickets that nobody has      *)
(* locked, each names the other or neither does, also after an update that *)
(* failed half-way, unless its rollback failed or its process died.        *)
LinksAreMutual ==
  ~spoiled => \A s, t \in Tickets :
    holder[s] = NoProc /\ holder[t] = NoProc => (t \in links[s] <=> s \in links[t])

(* Operations on tickets that are linked both ways never wait for each     *)
(* other's locks all round (src/internal/ticket/store.go:432).             *)
NoCircularWait ==
  (\E p \in Procs : ~At(p, "idle")) =>
    \E p \in Procs : /\ ~At(p, "idle")
                     /\ At(p, "lock") /\ job[p].todo # <<>> =>
                          holder[Head(job[p].todo)] = NoProc
=============================================================================
