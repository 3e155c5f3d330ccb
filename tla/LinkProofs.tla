------------------------------ MODULE LinkProofs ------------------------------
(***************************************************************************)
(* What holds of TicketLinks in MCPlanning for any number of tickets and   *)
(* processes: links go both ways whenever nobody is at work on the two     *)
(* tickets, and no operations wait for each other's locks all round.  The  *)
(* proofs are about the part, K, and the theorem about the sum.  Types of  *)
(* the part are at the end.                                                *)
(***************************************************************************)
EXTENDS PlanningProofs

Update == [ticket : Tickets, previous : SUBSET Tickets, updated : SUBSET Tickets]

LinkJob ==
  [pc : {"idle", "lock", "second", "write", "rollback"}, op : {"none", "link", "unlink", "rewrite"},
   a : Tickets \cup {0}, b : Tickets \cup {0}, todo : Seq(Tickets),
   updates : Seq(Update), applied : Seq(Update)]

LinkTypes ==
  /\ links \in [Tickets -> SUBSET Tickets]
  /\ holder \in [Tickets -> Procs \cup {NoProc}]
  /\ job \in [Procs -> LinkJob]
  /\ spoiled \in BOOLEAN

Locks(p) == {t \in Tickets : holder[t] = p}

Wanted(p) == {job[p].a, job[p].b}

Relates(p) == job[p].op \in {"link", "unlink"}

(* Locks are taken in the order of the tickets, and all before any read.   *)
Locking(p) ==
  \/ job[p].todo = <<>> /\ (Relates(p) => Locks(p) = Wanted(p))
  \/ \E x \in Wanted(p) : /\ job[p].todo = <<x>>
                          /\ Locks(p) = Wanted(p) \ {x}
                          /\ \A y \in Wanted(p) : y <= x
  \/ \E x, y \in Wanted(p) : /\ job[p].todo = <<x, y>> /\ x < y
                             /\ Locks(p) = {}

(* A rewrite writes its ticket once, and puts nothing back.                *)
RewriteOK(p) ==
  job[p].op = "rewrite" =>
  /\ job[p].a = job[p].b
  /\ K!At(p, "rollback") => job[p].applied = <<>>
  /\ K!At(p, "write") /\ job[p].updates # <<>> =>
       Len(job[p].updates) = 1 /\ job[p].applied = <<>>

LockOK(p) ==
  /\ K!At(p, "idle") => job[p] = K!NotWorking /\ Locks(p) = {}
  /\ ~K!At(p, "idle") => Wanted(p) \subseteq Tickets /\ Locks(p) \subseteq Wanted(p)
                       /\ job[p].op # "none"
  /\ RewriteOK(p)
  /\ K!At(p, "lock") => Locking(p) /\ job[p].applied = <<>> /\ job[p].updates = <<>>
  /\ Relates(p) /\ ~K!At(p, "lock") => Locks(p) = Wanted(p)
  /\ K!At(p, "second") => Relates(p) /\ job[p].a # job[p].b

(* One of two files is written, and the other will be, or the first again. *)
Midway(p) ==
  /\ Relates(p) /\ job[p].a # job[p].b
  /\ Len(job[p].applied) = 1
  /\ K!At(p, "rollback") \/ (K!At(p, "write") /\ job[p].updates # <<>>)

(* What is written first and what it replaces. *)
FirstWritten(p) ==
  LET u == job[p].applied[1] IN
  /\ u.ticket = job[p].a
  /\ \A c \in Tickets \ {job[p].b} : c \in u.previous <=> c \in links[job[p].a]
  /\ job[p].b \in u.previous <=> job[p].a \in links[job[p].b]
  /\ job[p].b \in links[job[p].a] <=> job[p].op = "link"

DataOK(p) ==
  Relates(p) =>
  /\ K!At(p, "second") => /\ job[p].updates = K!Prepared(p, job[p].a, job[p].b)
                        /\ job[p].applied = <<>>
  /\ K!At(p, "write") /\ job[p].updates # <<>> =>
       IF job[p].a = job[p].b
       THEN job[p].applied = <<>> /\ job[p].updates = K!Prepared(p, job[p].a, job[p].a)
       ELSE \/ /\ job[p].applied = <<>>
               /\ job[p].updates = K!Prepared(p, job[p].a, job[p].b) \o K!Prepared(p, job[p].b, job[p].a)
            \/ Midway(p) /\ job[p].updates = K!Prepared(p, job[p].b, job[p].a)
  /\ K!At(p, "rollback") => job[p].applied = <<>> \/ Midway(p)
  /\ Midway(p) => FirstWritten(p)

Mutual(s, t) == t \in links[s] <=> s \in links[t]

MutualOK ==
  \A s, t \in Tickets : Mutual(s, t) \/ \E p \in Procs : Midway(p) /\ Wanted(p) = {s, t}

LinkInv ==
  /\ LinkTypes
  /\ \A p \in Procs : LockOK(p)
  /\ ~spoiled => MutualOK /\ \A p \in Procs : DataOK(p)


(* Tickets are finitely many. *)
Numbered == NoProc \notin Procs /\ Tickets \subseteq Nat /\ \E n \in Nat : Tickets \subseteq 0 .. n

(* What preparing an update of t comes to, for a job of kind op.           *)
Preparing(op, ls, t, other) ==
  IF K!Mutated(op, ls, other) = ls /\ op # "rewrite" THEN <<>>
  ELSE <<[ticket |-> t, previous |-> ls, updated |-> K!Mutated(op, ls, other)]>>

(* The record that preparing makes of the ticket read, and of the files.   *)
LEMMA PreparedIs ==
  /\ \A p, t, o : K!Prepared(p, t, o) = Preparing(job[p].op, links[t], t, o)
  /\ \A p, t, o : K!Prepared(p, t, o)' = Preparing(job'[p].op, links'[t], t, o)
BY Zenon DEF K!Prepared, Preparing

(* Prepared is nothing, if the link is as it should be, or one update.     *)
Shape(v, op, ls, t, o) ==
  \/ v = <<>> /\ (o \in ls <=> op = "link")
  \/ \E u \in Update :
       /\ v = <<u>> /\ u.ticket = t /\ u.previous = ls
       /\ \A c \in Tickets \ {o} : c \in u.updated <=> c \in ls
       /\ o \in u.updated <=> op = "link"
       /\ o \in ls <=> op # "link"

(* That record has the shape of an update.                                 *)
LEMMA PreparingShape ==
  \A op \in {"link", "unlink"}, ls \in SUBSET Tickets, t \in Tickets, o \in Tickets :
     Shape(Preparing(op, ls, t, o), op, ls, t, o)
<1> TAKE op \in {"link", "unlink"}, ls \in SUBSET Tickets, t \in Tickets, o \in Tickets
<1> DEFINE new == K!Mutated(op, ls, o)
           u == [ticket |-> t, previous |-> ls, updated |-> new]
<1>1. /\ new \in SUBSET Tickets
      /\ \A c \in Tickets \ {o} : c \in new <=> c \in ls
      /\ o \in new <=> op = "link"
  BY DEF K!Mutated
<1>2. new = ls => (o \in ls <=> op = "link") BY <1>1
<1>3. new # ls => (o \in ls <=> op # "link") BY <1>1
<1> HIDE DEF new
<1>4. u \in Update BY <1>1 DEF Update
<1>5. Preparing(op, ls, t, o) = IF new = ls THEN <<>> ELSE <<u>>
  BY DEF Preparing, new
<1>6. u.ticket = t /\ u.previous = ls /\ u.updated = new OBVIOUS
<1> HIDE DEF u
<1>7. CASE new = ls BY <1>2, <1>5, <1>7 DEF Shape
<1>8. CASE new # ls
  <2>1. Preparing(op, ls, t, o) = <<u>> BY <1>5, <1>8
  <2> QED BY <1>1, <1>3, <1>4, <1>6, <1>8, <2>1 DEF Shape
<1> QED BY <1>7, <1>8

(* And its sets are sets of tickets.                                       *)
LEMMA PreparingTypes ==
  \A op \in {"link", "unlink", "rewrite"}, ls \in SUBSET Tickets, t \in Tickets, o \in Tickets :
     /\ Preparing(op, ls, t, o) \in Seq(Update)
     /\ Preparing(op, ls, t, o) = <<>> \/ Len(Preparing(op, ls, t, o)) = 1
<1> TAKE op \in {"link", "unlink", "rewrite"}, ls \in SUBSET Tickets, t \in Tickets, o \in Tickets
<1> DEFINE u == [ticket |-> t, previous |-> ls, updated |-> K!Mutated(op, ls, o)]
<1>1. Preparing(op, ls, t, o) \in {<<>>, <<u>>} BY Zenon DEF Preparing
<1>2. K!Mutated(op, ls, o) \in SUBSET Tickets BY DEF K!Mutated
<1>3. u \in Update BY <1>2 DEF Update
<1> HIDE DEF u
<1>4. <<>> \in Seq(Update) /\ <<u>> \in Seq(Update) /\ Len(<<u>>) = 1 BY <1>3
<1> QED BY <1>1, <1>4

(* A step of p that leaves the jobs and locks of the others alone, and     *)
(* writes no ticket they have locked, keeps what is said of them.          *)
LEMMA OthersInv ==
  ASSUME LinkInv, NEW p \in Procs, LinkTypes', LockOK(p)',
         \A q \in Procs \ {p} : job'[q] = job[q] /\ Locks(q)' = Locks(q),
         ~spoiled' => /\ ~spoiled /\ DataOK(p)' /\ MutualOK'
                      /\ \A q \in Procs \ {p}, t \in Tickets :
                           holder[t] = q => links'[t] = links[t]
  PROVE  LinkInv'
<1>1. ASSUME NEW q \in Procs \ {p} PROVE LockOK(q)'
  BY <1>1 DEF LinkInv, LockOK, RewriteOK, Locking, K!At, Wanted, Relates
<1>2. ASSUME NEW q \in Procs \ {p}, ~spoiled' PROVE DataOK(q)'
  <2> DEFINE a == job[q].a
             b == job[q].b
  <2>1. LockOK(q) /\ DataOK(q) /\ job'[q] = job[q] BY <1>2 DEF LinkInv
  <2>2. CASE ~Relates(q) BY <2>1, <2>2 DEF DataOK, Relates
  <2>3. CASE Relates(q) /\ K!At(q, "lock") BY <2>1, <2>3 DEF DataOK, Relates, Midway, K!At
  <2>4. CASE Relates(q) /\ ~K!At(q, "lock")
    <3>1. Locks(q) = {a, b} BY <2>1, <2>4 DEF LockOK, Wanted
    <3>2. links'[a] = links[a] /\ links'[b] = links[b] BY <1>2, <3>1 DEF Locks
    <3>3. /\ K!Prepared(q, a, b)' = K!Prepared(q, a, b) /\ K!Prepared(q, b, a)' = K!Prepared(q, b, a)
          /\ K!Prepared(q, a, a)' = K!Prepared(q, a, a)
      BY <2>1, <3>2, PreparedIs
    <3>4. /\ Midway(q)' <=> Midway(q)
          /\ FirstWritten(q)' <=> FirstWritten(q)
          /\ K!At(q, "second")' <=> K!At(q, "second")
          /\ K!At(q, "write")' <=> K!At(q, "write")
          /\ K!At(q, "rollback")' <=> K!At(q, "rollback")
          /\ Relates(q)' <=> Relates(q)
      BY <2>1, <3>2 DEF Midway, FirstWritten, Relates, K!At
    <3> QED BY <2>1, <3>3, <3>4 DEF DataOK
  <2> QED BY <2>2, <2>3, <2>4
<1>3. ~spoiled' => \A q \in Procs : DataOK(q)' BY <1>2
<1>4. \A q \in Procs : LockOK(q)' BY <1>1
<1> QED BY <1>3, <1>4 DEF LinkInv

(* No link changes, and no update stops half-way.                          *)
LEMMA MutualKept ==
  ASSUME LinkInv, ~spoiled, NEW p \in Procs,
         \A q \in Procs \ {p} : job'[q] = job[q],
         links' = links, Midway(p) => Midway(p)' /\ Wanted(p)' = Wanted(p)
  PROVE  MutualOK'
<1> SUFFICES ASSUME NEW s \in Tickets, NEW t \in Tickets, ~Mutual(s, t)'
             PROVE  \E q \in Procs : Midway(q)' /\ Wanted(q)' = {s, t}
  BY DEF MutualOK
<1>1. PICK q \in Procs : Midway(q) /\ Wanted(q) = {s, t} BY DEF LinkInv, MutualOK, Mutual
<1>2. CASE q = p BY <1>1, <1>2
<1>3. CASE q # p
  <2>1. Midway(q)' /\ Wanted(q)' = {s, t} BY <1>1, <1>3 DEF Midway, Wanted, Relates, K!At
  <2> QED BY <2>1
<1> QED BY <1>2, <1>3

(* Only whether y is a link of x changes, and x and y are those p relates. *)
LEMMA MutualMoved ==
  ASSUME LinkInv, ~spoiled, NEW p \in Procs,
         \A q \in Procs \ {p} : job'[q] = job[q],
         NEW x \in Tickets, NEW y \in Tickets, Wanted(p) = {x, y},
         \A t \in Tickets \ {x} : links'[t] = links[t],
         \A c \in Tickets \ {y} : c \in links'[x] <=> c \in links[x],
         Mutual(x, y)' \/ (Midway(p)' /\ Wanted(p)' = {x, y})
  PROVE  MutualOK'
<1> SUFFICES ASSUME NEW s \in Tickets, NEW t \in Tickets, ~Mutual(s, t)'
             PROVE  \E q \in Procs : Midway(q)' /\ Wanted(q)' = {s, t}
  BY DEF MutualOK
<1>1. CASE {s, t} = {x, y}
  <2>1. Mutual(x, y)' => Mutual(s, t)' BY <1>1 DEF Mutual
  <2> QED BY <1>1, <2>1
<1>2. CASE {s, t} # {x, y}
  <2>1. ~Mutual(s, t) BY <1>2 DEF Mutual
  <2>2. PICK q \in Procs : Midway(q) /\ Wanted(q) = {s, t} BY <2>1 DEF LinkInv, MutualOK
  <2>3. q # p BY <1>2, <2>2
  <2>4. Midway(q)' /\ Wanted(q)' = {s, t} BY <2>2, <2>3 DEF Midway, Wanted, Relates, K!At
  <2> QED BY <2>4
<1> QED BY <1>1, <1>2

(* A command starts: it has no lock, and will take those it wants in order. *)
LEMMA BeginJobInv ==
  ASSUME Numbered, LinkInv, NEW p \in Procs, NEW op \in {"link", "unlink", "rewrite"},
         NEW a \in Tickets, NEW b \in Tickets, NEW order \in Seq(Tickets),
         K!Begin(p, op, a, b, order), op = "rewrite" => a = b,
         \/ order = <<>> /\ op = "rewrite"
         \/ order = <<a>> /\ a = b
         \/ \E x, y \in {a, b} : order = <<x, y>> /\ x < y
  PROVE  LinkInv'
<1> DEFINE j == [K!NotWorking EXCEPT !.pc = "lock", !.op = op, !.a = a, !.b = b, !.todo = order]
<1>1. /\ LinkTypes /\ LockOK(p) /\ K!At(p, "idle")
      /\ job' = [job EXCEPT ![p] = j] /\ UNCHANGED <<links, holder, spoiled>>
  BY DEF LinkInv, K!Begin
<1>2. /\ j.pc = "lock" /\ j.op = op /\ j.a = a /\ j.b = b /\ j.todo = order
      /\ j.updates = <<>> /\ j.applied = <<>> /\ j \in LinkJob
  <2>1. <<>> \in Seq(Update) OBVIOUS
  <2>2. /\ j.pc = "lock" /\ j.op = op /\ j.a = a /\ j.b = b /\ j.todo = order
        /\ j.updates = <<>> /\ j.applied = <<>>
    BY DEF K!NotWorking
  <2>3. j \in LinkJob BY <2>1 DEF K!NotWorking, LinkJob
  <2> QED BY <2>2, <2>3
<1> HIDE DEF j
<1>3. job' \in [Procs -> LinkJob] /\ job'[p] = j /\ \A q \in Procs \ {p} : job'[q] = job[q]
  BY <1>1, <1>2 DEF LinkTypes
<1>4. LinkTypes' /\ \A q \in Procs : Locks(q)' = Locks(q) BY <1>1, <1>3 DEF LinkTypes, Locks
<1>5. Locks(p)' = {} BY <1>1, <1>4 DEF LockOK
<1>6. Wanted(p)' = {a, b} /\ (Relates(p)' => op # "rewrite") /\ K!At(p, "lock")'
  BY <1>2, <1>3 DEF Wanted, Relates, K!At
<1>7. Locking(p)'
  <2>1. CASE order = <<>> /\ op = "rewrite" BY <1>2, <1>3, <1>6, <2>1 DEF Locking
  <2>2. CASE order = <<a>> /\ a = b
    <3>1. a <= a BY DEF Numbered
    <3>2. Wanted(p)' = {a} /\ job'[p].todo = <<a>> BY <1>2, <1>3, <1>6, <2>2
    <3> QED BY <1>5, <3>1, <3>2 DEF Locking
  <2>3. ASSUME NEW x \in {a, b}, NEW y \in {a, b}, order = <<x, y>>, x < y PROVE Locking(p)'
    BY <1>2, <1>3, <1>5, <1>6, <2>3 DEF Locking
  <2> QED BY <2>1, <2>2, <2>3
<1>8. LockOK(p)'
  BY <1>2, <1>3, <1>5, <1>6, <1>7 DEF LockOK, RewriteOK, K!At
<1>9. ~Midway(p) BY <1>1 DEF Midway, K!At
<1>10. ~spoiled' => /\ ~spoiled /\ DataOK(p)' /\ MutualOK'
  <2>1. DataOK(p)' BY <1>2, <1>3 DEF DataOK, Midway, K!At
  <2> QED BY <1>1, <1>3, <1>9, <2>1, MutualKept
<1> QED BY <1>1, <1>3, <1>4, <1>8, <1>10, OthersInv

(* An operation starts with the locks it wants, in their order.            *)
LEMMA StartInv ==
  ASSUME Numbered, LinkInv, NEW p \in Procs, NEW a \in Tickets, NEW b \in Tickets,
         K!Start(p, "link", a, b) \/ K!Start(p, "unlink", a, b) \/ K!StartRewrite(p, a)
  PROVE  LinkInv'
<1>1. ASSUME NEW op \in {"link", "unlink"}, K!Start(p, op, a, b) PROVE LinkInv'
  <2> DEFINE order == K!LockOrder(a, b)
  <2>1. K!Begin(p, op, a, b, order) BY <1>1 DEF K!Start
  <2>2. \A x, y \in Nat : x = y \/ x < y \/ y < x OBVIOUS
  <2>3. a \in Nat /\ b \in Nat BY DEF Numbered
  <2>4. \/ a = b /\ order = <<a>>
        \/ a < b /\ order = <<a, b>>
        \/ b < a /\ order = <<b, a>>
    BY <2>2, <2>3 DEF K!LockOrder
  <2> HIDE DEF order
  <2>5. order \in Seq(Tickets)
    <3>1. <<a>> \in Seq(Tickets) /\ <<a, b>> \in Seq(Tickets) /\ <<b, a>> \in Seq(Tickets) BY Seqs
    <3> QED BY <2>4, <3>1
  <2>6. \/ order = <<a>> /\ a = b
        \/ \E x, y \in {a, b} : order = <<x, y>> /\ x < y
    BY <2>4
  <2> QED BY <2>1, <2>5, <2>6, BeginJobInv
<1>2. ASSUME K!StartRewrite(p, a) PROVE LinkInv'
  <2>1. CASE K!Begin(p, "rewrite", a, a, <<a>>)
    <3>1. <<a>> \in Seq(Tickets) OBVIOUS
    <3> QED BY <2>1, <3>1, BeginJobInv
  <2>2. CASE K!Begin(p, "rewrite", a, a, <<>>)
    <3>1. <<>> \in Seq(Tickets) OBVIOUS
    <3> QED BY <2>2, <3>1, BeginJobInv
  <2> QED BY <1>2, <2>1, <2>2 DEF K!StartRewrite
<1> QED BY <1>1, <1>2

(* A command takes the next lock. *)
LEMMA LockInv ==
  ASSUME Numbered, LinkInv, NEW p \in Procs, K!Lock(p)
  PROVE  LinkInv'
<1> DEFINE t == Head(job[p].todo)
           rest == Tail(job[p].todo)
           j == [job[p] EXCEPT !.todo = rest]
<1>1. /\ LinkTypes /\ LockOK(p) /\ K!At(p, "lock") /\ job[p].todo # <<>>
      /\ holder[t] = NoProc /\ holder' = [holder EXCEPT ![t] = p]
      /\ job' = [job EXCEPT ![p].todo = rest] /\ UNCHANGED <<links, spoiled>>
      /\ job[p] \in LinkJob
  BY DEF LinkInv, LinkTypes, K!Lock, t, rest
<1>2. /\ Locking(p) /\ job[p].applied = <<>> /\ job[p].updates = <<>>
      /\ Wanted(p) \subseteq Tickets /\ Locks(p) \subseteq Wanted(p) /\ job[p].op # "none"
      /\ RewriteOK(p)
  BY <1>1 DEF LockOK, K!At
<1>3. \/ \E x \in Wanted(p) : /\ t = x /\ rest = <<>> /\ Locks(p) = Wanted(p) \ {x}
      \/ \E x, y \in Wanted(p) : t = x /\ rest = <<y>> /\ x < y /\ Locks(p) = {}
  <2>1. ASSUME NEW x \in Wanted(p), job[p].todo = <<x>> PROVE t = x /\ rest = <<>>
    BY <2>1, Tuples, Zenon
  <2>2. ASSUME NEW x \in Wanted(p), NEW y \in Wanted(p), job[p].todo = <<x, y>>
        PROVE  t = x /\ rest = <<y>>
    <3>1. Head(<<x, y>>) = x /\ Tail(<<x, y>>) = <<y>> BY Tuples
    <3> QED BY <2>2, <3>1
  <2> HIDE DEF t, rest
  <2> QED BY <1>1, <1>2, <2>1, <2>2 DEF Locking
<1> HIDE DEF t, rest
<1>4. t \in Wanted(p) /\ t \in Tickets /\ rest \in Seq(Tickets)
  <2>1. t \in Wanted(p) BY <1>3
  <2>2. rest = <<>> \/ \E y \in Tickets : rest = <<y>> BY <1>2, <1>3
  <2>3. rest \in Seq(Tickets)
    <3>1. ASSUME NEW y \in Tickets PROVE <<y>> \in Seq(Tickets) BY Seqs
    <3>2. <<>> \in Seq(Tickets) OBVIOUS
    <3> QED BY <2>2, <3>1, <3>2
  <2> QED BY <1>2, <2>1, <2>3
<1>5. j \in LinkJob /\ j.pc = "lock" /\ j.op = job[p].op /\ j.a = job[p].a /\ j.b = job[p].b
      /\ j.todo = rest /\ j.updates = <<>> /\ j.applied = <<>>
  BY <1>1, <1>2, <1>4 DEF LinkJob, K!At
<1> HIDE DEF j
<1>6. job' \in [Procs -> LinkJob] /\ job'[p] = j /\ \A q \in Procs \ {p} : job'[q] = job[q]
  BY <1>1, <1>5 DEF LinkTypes, j
<1>7. LinkTypes' BY <1>1, <1>4, <1>6 DEF LinkTypes
<1>8. /\ Locks(p)' = Locks(p) \cup {t}
      /\ \A q \in Procs \ {p} : Locks(q)' = Locks(q)
  BY <1>1, <1>4 DEF LinkTypes, Locks, Numbered
<1>9. Wanted(p)' = Wanted(p) /\ (Relates(p)' <=> Relates(p)) BY <1>5, <1>6 DEF Wanted, Relates
<1>10. Locking(p)'
  <2>1. ASSUME NEW x \in Wanted(p), t = x, rest = <<>>, Locks(p) = Wanted(p) \ {x}
        PROVE  Locking(p)'
    <3>1. Locks(p)' = Wanted(p)' /\ job'[p].todo = <<>> BY <1>5, <1>6, <1>8, <1>9, <2>1
    <3> QED BY <3>1 DEF Locking
  <2>2. ASSUME NEW x \in Wanted(p), NEW y \in Wanted(p), t = x, rest = <<y>>, x < y, Locks(p) = {}
        PROVE  Locking(p)'
    <3>0. x \in Nat /\ y \in Nat BY <1>2 DEF Numbered
    <3>1. x # y /\ x <= y /\ y <= y BY <3>0, <2>2
    <3>2. Wanted(p) = {x, y} BY <3>1 DEF Wanted
    <3>3. job'[p].todo = <<y>> /\ Locks(p)' = Wanted(p)' \ {y} /\ \A z \in Wanted(p)' : z <= y
      BY <1>5, <1>6, <1>8, <1>9, <2>2, <3>1, <3>2
    <3>4. y \in Wanted(p)' BY <1>9
    <3> QED BY <3>3, <3>4 DEF Locking
  <2> QED BY <1>3, <2>1, <2>2
<1>11. LockOK(p)'
  <2>1. K!At(p, "lock")' /\ RewriteOK(p)' BY <1>2, <1>5, <1>6 DEF K!At, RewriteOK
  <2>2. Wanted(p)' \subseteq Tickets /\ Locks(p)' \subseteq Wanted(p)' /\ job'[p].op # "none"
    BY <1>2, <1>4, <1>5, <1>6, <1>8, <1>9
  <2> QED BY <1>5, <1>6, <1>10, <2>1, <2>2 DEF LockOK, K!At
<1>12. ~spoiled' => /\ ~spoiled /\ DataOK(p)' /\ MutualOK'
  <2>1. DataOK(p)' BY <1>5, <1>6 DEF DataOK, Midway, K!At
  <2>2. ~Midway(p) BY <1>1 DEF Midway, K!At
  <2> QED BY <1>1, <1>6, <2>1, <2>2, MutualKept
<1> QED BY <1>1, <1>6, <1>7, <1>8, <1>11, <1>12, OthersInv

(* A command ends, not half-way, and lets go of its locks. *)
LEMMA EndsInv ==
  ASSUME Numbered, LinkInv, NEW p \in Procs, K!Ends(p), links' = links, spoiled' \in BOOLEAN,
         ~spoiled' => ~spoiled /\ ~Midway(p)
  PROVE  LinkInv'
<1>1. /\ LinkTypes
      /\ job' = [job EXCEPT ![p] = K!NotWorking]
      /\ holder' = [t \in Tickets |-> IF holder[t] = p THEN NoProc ELSE holder[t]]
  BY DEF LinkInv, K!Ends
<1>2. /\ K!NotWorking \in LinkJob /\ K!NotWorking.pc = "idle" /\ K!NotWorking.op = "none"
      /\ K!NotWorking.applied = <<>>
  BY DEF K!NotWorking, LinkJob
<1>3. job' \in [Procs -> LinkJob] /\ job'[p] = K!NotWorking /\ \A q \in Procs \ {p} : job'[q] = job[q]
  BY <1>1, <1>2 DEF LinkTypes
<1>4. /\ holder' \in [Tickets -> Procs \cup {NoProc}] /\ Locks(p)' = {}
      /\ \A q \in Procs \ {p} : Locks(q)' = Locks(q)
  BY <1>1 DEF LinkTypes, Locks, Numbered
<1>5. LinkTypes' BY <1>1, <1>3, <1>4 DEF LinkTypes
<1>6. LockOK(p)' BY <1>2, <1>3, <1>4 DEF LockOK, RewriteOK, Relates, K!At
<1>7. ~spoiled' => /\ ~spoiled /\ DataOK(p)' /\ MutualOK'
  <2>1. DataOK(p)' BY <1>2, <1>3 DEF DataOK, Relates
  <2> QED BY <1>3, <2>1, MutualKept
<1> QED BY <1>3, <1>4, <1>5, <1>6, <1>7, OthersInv

(* All locks taken, or none wanted. *)
LEMMA Locked ==
  ASSUME LinkInv, NEW p \in Procs, K!At(p, "lock"), job[p].todo = <<>>
  PROVE  Relates(p) => Locks(p) = Wanted(p)
<1>1. Locking(p) BY DEF LinkInv, LockOK
<1>2. \A x, y : <<x>> # <<>> /\ <<x, y>> # <<>> OBVIOUS
<1> QED BY <1>1, <1>2 DEF Locking

(* What a command under way wants, and what it would write. *)
LEMMA UnderWay ==
  ASSUME LinkInv, NEW p \in Procs, ~K!At(p, "idle")
  PROVE  /\ job[p] \in LinkJob /\ job[p].op \in {"link", "unlink", "rewrite"}
         /\ job[p].a \in Tickets /\ job[p].b \in Tickets
         /\ links[job[p].a] \in SUBSET Tickets /\ links[job[p].b] \in SUBSET Tickets
BY DEF LinkInv, LinkTypes, LinkJob, LockOK, Wanted

(* A command reads the first of its tickets, or the only one. *)
LEMMA ReadFirstInv ==
  ASSUME Numbered, LinkInv, NEW p \in Procs, K!ReadFirst(p)
  PROVE  LinkInv'
<1> DEFINE a == job[p].a
           b == job[p].b
           op == job[p].op
           up == Preparing(op, links[a], a, b)
           pc == IF a = b THEN "write" ELSE "second"
           j == [job[p] EXCEPT !.pc = pc, !.updates = up]
<1>1. /\ LinkTypes /\ LockOK(p) /\ K!At(p, "lock") /\ job[p].todo = <<>>
      /\ UNCHANGED <<links, holder, spoiled>> /\ RewriteOK(p)
      /\ job[p].applied = <<>> /\ Wanted(p) \subseteq Tickets /\ Locks(p) \subseteq Wanted(p)
  BY DEF LinkInv, K!ReadFirst, LockOK, K!At
<1>2. /\ job[p] \in LinkJob /\ op \in {"link", "unlink", "rewrite"}
      /\ a \in Tickets /\ b \in Tickets /\ links[a] \in SUBSET Tickets
  BY <1>1, UnderWay DEF K!At
<1>3. up \in Seq(Update) /\ (up = <<>> \/ Len(up) = 1)
  BY <1>2, PreparingTypes
<1>4. job' = [job EXCEPT ![p] = j]
  <2>1. K!Prepared(p, a, b) = up BY PreparedIs
  <2> HIDE DEF up
  <2> QED BY <1>1, <1>2, <2>1 DEF K!ReadFirst, LinkTypes
<1> HIDE DEF up
<1>5. /\ j \in LinkJob /\ j.pc = pc /\ j.op = op /\ j.a = a /\ j.b = b
      /\ j.updates = up /\ j.applied = <<>> /\ pc \in {"write", "second"}
  BY <1>1, <1>2, <1>3 DEF LinkJob
<1> HIDE DEF j
<1>6. job' \in [Procs -> LinkJob] /\ job'[p] = j /\ \A q \in Procs \ {p} : job'[q] = job[q]
  BY <1>1, <1>4, <1>5 DEF LinkTypes
<1>7. LinkTypes' /\ \A q \in Procs : Locks(q)' = Locks(q) BY <1>1, <1>6 DEF LinkTypes, Locks
<1>8. Wanted(p)' = Wanted(p) /\ (Relates(p)' <=> Relates(p)) BY <1>5, <1>6 DEF Wanted, Relates
<1>9. LockOK(p)'
  <2>1. Relates(p) => Locks(p)' = Wanted(p)' BY <1>1, <1>7, <1>8, Locked
  <2>2. op = "rewrite" => a = b BY <1>1 DEF RewriteOK
  <2>3. RewriteOK(p)' BY <1>3, <1>5, <1>6, <2>2 DEF RewriteOK, K!At
  <2>4. K!At(p, "second")' => Relates(p)' /\ job'[p].a # job'[p].b
    BY <1>2, <1>5, <1>6, <2>2 DEF K!At, Relates
  <2>5. ~K!At(p, "lock")' /\ ~K!At(p, "idle")' BY <1>5, <1>6 DEF K!At
  <2>6. Wanted(p)' \subseteq Tickets /\ Locks(p)' \subseteq Wanted(p)' /\ job'[p].op # "none"
    BY <1>1, <1>2, <1>5, <1>6, <1>7, <1>8
  <2> QED BY <1>8, <2>1, <2>3, <2>4, <2>5, <2>6 DEF LockOK
<1>10. ~spoiled' => /\ ~spoiled /\ DataOK(p)' /\ MutualOK'
  <2>1. K!Prepared(p, a, b)' = up
    BY <1>1, <1>5, <1>6, PreparedIs, Zenon DEF up
  <2>2. ~Midway(p) /\ ~Midway(p)' BY <1>1, <1>5, <1>6, NotEmpty DEF Midway, K!At
  <2>3. DataOK(p)'
    <3>1. a = b => K!Prepared(p, a, a)' = up BY <1>1, <1>5, <1>6, PreparedIs, Zenon DEF up
    <3>2. job'[p].a = a /\ job'[p].b = b /\ job'[p].updates = up /\ job'[p].applied = <<>>
          /\ job'[p].pc = pc
      BY <1>5, <1>6
    <3> QED BY <2>1, <2>2, <3>1, <3>2 DEF DataOK, K!At
  <2> QED BY <1>1, <1>6, <2>2, <2>3, MutualKept
<1> QED BY <1>1, <1>6, <1>7, <1>9, <1>10, OthersInv

(* A command reads the second. *)
LEMMA ReadSecondInv ==
  ASSUME Numbered, LinkInv, NEW p \in Procs, K!ReadSecond(p)
  PROVE  LinkInv'
<1> DEFINE a == job[p].a
           b == job[p].b
           op == job[p].op
           up == Preparing(op, links[b], b, a)
           j == [job[p] EXCEPT !.pc = "write", !.updates = job[p].updates \o up]
<1>1. /\ LinkTypes /\ LockOK(p) /\ K!At(p, "second")
      /\ UNCHANGED <<links, holder, spoiled>>
  BY DEF LinkInv, K!ReadSecond
<1>2. /\ job[p] \in LinkJob /\ op \in {"link", "unlink", "rewrite"}
      /\ a \in Tickets /\ b \in Tickets /\ links[b] \in SUBSET Tickets
  BY <1>1, UnderWay DEF K!At
<1>3. /\ Relates(p) /\ a # b /\ Locks(p) = Wanted(p) /\ Wanted(p) \subseteq Tickets
      /\ op # "rewrite"
  BY <1>1 DEF LockOK, K!At, Relates
<1>4. up \in Seq(Update) BY <1>2, PreparingTypes
<1>5. job[p].updates \o up \in Seq(Update)
  <2>1. job[p].updates \in Seq(Update) BY <1>2 DEF LinkJob
  <2> QED BY <1>4, <2>1, ConcatProperties
<1>6. job' = [job EXCEPT ![p] = j]
  <2>1. K!Prepared(p, b, a) = up BY PreparedIs
  <2> HIDE DEF up
  <2> QED BY <1>1, <1>2, <2>1 DEF K!ReadSecond, LinkTypes
<1>7. /\ j \in LinkJob /\ j.pc = "write" /\ j.op = op /\ j.a = a /\ j.b = b
      /\ j.updates = job[p].updates \o up /\ j.applied = job[p].applied
  <2> HIDE DEF up
  <2> QED BY <1>2, <1>5 DEF LinkJob
<1> HIDE DEF j, up
<1>8. job' \in [Procs -> LinkJob] /\ job'[p] = j /\ \A q \in Procs \ {p} : job'[q] = job[q]
  BY <1>1, <1>6, <1>7 DEF LinkTypes
<1>9. LinkTypes' /\ \A q \in Procs : Locks(q)' = Locks(q) BY <1>1, <1>8 DEF LinkTypes, Locks
<1>10. Wanted(p)' = Wanted(p) /\ Relates(p)' BY <1>3, <1>7, <1>8 DEF Wanted, Relates
<1>11. LockOK(p)'
  <2>1. K!At(p, "write")' /\ job'[p].op = op BY <1>7, <1>8 DEF K!At
  <2> QED BY <1>3, <1>9, <1>10, <2>1 DEF LockOK, RewriteOK, K!At, Relates
<1>12. ~spoiled' => /\ ~spoiled /\ DataOK(p)' /\ MutualOK'
  <2> SUFFICES ASSUME ~spoiled PROVE DataOK(p)' /\ MutualOK' BY <1>1
  <2>1. job[p].applied = <<>> /\ job[p].updates = K!Prepared(p, a, b)
    BY <1>1, <1>3 DEF LinkInv, DataOK
  <2>2. /\ K!Prepared(p, a, b)' = K!Prepared(p, a, b)
        /\ K!Prepared(p, b, a)' = up
    BY <1>1, <1>7, <1>8, PreparedIs, Zenon DEF up
  <2>3. ~Midway(p) /\ ~Midway(p)'
    <3>1. job[p].applied = <<>> /\ job'[p].applied = <<>> BY <1>7, <1>8, <2>1
    <3> QED BY <3>1, NotEmpty DEF Midway
  <2>4. /\ job'[p].a = a /\ job'[p].b = b /\ job'[p].applied = <<>>
        /\ job'[p].updates = K!Prepared(p, a, b)' \o K!Prepared(p, b, a)' /\ job'[p].pc = "write"
    BY <1>7, <1>8, <2>1, <2>2
  <2>5. DataOK(p)' BY <1>3, <2>3, <2>4 DEF DataOK, K!At
  <2> QED BY <1>1, <1>8, <2>3, <2>5, MutualKept
<1> QED BY <1>1, <1>8, <1>9, <1>11, <1>12, OthersInv

(* A write fails: what was written will be put back. *)
LEMMA WriteFailsInv ==
  ASSUME Numbered, LinkInv, NEW p \in Procs, K!WriteFails(p)
  PROVE  LinkInv'
<1> DEFINE j == [job[p] EXCEPT !.pc = "rollback"]
<1>1. /\ LinkTypes /\ LockOK(p) /\ K!At(p, "write") /\ job[p].updates # <<>>
      /\ UNCHANGED <<links, holder, spoiled>> /\ job' = [job EXCEPT ![p] = j]
      /\ job[p] \in LinkJob
  BY DEF LinkInv, LinkTypes, K!WriteFails
<1>2. /\ j \in LinkJob /\ j.pc = "rollback" /\ j.op = job[p].op /\ j.a = job[p].a
      /\ j.b = job[p].b /\ j.updates = job[p].updates /\ j.applied = job[p].applied
  BY <1>1 DEF LinkJob
<1> HIDE DEF j
<1>3. job' \in [Procs -> LinkJob] /\ job'[p] = j /\ \A q \in Procs \ {p} : job'[q] = job[q]
  BY <1>1, <1>2 DEF LinkTypes
<1>4. LinkTypes' /\ \A q \in Procs : Locks(q)' = Locks(q) BY <1>1, <1>3 DEF LinkTypes, Locks
<1>5. Wanted(p)' = Wanted(p) /\ (Relates(p)' <=> Relates(p)) BY <1>2, <1>3 DEF Wanted, Relates
<1>6. LockOK(p)'
  <2>1. RewriteOK(p)' BY <1>1, <1>2, <1>3 DEF LockOK, RewriteOK, K!At
  <2> QED BY <1>1, <1>2, <1>3, <1>4, <1>5, <2>1 DEF LockOK, K!At
<1>7. ~spoiled' => /\ ~spoiled /\ DataOK(p)' /\ MutualOK'
  <2> SUFFICES ASSUME ~spoiled PROVE DataOK(p)' /\ MutualOK' BY <1>1
  <2>1. Midway(p)' <=> Midway(p) BY <1>1, <1>2, <1>3, <1>5 DEF Midway, K!At
  <2>2. FirstWritten(p)' <=> FirstWritten(p) BY <1>1, <1>2, <1>3 DEF FirstWritten
  <2>3. DataOK(p) BY DEF LinkInv
  <2>4. Relates(p) => job[p].applied = <<>> \/ Midway(p) BY <1>1, <2>3 DEF DataOK
  <2>5. DataOK(p)' BY <1>2, <1>3, <1>5, <2>1, <2>2, <2>3, <2>4 DEF DataOK, K!At
  <2> QED BY <1>1, <1>3, <1>5, <2>1, <2>5, MutualKept
<1> QED BY <1>1, <1>3, <1>4, <1>6, <1>7, OthersInv

(* The first of two writes, or the only one of a ticket linked to itself.  *)
(* The others' tickets are not written, and the two will be mutual.        *)
LEMMA FirstWrite ==
  ASSUME LinkInv, ~spoiled, NEW p \in Procs, K!At(p, "write"), job[p].updates # <<>>, Relates(p),
         job[p].applied = <<>>
  PROVE  \E u \in Update :
           /\ u.ticket = job[p].a /\ u.previous = links[job[p].a] /\ Head(job[p].updates) = u
           /\ \A c \in Tickets \ {job[p].b} : c \in u.updated <=> c \in links[job[p].a]
           /\ job[p].b \in u.updated <=> job[p].op = "link"
           /\ job[p].a = job[p].b => Tail(job[p].updates) = <<>>
           /\ job[p].a # job[p].b =>
                 /\ Tail(job[p].updates) = Preparing(job[p].op, links[job[p].b], job[p].b, job[p].a)
                 /\ Tail(job[p].updates) # <<>>
                 /\ job[p].b \in links[job[p].a] <=> job[p].a \in links[job[p].b]
<1> DEFINE a == job[p].a
           b == job[p].b
           op == job[p].op
           first == Preparing(op, links[a], a, b)
           second == Preparing(op, links[b], b, a)
<1>1. DataOK(p) /\ LockOK(p) /\ MutualOK BY DEF LinkInv
<1>2. /\ op \in {"link", "unlink"} /\ a \in Tickets /\ b \in Tickets
      /\ links[a] \in SUBSET Tickets /\ links[b] \in SUBSET Tickets
  BY UnderWay DEF Relates, K!At
<1>3. Shape(first, op, links[a], a, b) /\ Shape(second, op, links[b], b, a)
  BY <1>2, PreparingShape
<1>4. ~Midway(p) BY NotEmpty DEF Midway
<1> HIDE DEF first, second
<1>5. CASE a = b
  <2>1. job[p].updates = first BY <1>1, <1>5, PreparedIs DEF DataOK, first
  <2>2. PICK u \in Update :
          /\ first = <<u>> /\ u.ticket = a /\ u.previous = links[a]
          /\ \A c \in Tickets \ {b} : c \in u.updated <=> c \in links[a]
          /\ b \in u.updated <=> op = "link"
    BY <1>3, <2>1 DEF Shape
  <2>3. Head(job[p].updates) = u /\ Tail(job[p].updates) = <<>> BY <2>1, <2>2, Tuples
  <2> QED BY <1>5, <2>2, <2>3
<1>6. CASE a # b
  <2>1. job[p].updates = first \o second
    BY <1>1, <1>4, <1>6, PreparedIs DEF DataOK, first, second
  <2>2. b \in links[a] <=> a \in links[b]
    <3>1. ASSUME NEW q \in Procs, Midway(q), Wanted(q) = {a, b} PROVE FALSE
      <4>1. Locks(q) = {a, b} BY <3>1 DEF LinkInv, LockOK, Midway, K!At
      <4>2. Locks(p) = {a, b} BY <1>1 DEF LockOK, K!At, Wanted
      <4>3. q = p BY <1>2, <4>1, <4>2 DEF Locks
      <4> QED BY <1>4, <3>1, <4>3
    <3> QED BY <1>1, <1>2, <3>1 DEF MutualOK, Mutual
  <2>3. first # <<>> /\ second # <<>>
    <3>1. first = <<>> => (b \in links[a] <=> op = "link") BY <1>3 DEF Shape
    <3>2. first # <<>> => (b \in links[a] <=> op # "link") BY <1>3 DEF Shape
    <3>3. second = <<>> => (a \in links[b] <=> op = "link") BY <1>3 DEF Shape
    <3>4. second # <<>> => (a \in links[b] <=> op # "link") BY <1>3 DEF Shape
    <3>5. first = <<>> <=> second = <<>> BY <2>2, <3>1, <3>2, <3>3, <3>4
    <3>6. <<>> \o <<>> = <<>> OBVIOUS
    <3> QED BY <2>1, <3>5, <3>6
  <2>4. PICK u \in Update :
          /\ first = <<u>> /\ u.ticket = a /\ u.previous = links[a]
          /\ \A c \in Tickets \ {b} : c \in u.updated <=> c \in links[a]
          /\ b \in u.updated <=> op = "link"
    BY <1>3, <2>3 DEF Shape
  <2>5. PICK v \in Update : second = <<v>> BY <1>3, <2>3 DEF Shape
  <2>6. job[p].updates = <<u, v>> BY <2>1, <2>4, <2>5, Tuples
  <2>7. Head(job[p].updates) = u /\ Tail(job[p].updates) = second BY <2>5, <2>6, Tuples
  <2> QED BY <1>6, <2>2, <2>3, <2>4, <2>7 DEF second
<1> QED BY <1>5, <1>6

(* The second of two. *)
LEMMA SecondWrite ==
  ASSUME LinkInv, ~spoiled, NEW p \in Procs, K!At(p, "write"), job[p].updates # <<>>, Midway(p)
  PROVE  \E u \in Update :
           /\ u.ticket = job[p].b /\ Head(job[p].updates) = u
           /\ \A c \in Tickets \ {job[p].a} : c \in u.updated <=> c \in links[job[p].b]
           /\ job[p].a \in u.updated <=> job[p].b \in links[job[p].a]
           /\ Tail(job[p].updates) = <<>>
<1> DEFINE a == job[p].a
           b == job[p].b
           op == job[p].op
           second == Preparing(op, links[b], b, a)
<1>1. DataOK(p) /\ LockOK(p) /\ Relates(p) /\ a # b BY DEF LinkInv, Midway
<1>2. /\ op \in {"link", "unlink"} /\ a \in Tickets /\ b \in Tickets
      /\ links[b] \in SUBSET Tickets
  BY <1>1, UnderWay DEF Relates, K!At
<1>3. Shape(second, op, links[b], b, a) BY <1>2, PreparingShape
<1>4. FirstWritten(p) BY <1>1 DEF DataOK
<1>5. b \in links[a] <=> op = "link" BY <1>4, Zenon DEF FirstWritten
<1>6. job[p].applied # <<>> BY NotEmpty DEF Midway
<1>7. job[p].updates = second
  BY <1>1, <1>6, PreparedIs DEF DataOK
<1> HIDE DEF second
<1>8. PICK u \in Update :
        /\ second = <<u>> /\ u.ticket = b
        /\ \A c \in Tickets \ {a} : c \in u.updated <=> c \in links[b]
        /\ a \in u.updated <=> op = "link"
  BY <1>3, <1>7 DEF Shape
<1>9. Head(job[p].updates) = u /\ Tail(job[p].updates) = <<>> BY <1>7, <1>8, Tuples
<1> QED BY <1>5, <1>8, <1>9

(* The next update is written: of a ticket p has locked, or as it was.     *)
LEMMA WriteInv ==
  ASSUME Numbered, LinkInv, NEW p \in Procs, K!Write(p)
  PROVE  LinkInv'
<1> DEFINE ups == job[p].updates
           u == Head(ups)
           j == [job[p] EXCEPT !.updates = Tail(ups), !.applied = Append(job[p].applied, u)]
<1>1. /\ LinkTypes /\ LockOK(p) /\ K!At(p, "write") /\ ups # <<>>
      /\ UNCHANGED holder /\ links' = [links EXCEPT ![u.ticket] = u.updated]
      /\ spoiled' = (spoiled \/ (job[p].op = "rewrite" /\ links[u.ticket] # u.updated))
  BY DEF LinkInv, K!Write
<1>2. job' = [job EXCEPT ![p] = j] BY <1>1 DEF K!Write, LinkTypes
<1>3. /\ job[p] \in LinkJob /\ job[p].op \in {"link", "unlink", "rewrite"}
  BY <1>1, UnderWay DEF K!At
<1> PICK a \in Tickets, b \in Tickets : a = job[p].a /\ b = job[p].b
  BY <1>1, UnderWay DEF K!At
<1>4. ups \in Seq(Update) /\ job[p].applied \in Seq(Update) BY <1>3 DEF LinkJob
<1>5. /\ u \in Update /\ Tail(ups) \in Seq(Update) /\ Append(job[p].applied, u) \in Seq(Update)
      /\ Len(ups) = 1 => Tail(ups) = <<>>
  <2>1. u \in Update /\ Tail(ups) \in Seq(Update) BY <1>1, <1>4, HeadTailProperties
  <2>2. ASSUME Len(ups) = 1 PROVE Tail(ups) = <<>>
    <3>1. ups = <<ups[1]>> BY <1>4, <2>2, Single
    <3>2. Tail(<<ups[1]>>) = <<>> BY Tuples
    <3> HIDE DEF ups
    <3> QED BY <3>1, <3>2
  <2> QED BY <1>4, <2>1, <2>2, AppendProperties
<1> HIDE DEF u, ups
<1>6. /\ j \in LinkJob /\ j.pc = "write" /\ j.op = job[p].op /\ j.a = a /\ j.b = b
      /\ j.updates = Tail(ups) /\ j.applied = Append(job[p].applied, u)
  BY <1>1, <1>3, <1>5 DEF LinkJob, K!At
<1> HIDE DEF j
<1>7. job' \in [Procs -> LinkJob] /\ job'[p] = j /\ \A q \in Procs \ {p} : job'[q] = job[q]
  BY <1>1, <1>2, <1>6 DEF LinkTypes
<1>8. /\ links' \in [Tickets -> SUBSET Tickets] /\ links'[u.ticket] = u.updated
      /\ \A t \in Tickets \ {u.ticket} : links'[t] = links[t]
  <2>1. u.ticket \in Tickets /\ u.updated \in SUBSET Tickets BY <1>5 DEF Update
  <2> QED BY <1>1, <2>1 DEF LinkTypes
<1>9. LinkTypes' /\ \A q \in Procs : Locks(q)' = Locks(q)
  BY <1>1, <1>7, <1>8 DEF LinkTypes, Locks
<1>10. Wanted(p)' = Wanted(p) /\ (Relates(p)' <=> Relates(p)) BY <1>6, <1>7 DEF Wanted, Relates
<1>11. LockOK(p)'
  <2>1. job[p].op = "rewrite" => a = b /\ Tail(ups) = <<>>
    BY <1>1, <1>5 DEF LockOK, RewriteOK, K!At, ups
  <2>2. RewriteOK(p)' BY <1>6, <1>7, <2>1 DEF RewriteOK, K!At
  <2>3. K!At(p, "write")' /\ job'[p].op = job[p].op BY <1>6, <1>7 DEF K!At
  <2>4. /\ Wanted(p) \subseteq Tickets /\ Locks(p) \subseteq Wanted(p) /\ job[p].op # "none"
        /\ Relates(p) => Locks(p) = Wanted(p)
    BY <1>1 DEF LockOK, K!At
  <2> QED BY <1>9, <1>10, <2>2, <2>3, <2>4 DEF LockOK, K!At
<1>12. ASSUME ~spoiled'
       PROVE  /\ ~spoiled /\ DataOK(p)' /\ MutualOK'
              /\ \A q \in Procs \ {p}, t \in Tickets : holder[t] = q => links'[t] = links[t]
  <2>1. ~spoiled BY <1>1, <1>12
  <2>2. CASE ~Relates(p)
    <3>1. links' = links
      <4>1. job[p].op = "rewrite" BY <1>3, <2>2 DEF Relates
      <4>2. u.updated = links[u.ticket] BY <1>1, <1>12, <4>1
      <4> QED BY <1>1, <4>2 DEF LinkTypes
    <3>2. ~Midway(p) BY <2>2 DEF Midway
    <3>3. DataOK(p)' BY <1>10, <2>2 DEF DataOK
    <3> QED BY <1>7, <2>1, <3>1, <3>2, <3>3, MutualKept
  <2>3. CASE Relates(p) /\ job[p].applied = <<>>
    <3>1. /\ u.ticket = a /\ u.previous = links[a]
          /\ \A c \in Tickets \ {b} : c \in u.updated <=> c \in links[a]
          /\ b \in u.updated <=> job[p].op = "link"
          /\ a = b => Tail(ups) = <<>>
          /\ a # b => /\ Tail(ups) = Preparing(job[p].op, links[b], b, a)
                      /\ Tail(ups) # <<>>
                      /\ b \in links[a] <=> a \in links[b]
      BY <1>1, <2>1, <2>3, FirstWrite DEF u, ups
    <3>2. Locks(p) = Wanted(p) BY <1>1, <2>3 DEF LockOK, K!At
    <3>3. holder[a] = p BY <3>2 DEF Locks, Wanted
    <3>4. \A c \in Tickets \ {b} : c \in links'[a] <=> c \in links[a] BY <1>8, <3>1
    <3>5. job'[p].applied = <<u>>
      BY <1>6, <1>7, <2>3, Tuples
    <3>6. job'[p].a = a /\ job'[p].b = b /\ job'[p].op = job[p].op /\ job'[p].updates = Tail(ups)
          /\ job'[p].pc = "write"
      BY <1>6, <1>7
    <3>7. ASSUME a = b PROVE DataOK(p)' /\ Mutual(a, b)'
      BY <3>1, <3>6, <3>7 DEF DataOK, Midway, K!At, Mutual
    <3>8. ASSUME a # b PROVE DataOK(p)' /\ Midway(p)'
      <4>1. job'[p].applied[1] = u /\ Len(job'[p].applied) = 1 /\ job'[p].applied # <<>>
        BY <3>5, Tuples
      <4>2. Midway(p)' BY <1>10, <2>3, <3>1, <3>6, <3>8, <4>1 DEF Midway, K!At
      <4>3. links'[b] = links[b] /\ links'[a] = u.updated BY <1>3, <1>8, <3>1, <3>8
      <4>4. FirstWritten(p)' BY <3>1, <3>6, <3>8, <4>1, <4>3 DEF FirstWritten
      <4>5. K!Prepared(p, b, a)' = Tail(ups) BY <3>1, <3>6, <3>8, <4>3, PreparedIs, Zenon
      <4> QED BY <3>6, <3>8, <4>1, <4>2, <4>4, <4>5 DEF DataOK, K!At
    <3>9. MutualOK'
      <4>1. Mutual(a, b)' \/ (Midway(p)' /\ Wanted(p)' = {a, b}) BY <1>10, <3>7, <3>8 DEF Wanted
      <4>2. \A t \in Tickets \ {a} : links'[t] = links[t] BY <1>8, <3>1
      <4>3. Wanted(p) = {a, b} BY DEF Wanted
      <4> QED BY <1>3, <1>7, <2>1, <3>4, <4>1, <4>2, <4>3, MutualMoved
    <3> QED BY <1>8, <2>1, <3>1, <3>3, <3>7, <3>8, <3>9
  <2>4. CASE Relates(p) /\ Midway(p)
    <3>1. /\ u.ticket = b
          /\ \A c \in Tickets \ {a} : c \in u.updated <=> c \in links[b]
          /\ a \in u.updated <=> b \in links[a]
          /\ Tail(ups) = <<>>
      BY <1>1, <2>1, <2>4, SecondWrite DEF u, ups
    <3>2. Locks(p) = Wanted(p) /\ a # b BY <1>1, <2>4 DEF LockOK, K!At, Midway
    <3>3. holder[b] = p BY <3>2 DEF Locks, Wanted
    <3>4. \A c \in Tickets \ {a} : c \in links'[b] <=> c \in links[b] BY <1>8, <3>1
    <3>5. job'[p].updates = <<>> /\ job'[p].pc = "write" BY <1>6, <1>7, <3>1
    <3>6. DataOK(p)' BY <3>5 DEF DataOK, Midway, K!At
    <3>7. Mutual(b, a)'
      <4>1. links'[a] = links[a] /\ links'[b] = u.updated BY <1>3, <1>8, <3>1, <3>2
      <4> QED BY <3>1, <4>1 DEF Mutual
    <3>8. MutualOK'
      <4>1. Wanted(p) = {b, a} BY DEF Wanted
      <4>2. \A t \in Tickets \ {b} : links'[t] = links[t] BY <1>8, <3>1
      <4> QED BY <1>3, <1>7, <2>1, <3>4, <3>7, <4>1, <4>2, MutualMoved
    <3> QED BY <1>8, <2>1, <3>1, <3>3, <3>6, <3>8
  <2>5. Relates(p) => job[p].applied = <<>> \/ Midway(p)
    BY <1>1, <2>1 DEF LinkInv, DataOK, ups
  <2> QED BY <2>2, <2>3, <2>4, <2>5
<1> QED BY <1>7, <1>9, <1>11, <1>12, OthersInv

(* What was written first is put back. *)
LEMMA RollbackInv ==
  ASSUME Numbered, LinkInv, NEW p \in Procs, K!Rollback(p)
  PROVE  LinkInv'
<1> DEFINE s == job[p].applied
           u == K!Last(s)
           j == [job[p] EXCEPT !.applied = K!Front(s)]
<1>1. /\ LinkTypes /\ LockOK(p) /\ K!At(p, "rollback") /\ s # <<>>
      /\ UNCHANGED <<holder, spoiled>> /\ links' = [links EXCEPT ![u.ticket] = u.previous]
  BY DEF LinkInv, K!Rollback
<1>2. job' = [job EXCEPT ![p] = j] BY <1>1 DEF K!Rollback, LinkTypes
<1>3. /\ job[p] \in LinkJob /\ job[p].op \in {"link", "unlink", "rewrite"}
  BY <1>1, UnderWay DEF K!At
<1> PICK a \in Tickets, b \in Tickets : a = job[p].a /\ b = job[p].b
  BY <1>1, UnderWay DEF K!At
<1>4. s \in Seq(Update) BY <1>3 DEF LinkJob
<1>5. u \in Update /\ K!Front(s) \in Seq(Update)
  <2>1. Len(s) \in Nat /\ Len(s) # 0 BY <1>1, <1>4, EmptySeq
  <2>2. Len(s) \in 1 .. Len(s) /\ (Len(s) - 1) \in Nat BY <2>1
  <2>3. u \in Update BY <1>4, <2>2, ElementOfSeq DEF K!Last
  <2>4. K!Front(s) = SubSeq(s, 1, Len(s) - 1) BY DEF K!Front
  <2>5. K!Front(s) = [i \in 1 .. Len(s) - 1 |-> s[i]]
    BY <1>4, <2>1, <2>4
  <2>6. \A i \in 1 .. Len(s) - 1 : s[i] \in Update BY <1>4, <2>1
  <2>7. [i \in 1 .. Len(s) - 1 |-> s[i]] \in Seq(Update) BY <2>2, <2>6
  <2> QED BY <2>3, <2>5, <2>7
<1> HIDE DEF u, s
<1>6. /\ j \in LinkJob /\ j.pc = "rollback" /\ j.op = job[p].op /\ j.a = a /\ j.b = b
      /\ j.updates = job[p].updates /\ j.applied = K!Front(s)
  BY <1>1, <1>3, <1>5 DEF LinkJob, K!At
<1> HIDE DEF j
<1>7. job' \in [Procs -> LinkJob] /\ job'[p] = j /\ \A q \in Procs \ {p} : job'[q] = job[q]
  BY <1>1, <1>2, <1>6 DEF LinkTypes
<1>8. /\ links' \in [Tickets -> SUBSET Tickets] /\ links'[u.ticket] = u.previous
      /\ \A t \in Tickets \ {u.ticket} : links'[t] = links[t]
  <2>1. u.ticket \in Tickets /\ u.previous \in SUBSET Tickets BY <1>5 DEF Update
  <2> QED BY <1>1, <2>1 DEF LinkTypes
<1>9. LinkTypes' /\ \A q \in Procs : Locks(q)' = Locks(q)
  BY <1>1, <1>7, <1>8 DEF LinkTypes, Locks
<1>10. Wanted(p)' = Wanted(p) /\ (Relates(p)' <=> Relates(p)) BY <1>6, <1>7 DEF Wanted, Relates
<1>11. Relates(p)
  BY <1>1, <1>3 DEF LockOK, RewriteOK, Relates, s
<1>12. Locks(p) = Wanted(p) BY <1>1, <1>11 DEF LockOK, K!At
<1>13. LockOK(p)'
  <2>1. K!At(p, "rollback")' /\ job'[p].op = job[p].op BY <1>6, <1>7 DEF K!At
  <2>2. RewriteOK(p)' BY <1>10, <1>11, <2>1 DEF RewriteOK, Relates
  <2>3. Wanted(p) \subseteq Tickets /\ job[p].op # "none" BY <1>1 DEF LockOK, K!At
  <2> QED BY <1>9, <1>10, <1>12, <2>1, <2>2, <2>3 DEF LockOK, K!At
<1>14. ASSUME ~spoiled'
       PROVE  /\ ~spoiled /\ DataOK(p)' /\ MutualOK'
              /\ \A q \in Procs \ {p}, t \in Tickets : holder[t] = q => links'[t] = links[t]
  <2>1. ~spoiled /\ Midway(p) BY <1>1, <1>11, <1>14 DEF LinkInv, DataOK, s
  <2>2. FirstWritten(p) BY <1>11, <2>1 DEF LinkInv, DataOK
  <2>3. s = <<u>> /\ K!Front(s) = <<>> /\ s[1] = u
    <3>1. Len(s) = 1 BY <2>1 DEF Midway, s
    <3>2. s = <<s[1]>> BY <1>4, <3>1, Single
    <3>3. u = s[1] BY <3>1 DEF K!Last, u
    <3>4. K!Front(s) = SubSeq(s, 1, 0) BY <3>1 DEF K!Front
    <3>5. SubSeq(s, 1, 0) = <<>> BY <1>4
    <3> QED BY <3>2, <3>3, <3>4, <3>5
  <2>4. /\ u.ticket = a
        /\ \A c \in Tickets \ {b} : c \in u.previous <=> c \in links[a]
        /\ b \in u.previous <=> a \in links[b]
    BY <2>2, <2>3 DEF FirstWritten, s
  <2>5. a # b BY <2>1 DEF Midway
  <2>6. links'[a] = u.previous /\ links'[b] = links[b] BY <1>3, <1>8, <2>4, <2>5
  <2>7. Mutual(a, b)' BY <2>4, <2>6 DEF Mutual
  <2>8. MutualOK'
    <3>1. \A t \in Tickets \ {a} : links'[t] = links[t] BY <1>8, <2>4
    <3>2. \A c \in Tickets \ {b} : c \in links'[a] <=> c \in links[a] BY <2>4, <2>6
    <3>3. Wanted(p) = {a, b} BY DEF Wanted
    <3> QED BY <1>3, <1>7, <2>1, <2>7, <3>1, <3>2, <3>3, MutualMoved
  <2>9. DataOK(p)'
    <3>1. job'[p].applied = <<>> /\ job'[p].pc = "rollback" BY <1>6, <1>7, <2>3
    <3>2. ~Midway(p)' BY <3>1, NotEmpty DEF Midway
    <3> QED BY <3>1, <3>2 DEF DataOK, K!At
  <2>10. holder[a] = p BY <1>12 DEF Locks, Wanted
  <2> QED BY <1>8, <2>1, <2>4, <2>8, <2>9, <2>10
<1> QED BY <1>7, <1>9, <1>13, <1>14, OthersInv

(* A command ends: by itself, or because a read, a write or a rollback     *)
(* fails, or its process dies.                                             *)
LEMMA EndInv ==
  ASSUME Numbered, LinkInv, NEW p \in Procs,
         K!ReadFails(p) \/ K!Return(p) \/ K!RollbackFails(p) \/ K!Crash(p)
  PROVE  LinkInv'
<1>1. K!Ends(p) /\ links' = links /\ spoiled' \in BOOLEAN
  BY DEF LinkInv, LinkTypes, K!ReadFails, K!Return, K!RollbackFails, K!Crash
<1>2. ASSUME ~spoiled' PROVE ~spoiled /\ ~Midway(p)
  <2>1. CASE K!ReadFails(p) BY <1>2, <2>1 DEF K!ReadFails, Midway, K!At
  <2>2. CASE K!Return(p) BY <1>2, <2>2, NotEmpty DEF K!Return, Midway, K!At
  <2>3. CASE K!RollbackFails(p) BY <1>2, <2>3 DEF K!RollbackFails
  <2>4. CASE K!Crash(p)
    <3>1. ~spoiled /\ job[p].applied = <<>> BY <1>2, <2>4, Zenon DEF K!Crash
    <3> QED BY <3>1, NotEmpty DEF Midway
  <2> QED BY <2>1, <2>2, <2>3, <2>4
<1> QED BY <1>1, <1>2, EndsInv

(* Nothing is linked at first, and all steps keep the invariant.           *)
LEMMA LinkInit ==
  ASSUME Numbered, K!Init
  PROVE  LinkInv
<1>1. <<>> \in Seq(Tickets) /\ <<>> \in Seq(Update) OBVIOUS
<1>2. K!NotWorking \in LinkJob /\ K!NotWorking.pc = "idle" /\ K!NotWorking.op = "none"
  BY <1>1 DEF K!NotWorking, LinkJob
<1>3. \A p \in Procs : job[p] = K!NotWorking BY DEF K!Init
<1>4. LinkTypes BY <1>2 DEF K!Init, LinkTypes
<1>5. \A p \in Procs : Locks(p) = {} BY DEF K!Init, Locks, Numbered
<1>6. \A p \in Procs : LockOK(p) BY <1>2, <1>3, <1>5 DEF LockOK, RewriteOK, Relates, K!At
<1>7. \A p \in Procs : DataOK(p) BY <1>2, <1>3 DEF DataOK, Relates
<1>8. MutualOK BY DEF MutualOK, Mutual, K!Init
<1> QED BY <1>4, <1>6, <1>7, <1>8 DEF LinkInv

(* No step on the links of tickets disturbs LinkInv.                       *)
LEMMA LinkNext ==
  ASSUME Numbered, LinkInv, [K!Next]_(K!linkVars)
  PROVE  LinkInv'
<1>1. CASE UNCHANGED K!linkVars
  <2>1. UNCHANGED <<links, holder, job, spoiled>> BY <1>1 DEF K!linkVars
  <2>2. \A p, t, o : K!Prepared(p, t, o)' = K!Prepared(p, t, o) BY <2>1, PreparedIs, Zenon
  <2>3. LinkTypes' BY <2>1 DEF LinkInv, LinkTypes
  <2>4. ASSUME NEW p \in Procs PROVE LockOK(p)'
    <3>1. LockOK(p) BY DEF LinkInv
    <3> QED BY <2>1, <3>1 DEF LockOK, Locking, Locks, Wanted, Relates, RewriteOK, K!At
  <2>5. \A p \in Procs : Wanted(p)' = Wanted(p) /\ (Midway(p)' <=> Midway(p))
    BY <2>1 DEF Wanted, Midway, Relates, K!At
  <2>6. ASSUME ~spoiled', NEW p \in Procs PROVE DataOK(p)'
    <3>1. DataOK(p) BY <2>1, <2>6 DEF LinkInv
    <3>2. FirstWritten(p)' <=> FirstWritten(p) BY <2>1 DEF FirstWritten
    <3> QED BY <2>1, <2>2, <2>5, <3>1, <3>2 DEF DataOK, Relates, K!At
  <2>7. ASSUME ~spoiled' PROVE MutualOK'
    <3>1. MutualOK BY <2>1, <2>7 DEF LinkInv
    <3> QED BY <2>1, <2>5, <3>1 DEF MutualOK, Mutual
  <2> QED BY <2>3, <2>4, <2>6, <2>7 DEF LinkInv
<1>2. ASSUME NEW p \in Procs,
             \/ \E op \in {"link", "unlink"}, a, b \in Tickets : K!Start(p, op, a, b)
             \/ \E a \in Tickets : K!StartRewrite(p, a)
             \/ K!Lock(p) \/ K!ReadFirst(p) \/ K!ReadSecond(p) \/ K!ReadFails(p)
             \/ K!Write(p) \/ K!WriteFails(p) \/ K!Rollback(p) \/ K!RollbackFails(p)
             \/ K!Return(p) \/ K!Crash(p)
      PROVE  LinkInv'
  BY <1>2, StartInv, LockInv, ReadFirstInv, ReadSecondInv, WriteInv, WriteFailsInv, RollbackInv,
     EndInv
<1> QED BY <1>1, <1>2 DEF K!Next

(* The part that LinksAreMutual states of two tickets nobody works on.     *)
LEMMA LinksAre ==
  ASSUME Numbered, LinkInv
  PROVE  K!LinksAreMutual
<1> SUFFICES ASSUME ~spoiled, NEW s \in Tickets, NEW t \in Tickets,
                    holder[s] = NoProc, holder[t] = NoProc, ~Mutual(s, t)
             PROVE  FALSE
  BY DEF K!LinksAreMutual, Mutual
<1>1. PICK p \in Procs : Midway(p) /\ Wanted(p) = {s, t} BY DEF LinkInv, MutualOK
<1>2. Locks(p) = Wanted(p) BY <1>1 DEF LinkInv, LockOK, Midway, K!At
<1>3. holder[s] = p BY <1>1, <1>2 DEF Locks
<1> QED BY <1>3 DEF Numbered

(* Of the tickets that are waited for take the greatest: whoever has it    *)
(* would wait for a greater one.                                           *)
LEMMA NoWaitingAllRound ==
  ASSUME Numbered, LinkInv
  PROVE  K!NoCircularWait
<1> DEFINE Waits(p) == K!At(p, "lock") /\ job[p].todo # <<>>
           wish(p) == Head(job[p].todo)
           waited == {wish(p) : p \in {p \in Procs : Waits(p)}}
<1> SUFFICES ASSUME NEW p0 \in Procs, ~K!At(p0, "idle"),
                    \A p \in Procs : ~K!At(p, "idle") => Waits(p) /\ holder[wish(p)] # NoProc
             PROVE  FALSE
  BY DEF K!NoCircularWait
<1>1. ASSUME NEW p \in Procs, Waits(p)
      PROVE  wish(p) \in Tickets /\ \A t \in Locks(p) : t < wish(p)
  <2>1. Locking(p) /\ Wanted(p) \subseteq Tickets
    BY <1>1 DEF LinkInv, LockOK, K!At
  <2>2. ASSUME NEW x \in Wanted(p), job[p].todo = <<x>>, Locks(p) = Wanted(p) \ {x},
               \A y \in Wanted(p) : y <= x
        PROVE  wish(p) \in Tickets /\ \A t \in Locks(p) : t < wish(p)
    <3>1. wish(p) = x BY <2>2, Tuples
    <3>2. x \in Nat /\ \A t \in Locks(p) : t \in Nat /\ t <= x /\ t # x
      BY <2>1, <2>2 DEF Numbered
    <3>3. \A t \in Nat : t <= x /\ t # x => t < x BY <3>2
    <3> QED BY <2>1, <3>1, <3>2, <3>3
  <2>3. ASSUME NEW x \in Wanted(p), NEW y \in Wanted(p), job[p].todo = <<x, y>>, Locks(p) = {}
        PROVE  wish(p) \in Tickets /\ \A t \in Locks(p) : t < wish(p)
    <3>1. wish(p) = x BY <2>3, Tuples
    <3> QED BY <2>1, <2>3, <3>1
  <2> QED BY <1>1, <2>1, <2>2, <2>3 DEF Locking
<1>2. Waits(p0) BY DEF Waits
<1>3. waited \subseteq Tickets /\ waited # {} BY <1>1, <1>2
<1>4. PICK m \in waited : \A k \in waited : k <= m
  <2>1. PICK n \in Nat : Tickets \subseteq 0 .. n BY DEF Numbered
  <2>2. waited \in SUBSET (0 .. n) BY <1>3, <2>1
  <2> HIDE DEF waited
  <2> QED BY <1>3, <2>2, Greatest
<1>5. PICK p \in Procs : Waits(p) /\ m = wish(p) BY <1>4
<1>6. m \in Tickets /\ holder[m] # NoProc BY <1>1, <1>5 DEF K!At
<1>7. holder[m] \in Procs BY <1>6 DEF LinkInv, LinkTypes
<1> DEFINE q == holder[m]
<1>8. ~K!At(q, "idle")
  <2>1. m \in Locks(q) BY <1>6 DEF Locks
  <2> QED BY <1>7, <2>1 DEF LinkInv, LockOK
<1>9. Waits(q) /\ m < wish(q)
  <2>1. m \in Locks(q) BY <1>6 DEF Locks
  <2> HIDE DEF wish, q
  <2>2. Waits(q) BY <1>7, <1>8 DEF q
  <2> QED BY <1>1, <1>7, <2>1, <2>2 DEF q
<1>10. wish(q) \in waited BY <1>7, <1>9
<1>11. wish(q) \in Nat /\ m \in Nat BY <1>1, <1>6, <1>7, <1>9 DEF Numbered
<1> HIDE DEF wish
<1>12. wish(q) <= m /\ m < wish(q) BY <1>4, <1>9, <1>10
<1> QED BY <1>11, <1>12

(* Of two tickets nobody has locked each names the other or neither does,  *)
(* also after an operation that failed half-way and put the first back     *)
(* (ticket.Link, ticket.Unlink), and of the processes that wait for the    *)
(* locks of linked tickets one can go on (withLocks, in the order of       *)
(* uniqueSortedPaths).                                                     *)
THEOREM LinksGoBothWays ==
  ASSUME Numbered
  PROVE  Spec => []LinksAreMutual
<1> DEFINE I == part = "links" => LinkInv
<1>1. Init => I BY PartInit, LinkInit
<1>2. I /\ [Next]_<<NotPlan, planVars>> => I' BY PartStep, LinkNext
<1>3. I => LinksAreMutual BY LinksAre, NoWaitingAllRound DEF LinksAreMutual
<1> QED BY <1>1, <1>2, <1>3, PTL DEF Spec

-----------------------------------------------------------------------------
(* Types of the links, for the theorem about all parts.                    *)

(* Operations and failures are bounded.                                    *)
LinkBounds == MaxCommands \in Nat /\ MaxLinkFaults \in Nat

LinkCounts == commands \in 0 .. MaxCommands /\ faults \in 0 .. MaxLinkFaults

(* Operations start and fail within their bounds.                          *)
LEMMA LinkCounted ==
  ASSUME LinkBounds
  PROVE  /\ K!Init => LinkCounts
         /\ LinkCounts /\ [K!Next]_(K!linkVars) => LinkCounts'
<1>1. K!Init => LinkCounts BY DEF K!Init, LinkCounts, LinkBounds
<1>2. ASSUME LinkCounts, [K!Next]_(K!linkVars) PROVE LinkCounts'
  <2>1. ASSUME commands' = commands, faults' = faults \/ K!Fault PROVE LinkCounts'
    BY <1>2, <2>1 DEF LinkCounts, LinkBounds, K!Fault
  <2>2. ASSUME commands < MaxCommands, commands' = commands + 1, faults' = faults PROVE LinkCounts'
    BY <1>2, <2>2 DEF LinkCounts, LinkBounds
  <2>3. CASE UNCHANGED K!linkVars BY <2>1, <2>3 DEF K!linkVars
  <2>4. ASSUME NEW p \in Procs, NEW op \in {"link", "unlink"}, NEW a \in Tickets, NEW b \in Tickets,
               K!Start(p, op, a, b)
        PROVE  LinkCounts'
    BY <2>2, <2>4 DEF K!Start, K!Begin
  <2>5. ASSUME NEW p \in Procs, NEW a \in Tickets, K!StartRewrite(p, a) PROVE LinkCounts'
    BY <2>2, <2>5 DEF K!StartRewrite, K!Begin
  <2>6. ASSUME NEW p \in Procs,
               K!Lock(p) \/ K!ReadFirst(p) \/ K!ReadSecond(p) \/ K!Write(p) \/ K!Rollback(p) \/ K!Return(p)
        PROVE  LinkCounts'
    BY <2>1, <2>6 DEF K!Lock, K!ReadFirst, K!ReadSecond, K!Write, K!Rollback, K!Return
  <2>7. ASSUME NEW p \in Procs,
               K!ReadFails(p) \/ K!WriteFails(p) \/ K!RollbackFails(p) \/ K!Crash(p)
        PROVE  LinkCounts'
    BY <2>1, <2>7 DEF K!ReadFails, K!WriteFails, K!RollbackFails, K!Crash
  <2> QED BY <1>2, <2>3, <2>4, <2>5, <2>6, <2>7 DEF K!Next
<1> QED BY <1>1, <1>2

(* With LinkInv that is all the types say.                                 *)
LEMMA LinkTyped ==
  ASSUME LinkInv, LinkCounts
  PROVE  K!TypeOK
<1>1. ASSUME NEW p \in Procs
      PROVE  /\ K!Range(job[p].todo) \subseteq Tickets
             /\ \A u \in K!Range(job[p].updates \o job[p].applied) : u.ticket \in Tickets
  <2> DEFINE v == job[p].updates \o job[p].applied
  <2>1. /\ job[p].todo \in Seq(Tickets)
        /\ job[p].updates \in Seq(Update) /\ job[p].applied \in Seq(Update)
    BY DEF LinkInv, LinkTypes, LinkJob
  <2>2. v \in Seq(Update) BY <2>1, ConcatProperties
  <2> HIDE DEF v
  <2>3. \A W : \A s \in Seq(W) : K!Range(s) \subseteq W BY DEF K!Range
  <2>4. K!Range(job[p].todo) \subseteq Tickets /\ K!Range(v) \subseteq Update BY <2>1, <2>2, <2>3
  <2>5. \A u \in Update : u.ticket \in Tickets BY DEF Update
  <2> QED BY <2>4, <2>5 DEF v
<1>2. /\ links \in [Tickets -> SUBSET Tickets]
      /\ holder \in [Tickets -> Procs \cup {NoProc}]
      /\ spoiled \in BOOLEAN
  BY DEF LinkInv, LinkTypes
<1> QED BY <1>1, <1>2 DEF LinkCounts, K!TypeOK
=============================================================================
