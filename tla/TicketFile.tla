----------------------------- MODULE TicketFile -----------------------------
(***************************************************************************)
(* The contents of one ticket file (.tickets/<id>.md) and the pure         *)
(* functions internal/ticket applies to them: the claim rules of claim.go, *)
(* the frontmatter rewrite of format.go and the readiness filters of       *)
(* deps.go and engine.GetPendingTasks.  Only the frontmatter fields the    *)
(* properties tell apart are kept: extended_status, the claim and deps.    *)
(***************************************************************************)
EXTENDS Agents, FiniteSets

CONSTANT
  NoFile    \* the ticket file does not exist

-----------------------------------------------------------------------------
(* Statuses.                                                               *)

Status == {"pending", "claimed", "implementing", "verifying", "under_review",
           "repair_pending", "blocked", "done", "failed"}

(* isActiveStatus: the statuses in which UpdateFrontmatter keeps a claim. *)
Active == {"claimed", "implementing", "verifying", "under_review"}

(* The statuses ClaimTask and ReadyFilter accept for an unclaimed task. *)
Claimable == {"pending", "repair_pending"}

(* extendedToTicketStatus: the three statuses of the tk tool. *)
TkStatus(s) == IF s \in {"done", "failed"} THEN "closed"
               ELSE IF s \in Active THEN "in_progress" ELSE "open"

-----------------------------------------------------------------------------
(* File contents.  state.Task carries no claim fields.                     *)

Task == [status : Status, deps : SUBSET Tasks]

Ticket == [status : Status, deps : SUBSET Tasks,
           owner : Owners \cup {NoOwner}, expires : Nat]

ASSUME NoFileAssumption == NoFile \notin Ticket

AsTask(tk) == [status |-> tk.status, deps |-> tk.deps]

(* MarshalTicket of a task, or a frontmatter rewrite that drops the claim. *)
Unclaimed(task) == [status |-> task.status, deps |-> task.deps,
                    owner |-> NoOwner, expires |-> 0]

UpdateKeepingClaim(old, task) ==
  [status |-> task.status, deps |-> task.deps,
   owner |-> old.owner, expires |-> old.expires]

(* UpdateFrontmatter: the task's fields replace the file's; the claim in   *)
(* the file survives only if the new status is an active one.              *)
UpdateFrontmatter(old, task) ==
  IF old.owner # NoOwner /\ task.status \in Active
  THEN [status |-> task.status, deps |-> task.deps,
        owner |-> old.owner, expires |-> old.expires]
  ELSE Unclaimed(task)

WithTkStatus(tk, s) ==
  UpdateFrontmatter(tk, [AsTask(tk) EXCEPT !.status = TkStatus(s)])

WithStatus(tk, s) == UpdateFrontmatter(tk, [AsTask(tk) EXCEPT !.status = s])

WithDeps(tk, ds) == UpdateFrontmatter(tk, [AsTask(tk) EXCEPT !.deps = ds])

-----------------------------------------------------------------------------
(* Claims.                                                                 *)

(* formatTime then parseTime: RFC3339 without fractional seconds. *)
Trunc(t) == t - (t % Grain)

(* validateClaimEligibility *)
ClaimEligible(tk, o, now) ==
  \/ tk.owner = o
  \/ tk.owner # NoOwner /\ ~(now < tk.expires)
  \/ tk.owner = NoOwner /\ tk.status \in Claimable

(* setClaim *)
SetClaim(tk, o, until) ==
  [tk EXCEPT !.owner = o, !.expires = Trunc(until), !.status = "claimed"]

(* ReleaseClaim's new frontmatter: any status the caller names. *)
ReleasedTo(tk, s) == [tk EXCEPT !.owner = NoOwner, !.expires = 0, !.status = s]

(* RenewClaim's new frontmatter: the status stays. *)
Renewed(tk, until) == [tk EXCEPT !.expires = Trunc(until)]

(* reclaimOne's test under the lock, against the scan's time. *)
Reclaimable(tk, cut) == tk.owner # NoOwner /\ tk.expires < cut

StatusCleared(tk) == [tk EXCEPT !.status = "pending"]

(* clearClaimFields *)
ClaimCleared(tk) == ReleasedTo(tk, "pending")

(* A claim whose lease still runs: nobody else may take the task. *)
Live(tk, now) == tk.owner # NoOwner /\ now < tk.expires

-----------------------------------------------------------------------------
(* Readiness of a task, over all files of the run; a missing dependency is *)
(* unresolved.                                                             *)

Exists(files, t) == files[t] # NoFile

(* allDepsClosed over buildStatusMap *)
AllDepsClosed(files, t) ==
  \A d \in files[t].deps :
     Exists(files, d) /\ TkStatus(files[d].status) = "closed"

(* ReadyFilter *)
ReadyTasks(files) ==
  {t \in Tasks : /\ Exists(files, t)
                 /\ files[t].status \in Claimable
                 /\ AllDepsClosed(files, t)}

(* Engine.GetPendingTasks asks for done, not closed, dependencies. *)
PendingTasks(files) ==
  {t \in Tasks : /\ Exists(files, t)
                 /\ files[t].status \in Claimable
                 /\ \A d \in files[t].deps :
                       Exists(files, d) /\ files[d].status = "done"}
=============================================================================
