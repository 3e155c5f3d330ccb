------------------------------- MODULE Peers -------------------------------
(***************************************************************************)
(* The command-line process behind a persistent backend of llmcli, as far  *)
(* as its backend can tell: it answers the requests written to its input   *)
(* one after the other, each with some deltas and a last frame, now and    *)
(* then with a frame that is an error, and it may die at any time.  The    *)
(* process is not part of the repository.  A frame is remembered with the  *)
(* call whose request it answers; nothing on the wire carries that.        *)
(***************************************************************************)
EXTENDS Sequences

Started == [up |-> TRUE, killed |-> FALSE, todo |-> << >>, out |-> << >>]

(* The backend ends the process; what was in its input is lost.            *)
Killed(p) == [p EXCEPT !.up = FALSE, !.killed = TRUE, !.todo = << >>]

(* The process ends by itself.                                             *)
Died(p) == [p EXCEPT !.up = FALSE, !.todo = << >>]

(* A request written to a process that is gone reaches no one.             *)
Asked(p, c) == IF p.up THEN [p EXCEPT !.todo = Append(@, c)] ELSE p

Serves(p) == p.up /\ p.todo # << >>

(* Only a final frame answers a request: after an error the process may go *)
(* on with it.                                                             *)
Said(p, kind) ==
  [p EXCEPT !.out  = Append(@, [kind |-> kind, of |-> Head(p.todo)]),
            !.todo = IF kind = "final" THEN Tail(@) ELSE @]

Taken(p) == [p EXCEPT !.out = Tail(@)]

Drained(p) == [p EXCEPT !.out = << >>]
=============================================================================
