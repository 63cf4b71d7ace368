---------------------------- MODULE ScopePromise ----------------------------
(***************************************************************************)
(* What the collection promises about one query scope, whatever phases,    *)
(* leases and breakers a tick goes through to keep it: one paid run at a   *)
(* time, a run that nobody saw start never yields a dataset, and a paid    *)
(* dataset is closed only by a tick that has read it.  SourceCollection    *)
(* implements this specification under the mapping stated there.           *)
(***************************************************************************)

CONSTANT Query        \* the query scopes

VARIABLE deal         \* where each scope is with its run: see Deals

(***************************************************************************)
(* "idle": nothing is owed.  "asking": a run is being asked for.           *)
(* "unsure": it was asked for, and nobody saw it start.  "running": it     *)
(* runs at the source.  "paid": its dataset waits to be read.  "read": a   *)
(* tick has the dataset in its hands.                                      *)
(***************************************************************************)
Deals == {"idle", "asking", "unsure", "running", "paid", "read"}

Init == deal = [q \in Query |-> "idle"]

Moves(q, from, to) == deal[q] \in from /\ deal' = [deal EXCEPT ![q] = to]

\* A run is asked for, and of one scope at a time.
Ask(q) == Moves(q, {"idle"}, "asking") /\ \A p \in Query : deal[p] # "asking"

Start(q) == Moves(q, {"asking"}, "running")

Settle(q) == Moves(q, {"running"}, "paid")

Read(q) == Moves(q, {"paid"}, "read")

Close(q) == Moves(q, {"read"}, "idle")

\* A run that failed, or that nobody saw start, owes nothing any more.
GiveUp(q) == Moves(q, {"unsure", "running"}, "idle")

\* Who was asking does not know the answer; who had read has to read again.
Lapse(qs) ==
  /\ \A q \in qs : deal[q] \in {"asking", "read"}
  /\ deal' = [q \in Query |-> IF q \notin qs THEN deal[q]
                              ELSE IF deal[q] = "asking" THEN "unsure" ELSE "paid"]

Next ==
  \/ \E q \in Query : Ask(q) \/ Start(q) \/ Settle(q) \/ Read(q) \/ Close(q) \/ GiveUp(q)
  \/ \E qs \in SUBSET Query : Lapse(qs)

Spec == Init /\ [][Next]_deal
=============================================================================
