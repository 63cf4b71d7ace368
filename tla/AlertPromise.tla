---------------------------- MODULE AlertPromise ----------------------------
(***************************************************************************)
(* What the incremental alert path promises about one queued message,      *)
(* whatever statuses, locks and retries the worker uses to keep it:        *)
(* a message is offered to Telegram, Telegram may take it at most once,    *)
(* and a message Telegram may have taken is never offered again.           *)
(* DeliveryWorker implements this specification under the mapping stated   *)
(* there.                                                                  *)
(***************************************************************************)
EXTENDS Naturals

CONSTANT Row          \* the queued messages

VARIABLES
  fate,               \* what is known of a message: see Fates
  copies              \* how many times Telegram took it

promiseVars == <<fate, copies>>

(***************************************************************************)
(* "open": may be offered.  "onWire": handed to Telegram, answer not yet   *)
(* recorded.  "delivered": Telegram's receipt is recorded.  "unknown":     *)
(* nobody can tell whether Telegram took it.  "withdrawn": given up.       *)
(* "recalled": given up while a worker holds it, too late to stop it.      *)
(***************************************************************************)
Fates == {"open", "onWire", "delivered", "unknown", "withdrawn", "recalled"}

Init ==
  /\ fate = [r \in Row |-> "open"]
  /\ copies = [r \in Row |-> 0]

Becomes(r, f) == fate' = [fate EXCEPT ![r] = f]

Offer(r) ==
  /\ fate[r] = "open"
  /\ copies[r] = 0
  /\ Becomes(r, "onWire")
  /\ UNCHANGED copies

\* Telegram takes a message that is on the wire, also one recalled too late.
Take(r) ==
  /\ copies[r] = 0
  /\ copies' = [copies EXCEPT ![r] = 1]
  /\ \/ fate[r] = "onWire" /\ UNCHANGED fate
     \/ fate[r] = "recalled" /\ Becomes(r, "withdrawn")

\* The message comes back, to be offered again: only when Telegram certainly
\* did not take it.
TakeBack(r) ==
  /\ fate[r] = "onWire"
  /\ copies[r] = 0
  /\ Becomes(r, "open")
  /\ UNCHANGED copies

Deliver(r) ==
  /\ fate[r] = "onWire"
  /\ copies[r] = 1
  /\ Becomes(r, "delivered")
  /\ UNCHANGED copies

\* A message put aside for review: whether Telegram took it is not known.
Quarantine(rs) ==
  /\ \A r \in rs : fate[r] = "onWire"
  /\ fate' = [r \in Row |-> IF r \in rs THEN "unknown" ELSE fate[r]]
  /\ UNCHANGED copies

\* Messages are given up together (their recipient leaves), those a worker
\* holds as recalled.
Withdraw(rs, held) ==
  /\ \A r \in rs : fate[r] \in {"open", "onWire"}
  /\ \A r \in held : fate[r] = "onWire" /\ copies[r] = 0
  /\ fate' = [r \in Row |-> IF r \in held THEN "recalled"
                           ELSE IF r \in rs THEN "withdrawn" ELSE fate[r]]
  /\ UNCHANGED copies

\* The worker never sends a recalled message after all.
Drop(r) ==
  /\ fate[r] = "recalled"
  /\ Becomes(r, "withdrawn")
  /\ UNCHANGED copies

Next ==
  \/ \E r \in Row : Offer(r) \/ Take(r) \/ TakeBack(r) \/ Deliver(r) \/ Drop(r)
  \/ \E rs \in SUBSET Row : Quarantine(rs)
  \/ \E rs \in SUBSET Row : \E held \in SUBSET rs : Withdraw(rs, held)

Spec == Init /\ [][Next]_promiseVars
=============================================================================
