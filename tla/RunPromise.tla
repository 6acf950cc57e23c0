----------------------------- MODULE RunPromise -----------------------------
(* What an autonomous Run promises the person who started it, whatever       *)
(* crashes, takeovers, lost checkpoints and concurrent requests there are    *)
(* (backend/app/ai/autonomy: state.py, repository.py, executor.py and        *)
(* recovery.py).  Writes are declared one at a time, started at most once    *)
(* and not after their outcome is known or a cancel found them undeclared; a *)
(* write of unknown outcome hands the Run to a person; nothing makes a Run   *)
(* active again that is with a person or has ended; and it ends completed or *)
(* expired only with every write settled.                                    *)
EXTENDS Naturals

CONSTANT Write

VARIABLES fate,       \* "active", with a person ("attention"), or how it ended
          cancelled,  \* the owner has asked to cancel
          outcome,    \* of each write: none, open, known or unknown
          starts      \* how often each write was started on its host

vars == <<fate, cancelled, outcome, starts>>

Ended     == {"completed", "failed", "cancelled", "expired"}
Unsettled == {w \in Write : outcome[w] \in {"open", "unknown"}}

Init == /\ fate = "active" /\ ~cancelled
        /\ outcome = [w \in Write |-> "none"]
        /\ starts = [w \in Write |-> 0]

\* The intent becomes durable: nothing else is open and nobody has cancelled.
Declare(w) == /\ fate = "active" /\ ~cancelled /\ Unsettled = {}
              /\ outcome[w] = "none"
              /\ outcome' = [outcome EXCEPT ![w] = "open"]
              /\ UNCHANGED <<fate, cancelled, starts>>

\* The command reaches the host, once; a worker that has lost the Run may still
\* send it, even after the Run has ended.
Start(w) == /\ w \in Unsettled
            /\ starts[w] = 0
            /\ starts' = [starts EXCEPT ![w] = 1]
            /\ UNCHANGED <<fate, cancelled, outcome>>

\* The outcome is learned; a revoked authorisation fails the Run with it.
Settle(w) == /\ fate = "active"
             /\ outcome[w] = "open"
             /\ outcome' = [outcome EXCEPT ![w] = "known"]
             /\ fate' \in {"active", "failed"}
             /\ UNCHANGED <<cancelled, starts>>

\* The outcome cannot be learned: the Run goes to a person with it.
Lose(w) == /\ fate = "active"
           /\ outcome[w] = "open"
           /\ outcome' = [outcome EXCEPT ![w] = "unknown"]
           /\ fate' = "attention"
           /\ UNCHANGED <<cancelled, starts>>

\* The Run is handed to a person.  It never becomes active again.
Attend == fate = "active" /\ fate' = "attention"

\* The owner asks to cancel; where nobody drives the Run it ends at once.
Cancel == /\ fate \notin Ended /\ ~cancelled
          /\ cancelled'
          /\ fate' \in {fate, "cancelled"}

\* It ends, cancelled only if that was asked for, well or by expiry only with
\* every write settled; failed or cancelled, it may leave one open.
End(how) == /\ fate \notin Ended
            /\ how = "cancelled" => cancelled
            /\ how \in {"completed", "expired"} => /\ fate = "active"
                                                 /\ Unsettled = {}
            /\ fate' = how

Next == \/ \E w \in Write : Declare(w) \/ Start(w) \/ Settle(w) \/ Lose(w)
        \/ /\ Attend \/ \E how \in Ended : End(how)
           /\ UNCHANGED <<cancelled, outcome, starts>>
        \/ Cancel /\ UNCHANGED <<outcome, starts>>

Spec == Init /\ [][Next]_vars
=============================================================================
