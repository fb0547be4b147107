--------------------------- MODULE AppendOnlyLog ---------------------------
(***************************************************************************)
(* What the audit ledger promises to those who write to it, and what       *)
(* Merchant!Audit takes for granted: a sequence of events that only grows  *)
(* at its end, one event at a time, and holds no event twice.  Who is told *)
(* that the event is recorded finds it there; who gets an error cannot     *)
(* know, for the event is either there by then or will never be.           *)
(***************************************************************************)
EXTENDS Sequences, Naturals

CONSTANT Events

VARIABLES log,     \* the events recorded, in order
          answers  \* what the writer of each event was told: "none" as yet

logVars == <<log, answers>>

Init ==
  /\ log = <<>>
  /\ answers = [e \in Events |-> "none"]

Added(e) ==
  /\ \A i \in DOMAIN log : log[i] # e
  /\ log' = Append(log, e)

Record(e) ==
  /\ answers[e] = "none"
  /\ Added(e)
  /\ answers' = [answers EXCEPT ![e] = "recorded"]

Refuse(e) ==
  /\ answers[e] = "none"
  /\ Added(e) \/ UNCHANGED log
  /\ answers' = [answers EXCEPT ![e] = "error"]

Next == \E e \in Events : Record(e) \/ Refuse(e)

Spec == Init /\ [][Next]_logVars
=============================================================================
