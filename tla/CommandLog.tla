------------------------------ MODULE CommandLog ------------------------------
(***************************************************************************)
(* What the orchestration engine promises its clients, without the worker, *)
(* the read model or the transactions: a command id gets one verdict, an   *)
(* accepted command contributes one block of entries to an append-only     *)
(* log, and nobody is told that a command was accepted before it was.      *)
(***************************************************************************)
EXTENDS Naturals, Sequences

CONSTANTS CommandIds, Before   \* Before: the entries of an earlier server

VARIABLES entries,   \* the command id every log entry was written for
          verdict,   \* "none", "accepted" or "rejected", by command id
          told       \* what each client was last told

Init == /\ entries = Before
        /\ verdict = [id \in CommandIds |-> "none"]
        /\ told = [id \in CommandIds |-> "none"]

Accept(id) ==
  /\ verdict[id] = "none"
  /\ verdict' = [verdict EXCEPT ![id] = "accepted"]
  /\ Len(entries') > Len(entries)
  /\ SubSeq(entries', 1, Len(entries)) = entries
  /\ \A i \in Len(entries) + 1 .. Len(entries') : entries'[i] = id
  /\ UNCHANGED told

Reject(id) ==
  /\ verdict[id] = "none"
  /\ verdict' = [verdict EXCEPT ![id] = "rejected"]
  /\ UNCHANGED <<entries, told>>

(* An answer may be lost or be a failure whatever the verdict, and a       *)
(* rejection may be told without having been recorded.                     *)
Tell(id) ==
  /\ \/ verdict[id] = "accepted" /\ told' = [told EXCEPT ![id] = "ok"]
     \/ verdict[id] # "accepted" /\ told' = [told EXCEPT ![id] = "rejected"]
     \/ \E answer \in {"pending", "failed"} : told' = [told EXCEPT ![id] = answer]
  /\ UNCHANGED <<entries, verdict>>

Disconnect ==
  /\ told' = [id \in CommandIds |-> IF told[id] = "pending" THEN "lost" ELSE told[id]]
  /\ UNCHANGED <<entries, verdict>>

Next == Disconnect \/ \E id \in CommandIds : Accept(id) \/ Reject(id) \/ Tell(id)

Spec == Init /\ [][Next]_<<entries, verdict, told>>
=============================================================================
