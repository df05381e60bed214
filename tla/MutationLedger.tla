---------------------------- MODULE MutationLedger --------------------------
(***************************************************************************)
(* What the Host promises about remote mutations: a mutation ID takes      *)
(* effect at most once, with one payload, and every answer is true.        *)
(*                                                                         *)
(* An answer belongs to one submission (a ticket), not to the ID: an error *)
(* says that this submission has no effect, now or later.  It says nothing *)
(* of another submission of the same ID.                                   *)
(***************************************************************************)
CONSTANTS Ids, Payloads, None, Tickets

Submissions == [ticket : Tickets, id : Ids, payload : Payloads]
Answers == [request : Submissions, kind : {"result", "replayed", "conflict", "error"}]

VARIABLES
    ledger,      \* the payload that took effect under an ID, or None
    appliedBy,   \* the submission that made it take effect, 0 for none
    answers,     \* the answers given
    forgotten    \* IDs whose entry was dropped after the retry window

vars == <<ledger, appliedBy, answers, forgotten>>

Init ==
    /\ ledger = [i \in Ids |-> None]
    /\ appliedBy = [i \in Ids |-> 0]
    /\ answers = {}
    /\ forgotten = {}

Apply(s) ==
    /\ ledger[s.id] = None
    /\ s.id \notin forgotten
    /\ \A a \in answers : a.request.ticket # s.ticket
    /\ ledger' = [ledger EXCEPT ![s.id] = s.payload]
    /\ appliedBy' = [appliedBy EXCEPT ![s.id] = s.ticket]
    /\ UNCHANGED <<answers, forgotten>>

True(a) ==
    LET i == a.request.id IN
    CASE a.kind = "result"   -> /\ ledger[i] = a.request.payload
                                /\ appliedBy[i] = a.request.ticket
      [] a.kind = "replayed" -> ledger[i] = a.request.payload
      [] a.kind = "conflict" -> ledger[i] \notin {None, a.request.payload}
      [] a.kind = "error"    -> appliedBy[i] # a.request.ticket

Answer(a) ==
    /\ True(a)
    /\ \A b \in answers : b.request.ticket # a.request.ticket
    /\ answers' = answers \cup {a}
    /\ UNCHANGED <<ledger, appliedBy, forgotten>>

Forget(old) ==
    /\ \A i \in old : ledger[i] # None
    /\ ledger' = [i \in Ids |-> IF i \in old THEN None ELSE ledger[i]]
    /\ forgotten' = forgotten \cup old
    /\ UNCHANGED <<appliedBy, answers>>

Next ==
    \/ \E s \in Submissions : Apply(s)
    \/ \E a \in Answers : Answer(a)
    \/ \E old \in SUBSET Ids : Forget(old)

Spec == Init /\ [][Next]_vars
=============================================================================
