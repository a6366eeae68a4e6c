--------------------------- MODULE RoutinePromise ---------------------------
(***************************************************************************)
(* What routine authorization promises about each request, without a host, *)
(* a journal, memory or a crash: a request is given up or committed once   *)
(* and for all; only a committed one is sent, once, and while no other is  *)
(* in flight; its outcome is recorded as the chain shows it; and nothing   *)
(* is forgotten while an operation is in flight.                           *)
(***************************************************************************)
EXTENDS Naturals

CONSTANT Requests

VARIABLES
    status,   \* what is on record of each request
    sent,     \* how often the operation of each request was sent
    told,     \* the requests somebody was told are cancelled, rejected or expired
    chain     \* the operation of each request on the chain

vars == <<status, sent, told, chain>>

InFlight(r) == sent[r] > 0 /\ status[r] \in {"committed", "verified"}

Init ==
    /\ status = [r \in Requests |-> "open"]
    /\ sent = [r \in Requests |-> 0]
    /\ told = {}
    /\ chain = [r \in Requests |-> "none"]

Record(r, from, to) ==
    /\ status[r] = from
    /\ status' = [status EXCEPT ![r] = to]

\* A request ends unsent, or had ended so; its caller may be told.
GiveUp(r) ==
    /\ Record(r, "open", "given up") \/ Record(r, "given up", "given up")
    /\ told' \in {told, told \cup {r}}
    /\ UNCHANGED <<sent, chain>>

\* A request ends before anything was recorded of it.
Abandon(r) ==
    /\ Record(r, "open", "void")
    /\ UNCHANGED <<sent, told, chain>>

Commit(r) ==
    /\ Record(r, "open", "committed")
    /\ UNCHANGED <<sent, told, chain>>

Send(r) ==
    /\ status[r] = "committed" /\ sent[r] = 0
    /\ \A q \in Requests : ~InFlight(q)
    /\ sent' = [sent EXCEPT ![r] = 1]
    /\ chain' = [chain EXCEPT ![r] = "pending"]
    /\ UNCHANGED <<status, told>>

Include(r) ==
    /\ chain[r] = "pending"
    /\ \E outcome \in {"success", "failure"} : chain' = [chain EXCEPT ![r] = outcome]
    /\ UNCHANGED <<status, sent, told>>

\* The outcome is recorded: a success in two steps.
Settle(r) ==
    /\ \/ chain[r] = "success" /\ Record(r, "committed", "verified")
       \/ chain[r] = "success" /\ Record(r, "verified", "completed")
       \/ chain[r] = "failure" /\ Record(r, "committed", "failed")
    /\ UNCHANGED <<sent, told, chain>>

\* The profile is deleted: all records at once, for good.
Forget ==
    /\ \A r \in Requests : ~InFlight(r)
    /\ \E gone \in SUBSET Requests :
          status' = [r \in Requests |-> IF r \in gone THEN "void" ELSE status[r]]
    /\ UNCHANGED <<sent, told, chain>>

Next ==
    \/ \E r \in Requests : \/ GiveUp(r) \/ Abandon(r) \/ Commit(r) \/ Send(r)
                           \/ Include(r) \/ Settle(r)
    \/ Forget

Spec == Init /\ [][Next]_vars
=============================================================================
