-------------------------- MODULE ApprovalDecision --------------------------
(***************************************************************************)
(* What an approval request promises to the people and the agent around    *)
(* it, without its caches, channels, retries and failures: it is decided   *)
(* once and for all, as approved only with a quorum; whoever is told a     *)
(* decision is told that one; and the agent acts once, after an approval,  *)
(* or not at all.  ApprovalGate is shown to implement this specification.  *)
(***************************************************************************)
CONSTANTS
    Approvers,
    Quorums         \* the sets of voters that suffice for an approval

VARIABLES
    decision,       \* "open", or how the request was decided
    voters,         \* who voted for it
    told,           \* the decision each approver was last told, if any
    outcome         \* "open", or what the agent made of it

Init ==
    /\ decision = "open" /\ voters = {} /\ outcome = "open"
    /\ told = [a \in Approvers |-> "nothing"]

\* A vote; it may come too late to matter.
Vote(a) == voters' = voters \cup {a} /\ UNCHANGED <<decision, told, outcome>>

\* The one decision.
Decide(s) ==
    /\ decision = "open" /\ decision' = s
    /\ s = "approved" => voters \in Quorums
    /\ UNCHANGED <<voters, told, outcome>>

\* An approver's call ends with the decision, or with no decision.
Tell(a, s) ==
    /\ s \in {"nothing", decision} \ {"open", "lapsed"}
    /\ told' = [told EXCEPT ![a] = s] /\ UNCHANGED <<decision, voters, outcome>>

\* The agent goes ahead with what was approved ...
Grant ==
    /\ outcome = "open" /\ decision = "approved" /\ outcome' = "granted"
    /\ UNCHANGED <<decision, voters, told>>

\* ... or gives it up, and closes the request if it is still open.
GiveUp ==
    /\ outcome = "open" /\ outcome' = "refused"
    /\ decision' \in {decision, IF decision = "open" THEN "lapsed" ELSE decision}
    /\ UNCHANGED <<voters, told>>

\* The agent's process ends.
Vanish == outcome # "gone" /\ outcome' = "gone" /\ UNCHANGED <<decision, voters, told>>

Next ==
    \/ Grant \/ GiveUp \/ Vanish
    \/ \E s \in {"approved", "rejected", "lapsed"} : Decide(s)
    \/ \E a \in Approvers : Vote(a) \/ \E s \in {"nothing", "approved", "rejected"} : Tell(a, s)

Spec == Init /\ [][Next]_<<decision, voters, told, outcome>>
=============================================================================
