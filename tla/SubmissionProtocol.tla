------------------------- MODULE SubmissionProtocol -------------------------
(***************************************************************************)
(* What the application queue promises, without queues, sessions, reviews  *)
(* or attempt ids:  of all roles at most one is being worked on; Submit is *)
(* pressed at most MaxTries times per role and never while the previous    *)
(* press may still have arrived; an application that arrived is never      *)
(* followed by another one.                                                *)
(***************************************************************************)
EXTENDS Naturals

CONSTANTS
    Roles,
    MaxTries    \* how often Submit may be permitted for one role

VARIABLES
    phase,      \* how far each role has come
    tries,      \* how often Submit was permitted for it
    arrived     \* roles whose application the employer has

vars == <<phase, tries, arrived>>

Phases == {"waiting", "working", "in_doubt", "confirmed", "owner_sent", "dropped", "abandoned"}
Current == {"working", "in_doubt"}

Init ==
    /\ phase = [r \in Roles |-> "waiting"]
    /\ tries = [r \in Roles |-> 0]
    /\ arrived \in SUBSET Roles

Move(r, from, to) ==
    /\ phase[r] = from
    /\ phase' = [phase EXCEPT ![r] = to]

\* A role that may already have been sent is taken up in doubt.
Take(r) ==
    /\ \A q \in Roles : phase[q] \notin Current
    /\ \E to \in Current : Move(r, "waiting", to) /\ (r \in arrived => to = "in_doubt")
    /\ UNCHANGED <<tries, arrived>>

Press(r) ==
    /\ Move(r, "working", "in_doubt")
    /\ tries[r] < MaxTries
    /\ tries' = [tries EXCEPT ![r] = @ + 1]
    /\ UNCHANGED arrived

\* An application arrives at any time after the press, even if the role was
\* given up in the meantime.
Arrive(r) ==
    /\ phase[r] \in {"in_doubt", "abandoned"}
    /\ r \notin arrived
    /\ arrived' = arrived \cup {r}
    /\ UNCHANGED <<phase, tries>>

\* Only a press that is known not to have arrived reopens the role.
Reopen(r) ==
    /\ Move(r, "in_doubt", "working")
    /\ r \notin arrived
    /\ UNCHANGED <<tries, arrived>>

Confirm(r) ==
    /\ Move(r, "in_doubt", "confirmed")
    /\ r \in arrived
    /\ UNCHANGED <<tries, arrived>>

OwnerSends(r) == Move(r, "working", "owner_sent") /\ UNCHANGED <<tries, arrived>>

GiveUp(r) ==
    /\ Move(r, "working", "dropped") \/ Move(r, "in_doubt", "abandoned")
    /\ UNCHANGED <<tries, arrived>>

Next ==
    \E r \in Roles :
        Take(r) \/ Press(r) \/ Arrive(r) \/ Reopen(r) \/ Confirm(r) \/ OwnerSends(r) \/ GiveUp(r)

Spec == Init /\ [][Next]_vars
=============================================================================
