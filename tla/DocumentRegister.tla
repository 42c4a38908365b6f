--------------------------- MODULE DocumentRegister ---------------------------
(***************************************************************************)
(* What a reader of official documents is promised: a number is given      *)
(* once, also to a document that failed; a campaign has one document in    *)
(* force of a type, which only another one replaces; a campaign is closed  *)
(* with a document in force of every type.  It does not promise that       *)
(* numbers have no gaps, nor in which order they come.                     *)
(***************************************************************************)
CONSTANTS Campaigns, Types, Numbers

VARIABLES
    current,    \* by campaign and type: the number in force, as a set
    used,       \* the numbers given
    closed      \* the closed campaigns

rvars == <<current, used, closed>>

RegisterInit ==
    /\ current = [c \in Campaigns |-> [t \in Types |-> {}]]
    /\ used = {}
    /\ closed = {}

Publish(c, t, n) ==
    /\ n \notin used
    /\ used' = used \cup {n}
    /\ current' = [current EXCEPT ![c][t] = {n}]
    /\ UNCHANGED closed

Spoil(n) ==
    /\ n \notin used
    /\ used' = used \cup {n}
    /\ UNCHANGED <<current, closed>>

Conclude(c) ==
    /\ \A t \in Types : current[c][t] # {}
    /\ closed' = closed \cup {c}
    /\ UNCHANGED <<current, used>>

Reopen(c) ==
    /\ closed' = closed \ {c}
    /\ UNCHANGED <<current, used>>

RegisterNext ==
    \/ \E n \in Numbers : Spoil(n) \/ \E c \in Campaigns, t \in Types : Publish(c, t, n)
    \/ \E c \in Campaigns : Conclude(c) \/ Reopen(c)

RegisterSpec == RegisterInit /\ [][RegisterNext]_rvars
=============================================================================
