------------------------------ MODULE TableLog ------------------------------
(***************************************************************************)
(* What the routing task may rely on: its copy of the routing table goes   *)
(* through the tables the control task had, each one, in order and later.  *)
(* The tables travel in a channel that also carries other messages.        *)
(***************************************************************************)
EXTENDS Sequences

CONSTANTS
    Table,      \* the tables there can be
    NoTable     \* what either side has before the first and after the last

VARIABLES
    owner,      \* the owner's table
    retired,    \* the owner is gone
    mail,       \* the channel: <<t>> for a table t, <<>> for anything else
    copy        \* the copy

vars == <<owner, retired, mail, copy>>

Init == owner = NoTable /\ retired = FALSE /\ mail = <<>> /\ copy = NoTable

\* a change of the owner's table is on its way at once
Publish ==
    /\ ~retired
    /\ owner' \in Table
    /\ mail' = Append(mail, <<owner'>>)
    /\ UNCHANGED <<retired, copy>>

Chatter ==
    /\ mail' = Append(mail, <<>>)
    /\ UNCHANGED <<owner, retired, copy>>

Take ==
    /\ mail # <<>>
    /\ mail' = Tail(mail)
    /\ copy' = IF Head(mail) = <<>> THEN copy ELSE Head(mail)[1]
    /\ UNCHANGED <<owner, retired>>

\* the owner says that it is leaving, and drops its table
Retire ==
    /\ ~retired
    /\ retired' = TRUE
    /\ owner' = NoTable
    /\ mail' = Append(mail, <<>>)
    /\ UNCHANGED copy

\* the copy is kept for as long as the channel holds anything
Drop ==
    /\ retired
    /\ mail = <<>>
    /\ copy' = NoTable
    /\ UNCHANGED <<owner, retired, mail>>

Next == Publish \/ Chatter \/ Take \/ Retire \/ Drop

Spec == Init /\ [][Next]_vars

=============================================================================
