----------------------------- MODULE BodyStream -----------------------------
(***************************************************************************)
(* What a body channel promises its two ends, whatever its implementation: *)
(* the reader receives the writer's items in order and without gaps, and   *)
(* is told that the body is over only once the writer has closed it and    *)
(* nothing is left to deliver.  The last item may be an error.             *)
(***************************************************************************)
EXTENDS Naturals, Sequences

CONSTANT Items    \* what the writer may put in the body: chunks and the error

VARIABLES
    sent,     \* the items the body has accepted so far
    got,      \* the items the reader has received
    open,     \* the writer has not closed the body
    ended     \* the reader has been told that the body is over

vars == <<sent, got, open, ended>>

Init ==
    /\ sent = << >>
    /\ got = << >>
    /\ open = TRUE
    /\ ended = FALSE

Put ==
    /\ open
    /\ \E x \in Items : sent' = Append(sent, x)
    /\ UNCHANGED <<got, open, ended>>

Take ==
    /\ Len(got) < Len(sent)
    /\ got' = Append(got, sent[Len(got) + 1])
    /\ UNCHANGED <<sent, open, ended>>

Close ==
    /\ open
    /\ open' = FALSE
    /\ UNCHANGED <<sent, got, ended>>

End ==
    /\ ~open
    /\ got = sent
    /\ ended' = TRUE
    /\ UNCHANGED <<sent, got, open>>

Next == Put \/ Take \/ Close \/ End

Spec == Init /\ [][Next]_vars
=============================================================================
