------------------------------- MODULE Tunnel -------------------------------
(***************************************************************************)
(* What the IO of a successful CONNECT promises to its application,        *)
(* whatever the protocol below it: bytes go out in the order they were     *)
(* written, a shutdown that succeeds has sent every one of them and then   *)
(* the end of the stream, and a read that reports the end has first given  *)
(* every byte the peer sent before it ended the stream itself.  A          *)
(* direction may be cut short at any time, and an application that drops   *)
(* the IO gives up what it has not shut down.                              *)
(***************************************************************************)
EXTENDS Naturals

VARIABLES
    accepted,   \* how many writes were accepted
    carried,    \* how many of them went to the transport
    fin,        \* the end of the sending direction went out
    cut,        \* the sending direction was reset or stopped
    shut,       \* a shutdown succeeded
    gone,       \* the application dropped the IO
    arrived,    \* how many chunks the peer sent
    over,       \* the peer ended its direction
    read,       \* how many chunks the application read
    eof         \* the application was told that the peer's bytes are over

sending == <<accepted, carried, fin, cut, shut, gone>>
receiving == <<arrived, over, read, eof>>

TunnelInit ==
    /\ accepted = 0 /\ carried = 0 /\ fin = FALSE /\ cut = FALSE /\ shut = FALSE
    /\ gone = FALSE /\ arrived = 0 /\ over = FALSE /\ read = 0 /\ eof = FALSE

Accept ==
    /\ ~fin /\ ~shut /\ ~gone
    /\ accepted' = accepted + 1
    /\ UNCHANGED <<carried, fin, cut, shut, gone, receiving>>

Carry ==
    /\ ~fin /\ ~cut
    /\ carried' \in carried + 1 .. accepted
    /\ UNCHANGED <<accepted, fin, cut, shut, gone, receiving>>

Finish ==
    /\ carried = accepted \/ gone
    /\ ~fin /\ ~cut
    /\ fin' = TRUE
    /\ UNCHANGED <<accepted, carried, cut, shut, gone, receiving>>

Cut ==
    /\ ~cut
    /\ cut' = TRUE
    /\ UNCHANGED <<accepted, carried, fin, shut, gone, receiving>>

Shut ==
    /\ fin /\ ~shut /\ ~gone
    /\ shut' = TRUE
    /\ UNCHANGED <<accepted, carried, fin, cut, gone, receiving>>

Leave ==
    /\ ~gone
    /\ gone' = TRUE
    /\ UNCHANGED <<accepted, carried, fin, cut, shut, receiving>>

Arrive ==
    /\ ~over
    /\ arrived' = arrived + 1
    /\ UNCHANGED <<over, read, eof, sending>>

(* The peer ends its direction, or both with a reset *)
End ==
    /\ ~over
    /\ over' = TRUE
    /\ cut' \in {cut, TRUE}
    /\ UNCHANGED <<arrived, read, eof, accepted, carried, fin, shut, gone>>

Read ==
    /\ read < arrived /\ ~eof /\ ~gone
    /\ read' = read + 1
    /\ UNCHANGED <<arrived, over, eof, sending>>

Eof ==
    /\ over /\ read = arrived /\ ~eof /\ ~gone
    /\ eof' = TRUE
    /\ UNCHANGED <<arrived, over, read, sending>>

TunnelNext == Accept \/ Carry \/ Finish \/ Cut \/ Shut \/ Leave \/ Arrive \/ End \/ Read \/ Eof

TunnelSpec == TunnelInit /\ [][TunnelNext]_<<sending, receiving>>
=============================================================================
