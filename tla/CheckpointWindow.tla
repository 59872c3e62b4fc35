-------------------------- MODULE CheckpointWindow --------------------------
(***************************************************************************)
(* What the checkpoint manager promises to the rest of the monitor: headers *)
(* arrive one by one, and each time ChkptSize of them have arrived they     *)
(* become the current window, the reference for difficulties and for the    *)
(* security state.  How the headers are kept does not show.                 *)
(***************************************************************************)
EXTENDS Integers

CONSTANTS ChkptSize, StartBlk

VARIABLES
    last,       \* number of the newest header
    window,     \* numbers of the headers in the current window
    chkptNum    \* number of the last header of the current window

Init == last = StartBlk - 1 /\ window = {} /\ chkptNum = StartBlk - 1

Arrive ==
    /\ last' = last + 1
    /\ IF last + 1 = chkptNum + ChkptSize
         THEN window' = (chkptNum + 1)..(last + 1) /\ chkptNum' = last + 1
         ELSE UNCHANGED <<window, chkptNum>>

Spec == Init /\ [][Arrive]_<<last, window, chkptNum>>
=============================================================================
