----------------------------- MODULE NotifyCall -----------------------------
(***************************************************************************)
(* The transaction around a revoker's call of notifySubscribers: how the   *)
(* four kinds of revoker contract (revoker-onchain/) see their event       *)
(* manager.  The event manager runs the subscribers one after another;     *)
(* while one runs it may call the revoker again.  A failing subscriber     *)
(* undoes only its own calls, a failing notification the whole transaction.*)
(***************************************************************************)
EXTENDS Sequences

CONSTANT NoTarget  \* no notification is running

VARIABLES
    store,     \* a record: the revoker's storage, and the events published so far
    target,    \* what the running notification announces, or NoTarget
    txStart,   \* what a revert of the transaction restores
    callStart  \* what a revert of the running subscriber restores

cvars == <<store, target, txStart, callStart>>

Idle == target = NoTarget

\* A call from outside, or from a subscriber, that only updates the storage.
Update(s) ==
    /\ store' = s
    /\ IF Idle THEN txStart' = s /\ callStart' = s ELSE UNCHANGED <<txStart, callStart>>
    /\ UNCHANGED target

\* The call that reaches notifySubscribers with storage s.  While a notification
\* runs the event manager's entrance lock makes a second one revert.
BeginNotify(k, s) ==
    /\ Idle
    /\ store' = s
    /\ target' = k
    /\ callStart' = s
    /\ UNCHANGED txStart

SubscriberReturns ==
    /\ ~Idle
    /\ callStart' = store
    /\ UNCHANGED <<store, target, txStart>>

SubscriberFails ==
    /\ ~Idle
    /\ store' = callStart
    /\ UNCHANGED <<target, txStart, callStart>>

EndTx(s) ==
    /\ store' = s
    /\ target' = NoTarget /\ txStart' = s /\ callStart' = s

\* The event manager emits its event last, after every subscriber has run.
NotifyReturns ==
    /\ ~Idle
    /\ EndTx([store EXCEPT !.log = Append(@, target)])

NotifyReverts ==
    /\ ~Idle
    /\ EndTx(txStart)

CallStep == SubscriberReturns \/ SubscriberFails \/ NotifyReturns \/ NotifyReverts
=============================================================================
