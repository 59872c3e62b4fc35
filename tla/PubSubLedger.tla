---------------------------- MODULE PubSubLedger ----------------------------
(***************************************************************************)
(* What an event manager promises its subscribers: every change of the     *)
(* accounts is one atomic step, the vault always holds exactly what the    *)
(* accounts are worth, a subscriber is never dropped, and publications are *)
(* counted one at a time.                                                  *)
(***************************************************************************)
EXTENDS Integers, Functions

VARIABLES
    accounts,  \* a function from the subscribers to the Wei they are worth
    vault,     \* the Wei the event manager holds
    published  \* how many events were emitted

lvars == <<accounts, vault, published>>

Init == DOMAIN accounts = {} /\ vault = 0 /\ published = 0

KeepSubscribers == DOMAIN accounts \subseteq DOMAIN accounts'
Backed == vault' = SumFunction(accounts')

\* A deposit: no account loses, one account gains what the vault gains.
Deposit ==
    /\ KeepSubscribers
    /\ \E a \in DOMAIN accounts' :
          \A b \in DOMAIN accounts' \ {a} : b \in DOMAIN accounts /\ accounts'[b] = accounts[b]
    /\ vault' >= vault
    /\ Backed
    /\ UNCHANGED published

\* A publication: accounts are charged, and deposits made meanwhile are credited.
Publish ==
    /\ published' = published + 1
    /\ KeepSubscribers
    /\ Backed

Next == Deposit \/ Publish

Spec == Init /\ [][Next]_lvars
=============================================================================
