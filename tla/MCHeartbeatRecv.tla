-------------------------- MODULE MCHeartbeatRecv --------------------------
EXTENDS HeartbeatRecv

CONSTANTS dmg, susp, s1, s2, q1, q2

Add(c, s, i) == [con |-> c, sock |-> s, init |-> i]

\* One receiver and two threads that ask for the status.
TwoQueries == [adds |-> {Add(dmg, s1, TRUE)}, queries |-> {q1, q2}]

\* A second connection for a constraint whose time is not reset.
Reconnect == [adds |-> {Add(dmg, s1, TRUE), Add(dmg, s2, FALSE)}, queries |-> {q1}]

\* Two receivers on one socket: AddRecv of the second throws while the first is
\* connected, and succeeds when the first has failed or was removed.
SharedSocket == [adds |-> {Add(dmg, s1, TRUE), Add(susp, s1, TRUE)}, queries |-> {q1}]

MCWorkloads == {TwoQueries, Reconnect, SharedSocket}

MCTimeout == [c \in {dmg, susp} |-> 1]
MCTimeoutStatus == [c \in {dmg, susp} |-> IF c = dmg THEN "Damaged" ELSE "Suspended"]
=============================================================================
