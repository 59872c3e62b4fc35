---------------------------- MODULE MCThreadPool ----------------------------
\* A ticking service, a server and its connections.
EXTENDS ThreadPool

CONSTANTS tick, server, conn1, conn2

MCMainTasks == <<server, tick>>
MCConnections == {conn1, conn2}
MCKindOf == [t \in Range(MCMainTasks) \cup MCConnections |->
               IF t = server THEN "server" ELSE IF t = tick THEN "ticking" ELSE "connection"]
=============================================================================
