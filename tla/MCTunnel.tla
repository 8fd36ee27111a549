------------------------------ MODULE MCTunnel ------------------------------
EXTENDS Tunnel

\* Nothing but the network's faults.
Plain == {[env |-> {}, max |-> 2, data |-> 1]}

\* A connection and a rekey, each of which may need all its attempts: cookie
\* replies; responses or initiations that do not decrypt; time passes and the
\* session is wiped.  How the calls end does not depend on the peer's data.
Retries == {[env |-> {"cookie"}, max |-> 2, data |-> 0],
            [env |-> {"refuse"}, max |-> 2, data |-> 0],
            [env |-> {"foreign"}, max |-> 2, data |-> 0],
            [env |-> {"age"}, max |-> 2, data |-> 0]}

\* Two rekeys after the connection, so that prev_session is in use; a sender beside
\* the calls, with expiry, refused messages and a second connection; handshakes
\* that the peer starts.
Faults == {[env |-> {}, max |-> 3, data |-> 1],
           [env |-> {"send", "age", "stop"}, max |-> 2, data |-> 1],
           [env |-> {"send", "refuse", "foreign", "stop"}, max |-> 2, data |-> 1],
           [env |-> {"initiate"}, max |-> 2, data |-> 0],
           [env |-> {"initiate", "send"}, max |-> 1, data |-> 1]}
=============================================================================
