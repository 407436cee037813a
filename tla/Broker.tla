------------------------------- MODULE Broker -------------------------------
(***************************************************************************)
(* The NATS broker's connection (infra/broker/nats/broker.go): Init,       *)
(* Publish, Subscribe and Destroy, each atomic under the broker's mutex,   *)
(* in any order and from any goroutine.                                    *)
(***************************************************************************)
EXTENDS Naturals, FiniteSets

CONSTANTS
    Topics,
    MaxConns       \* bound: connections opened

VARIABLES
    conn,          \* Broker.conn: 0, or which connection it is
    closed,        \* Broker.closed
    dialled,       \* history: how many connections were opened
    open,          \* the connections the NATS library has open
    subs,          \* live subscriptions: connection and topic
    destroyedEmpty \* history: Destroy ran while there was no connection

brokerVars == <<conn, closed, dialled, open, subs, destroyedEmpty>>

BrokerInit ==
    /\ conn = 0 /\ closed = FALSE /\ dialled = 0
    /\ open = {} /\ subs = {} /\ destroyedEmpty = FALSE

\* Init refuses a second connection, and does not look at closed.
Connect ==
    /\ conn = 0 /\ dialled < MaxConns
    /\ dialled' = dialled + 1
    /\ \/ conn' = dialled + 1 /\ open' = open \cup {dialled + 1}
       \/ UNCHANGED <<conn, open>>      \* nats.Connect fails and returns nil
    /\ UNCHANGED <<closed, subs, destroyedEmpty>>

\* Mutant of Usable: closed is not looked at.
UsableConnected == conn # 0

\* Publish and Subscribe are refused on a closed or unconnected broker.
Usable == ~closed /\ conn # 0

Subscribe(t) ==
    /\ Usable /\ conn \in open
    /\ subs' = subs \cup {[conn |-> conn, topic |-> t]}
    /\ UNCHANGED <<conn, closed, dialled, open, destroyedEmpty>>

Unsubscribe(s) ==
    /\ s \in subs
    /\ subs' = subs \ {s}
    /\ UNCHANGED <<conn, closed, dialled, open, destroyedEmpty>>

\* Closing a connection ends its subscriptions; conn keeps pointing at it.
Destroy ==
    /\ ~closed
    /\ closed' = TRUE
    /\ open' = open \ {conn}
    /\ subs' = {s \in subs : s.conn # conn}
    /\ destroyedEmpty' = (conn = 0)
    /\ UNCHANGED <<conn, dialled>>

BrokerNext ==
    \/ Connect \/ Destroy
    \/ \E t \in Topics : Subscribe(t)
    \/ \E s \in subs : Unsubscribe(s)

BrokerSpec == BrokerInit /\ [][BrokerNext]_brokerVars

-----------------------------------------------------------------------------
(* Properties.                                                             *)

\* A destroyed broker holds no connection and delivers nothing more, but for
\* one case: Destroy came before Init, whose connection no later Destroy
\* closes, since closed is set.  At most one connection is ever open.
DestroyReleases ==
    /\ Cardinality(open) <= 1
    /\ closed => subs = {} /\ (open # {} => destroyedEmpty)

=============================================================================
