---------------------------- MODULE MCRoutedPool ----------------------------
(* RoutedPool as four uses: round robin over three replicas, the other two *)
(* strategies over two, health checks, and a router with no replica.       *)
EXTENDS RoutedPool

CONSTANTS u1, u2, u3, k1

Router(n, balancing, fallback, readers, checkers, limit) ==
    [replicas |-> n, balancing |-> balancing, fallback |-> fallback,
     readers |-> readers, checkers |-> checkers, changes |-> limit]

ThreeReaders == {u1, u2, u3}
TwoCheckers  == {Task, k1}

Routers == {Router(3, "RoundRobin", TRUE, {u1, u2}, {}, 2),
            Router(2, "LeastConnections", TRUE, {u1, u2, u3}, {}, 1),
            Router(2, "Random", FALSE, {u1, u2}, {}, 2),
            Router(2, "LeastConnections", FALSE, {u1}, {Task, k1}, 3),
            Router(0, "RoundRobin", FALSE, {u1}, {k1}, 0)}
=============================================================================
