------------------------- MODULE MCRouteReconciler -------------------------
(* Small instances of RouteReconciler for TLC. *)
EXTENDS RouteReconciler

CONSTANTS l1, l2, c1, c2

Listener(fits, admits) == [fits |-> fits, admits |-> admits]

\* Listener l1 takes class c1 only; it is missing from one spec and has
\* another protocol in the third.  Listener l2 takes every class.
TheGateways ==
    {[l \in {l1, l2} |-> Listener(TRUE, IF l = l1 THEN {c1} ELSE {c1, c2})],
     [l \in {l2} |-> Listener(TRUE, {c1, c2})],
     [l \in {l1, l2} |-> Listener(l = l2, {c1, c2})]}

\* ... and it may be missing or of a class that is not Wicket's.
SomeGateways == TheGateways \cup {NoGateway}

RouteTo(refs, class) == [refs |-> refs, class |-> class]

\* No spec here has only parentRefs a listener's policy turns away.
WelcomeRoutes == {RouteTo({l1}, c1), RouteTo({l1, l2}, c2), RouteTo({WholeGateway}, c2)}

\* ... and here is one.
UnwelcomeRoutes == {RouteTo({l1}, c2)}
=============================================================================
