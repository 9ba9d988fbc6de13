------------------------- MODULE SessionsRefinement -------------------------
(***************************************************************************)
(* The sessions of the service implement the life cycle of a login.        *)
(***************************************************************************)
EXTENDS Sessions

\* The state of the login that minted token k, read off the table and the
\* requests in flight.
LoginState ==
    [k \in Token |->
        IF rows[k] = NoRow \/ rows[k].login # k THEN "none"
        ELSE IF \E t \in Token : Live(t) /\ rows[t].login = k THEN "live"
        ELSE IF \E r \in Request : Rotating(r) /\ rows[req[r].token].login = k THEN "rotating"
        ELSE "closed"]

Lifecycle == INSTANCE SessionLifecycle WITH Login <- Token, state <- LoginState

\* Every behaviour of the service is, login by login, one SessionLifecycle
\* allows: in particular a closed login is never usable again.
ImplementsLifecycle == Lifecycle!Spec
=============================================================================
