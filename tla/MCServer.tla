------------------------------ MODULE MCServer ------------------------------
(***************************************************************************)
(* An instance of Server.tla for TLC: Ada and Bob have signed in before,   *)
(* Cy has not, and Dee's token carries the e-mail address Cy's does.       *)
(***************************************************************************)
EXTENDS Server, Sequences

In(route, token, subject, email, wanted) ==
    [route |-> route, token |-> token, subject |-> subject, email |-> email,
     version |-> wanted]

MCTables == {{<<"admin", "read">>, <<"admin", "write">>, <<"attendee", "read">>},
             {<<"admin", "read">>, <<"admin", "write">>}}

MCRegistered == [s \in Subjects |-> CASE s = "ada" -> "a" [] s = "bob" -> "b"
                                      [] OTHER -> None]
MCMembers == [s \in Subjects |-> CASE s = "ada" -> "admin" [] s = "bob" -> "attendee"
                                   [] OTHER -> None]

Writing(subject, email) == In("write", "valid", subject, email, 1)
Reading(subject, email) == In("read", "valid", subject, email, 1)
Listing(subject, token) == In("events", token, subject, "n", 1)
Health == In("health", "missing", "ada", "a", 1)

Editing(subject, email) == In("write", "valid", subject, email, 2)

\* Three writes of one version, of which one can win and the others diagnose; two
\* of one version and one of the next, which waits for the loser's row lock;
\* a reader and writers who gain or lose a role; first sign-ins of one person
\* and of two with one address; a sign-in with a changed address; health checks.
Scenarios ==
    {<<Writing("ada", "a"), Writing("ada", "n"), Writing("ada", "a")>>,
     <<Writing("ada", "a"), Writing("ada", "n"), Editing("ada", "a")>>,
     <<Writing("bob", "b"), Reading("bob", "b"), Writing("ada", "a")>>,
     <<Listing("cy", "valid"), Listing("cy", "valid"), Reading("cy", "n")>>,
     <<Listing("cy", "valid"), Listing("dee", "valid"), Writing("cy", "a")>>,
     <<Writing("ada", "n"), Listing("cy", "valid"), Health>>,
     <<Health, Listing("cy", "invalid"), Writing("cy", "n")>>,
     <<Reading("cy", "n"), Health, Listing("dee", "claimless")>>}
MCInputs == UNION {{w[r] : r \in Requests} : w \in Scenarios}

\* Roles change under the reader and the writers, not under the others.
MCInit == /\ Init /\ req \in Scenarios
          /\ changes = IF \E r \in Requests : req[r] = Reading("bob", "b")
                        THEN 0 ELSE MaxChanges

MCSpec == MCInit /\ [][Next]_vars /\ Fairness
=============================================================================
