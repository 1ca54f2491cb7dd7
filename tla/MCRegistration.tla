---------------------------- MODULE MCRegistration ----------------------------
(* Registration on a small instance, and a claim of the readme it refutes. *)
EXTENDS Registration

\* readme.md:59 says that the server reports itself to etcd at regular
\* intervals, so a server that is up and keeps its lease alive while its entry
\* is missing gets its entry back, by a new registration or a marking.
\* It may not: a marking on the replaced changer binds the key to the lease
\* nobody keeps alive, and the loop never looks at the key.
LostEntryIsReported ==
    loopPc = "keepalive" /\ key.status = "absent"
        ~> loopPc # "keepalive" \/ key.status # "absent" \/ proc # "alive"
===============================================================================
