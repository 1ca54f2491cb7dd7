------------------------------ MODULE MCHttpCall ------------------------------
(* HttpCall with three services in a row, and a claim of the code it refutes. *)
EXTENDS HttpCall

CONSTANTS front, middle, back

MCGuardOf == [s \in Services |-> CASE s = front -> "switch"
                                   [] s = middle -> "sentinel"
                                   [] OTHER -> "sign"]

\* client.go:240 says of the line before the interceptors run that it sets the
\* information about the target; so a request names the service it is sent to.
\* From the second hop on it names the service that sends it: the context holds
\* the target of the request that is being handled, and headerInterceptor puts
\* it over the one that send has set.
TargetNamesReceiver == \A r \in 1..used : from[r] # 0 => wire[r].target = to[r]
===============================================================================
