------------------------------- MODULE RegexpCache -------------------------------
(***************************************************************************)
(* The comparator "reg" of gateway expressions, apigw/hexpr: requests that *)
(* match a value against an expression, and the cache in which the first   *)
(* one leaves a function for the others to wait in.                        *)
(*                                                                         *)
(* The function that LoadOrStore leaves closes over the WaitGroup and the  *)
(* result of the call that made it, so that it has the name of that call.  *)
(* regexp is external: an expression is valid or not, and a value matches  *)
(* a valid one or not.                                                     *)
(***************************************************************************)
EXTENDS Naturals, FiniteSets

CONSTANTS
    Calls,      \* calls of Compare
    Exprs,      \* regular expressions
    Compilable, \* those that compile
    Values,     \* what is compared, but for ""
    Matching    \* <<expression, value>> pairs that match

ASSUME RegexpCacheAssumption ==
    /\ Compilable \subseteq Exprs
    /\ Matching \subseteq Compilable \X Values

Compiled == [kind |-> "compiled"]      \* stands for the function that returns the regexp
Waiting(c) == [kind |-> "waiting", on |-> c]
Empty == [kind |-> "none"]

VARIABLES
    callPc,    \* where a call is
    expr,      \* its target[0]
    value,     \* its data
    cache,     \* regCache
    result,    \* its f, once computed: "unset", "regexp", "nil"
    released,  \* calls that have done wg.Done
    got,       \* the function compileReg has returned
    answer     \* "none", "panic", or what Compare returned

cacheVars == <<callPc, expr, value, cache, result, released, got, answer>>

CacheInit ==
    /\ callPc = [c \in Calls |-> "idle"]
    /\ expr \in [Calls -> Exprs]
    /\ value \in [Calls -> Values]
    /\ cache = [e \in Exprs |-> Empty]
    /\ result = [c \in Calls |-> "unset"]
    /\ released = {}
    /\ got = [c \in Calls |-> Empty]
    /\ answer = [c \in Calls |-> "none"]

Goto(c, label) == callPc' = [callPc EXCEPT ![c] = label]

\* Mutant: Load and then Store, and not LoadOrStore: the first step of it.
LoadOnly(c) ==
    /\ callPc[c] = "idle"
    /\ got' = [got EXCEPT ![c] = cache[expr[c]]]
    /\ Goto(c, IF cache[expr[c]] = Empty THEN "compile" ELSE "use")
    /\ UNCHANGED <<expr, value, cache, result, released, answer>>

LoadOrStore(c) ==
    /\ callPc[c] = "idle"
    /\ IF cache[expr[c]] = Empty
       THEN /\ cache' = [cache EXCEPT ![expr[c]] = Waiting(c)]
            /\ Goto(c, "compile")
            /\ UNCHANGED got
       ELSE /\ got' = [got EXCEPT ![c] = cache[expr[c]]]
            /\ Goto(c, "use")
            /\ UNCHANGED cache
    /\ UNCHANGED <<expr, value, result, released, answer>>

\* regexp.Compile, and the f of the call is set.
Compile(c) ==
    /\ callPc[c] = "compile"
    /\ result' = [result EXCEPT ![c] = IF expr[c] \in Compilable THEN "regexp" ELSE "nil"]
    /\ Goto(c, "publish")
    /\ UNCHANGED <<expr, value, cache, released, got, answer>>

\* Store, or Delete.
Publish(c) ==
    /\ callPc[c] = "publish"
    /\ cache' = [cache EXCEPT ![expr[c]] = IF result[c] = "regexp" THEN Compiled ELSE Empty]
    /\ Goto(c, "release")
    /\ UNCHANGED <<expr, value, result, released, got, answer>>

\* Mutant: no Done if the expression did not compile.
ReleaseValid(c) ==
    /\ callPc[c] = "release"
    /\ released' = IF result[c] = "regexp" THEN released \cup {c} ELSE released
    /\ got' = [got EXCEPT ![c] = IF result[c] = "regexp" THEN Compiled ELSE Empty]
    /\ Goto(c, "use")
    /\ UNCHANGED <<expr, value, cache, result, answer>>

\* wg.Done; compileReg returns its own f, not the function that waits.
Release(c) ==
    /\ callPc[c] = "release"
    /\ released' = released \cup {c}
    /\ got' = [got EXCEPT ![c] = IF result[c] = "regexp" THEN Compiled ELSE Empty]
    /\ Goto(c, "use")
    /\ UNCHANGED <<expr, value, cache, result, answer>>

\* Mutant: the function does not wait.
ReadyAlways(fn) == TRUE

\* wg.Wait
Ready(fn) == fn.kind = "waiting" => fn.on \in released

\* What calling the function gives; a result that is not set is a nil function.
Outcome(c) ==
    IF got[c].kind = "waiting" THEN result[got[c].on]
    ELSE IF got[c].kind = "compiled" THEN "regexp" ELSE "nil"

Use(c) ==
    /\ callPc[c] = "use"
    /\ Ready(got[c])
    /\ answer' = [answer EXCEPT ![c] =
          IF Outcome(c) = "unset" THEN "panic"
          ELSE IF Outcome(c) = "regexp" /\ <<expr[c], value[c]>> \in Matching THEN "true" ELSE "false"]
    /\ Goto(c, "done")
    /\ UNCHANGED <<expr, value, cache, result, released, got>>

CallStep(c) == LoadOrStore(c) \/ Compile(c) \/ Publish(c) \/ Release(c) \/ Use(c)
CacheNext == \E c \in Calls : CallStep(c)
CacheSpec == CacheInit /\ [][CacheNext]_cacheVars
CacheFairSpec == CacheSpec /\ \A c \in Calls : WF_cacheVars(CallStep(c))

-------------------------------------------------------------------------------
Functions == {Empty, Compiled} \cup {Waiting(c) : c \in Calls}

CacheTypeOK ==
    /\ callPc \in [Calls -> {"idle", "compile", "publish", "release", "use", "done"}]
    /\ expr \in [Calls -> Exprs]
    /\ value \in [Calls -> Values]
    /\ cache \in [Exprs -> Functions]
    /\ result \in [Calls -> {"unset", "regexp", "nil"}]
    /\ released \subseteq Calls
    /\ got \in [Calls -> Functions]
    /\ answer \in [Calls -> {"none", "panic", "true", "false"}]

\* However requests interleave with the one that compiles their expression, they
\* all get the answer the expression gives: no request calls a function that is
\* not set yet, and none takes the failure of another expression for its own.
RightAnswer ==
    \A c \in Calls :
        answer[c] \in {"none", IF <<expr[c], value[c]>> \in Matching THEN "true" ELSE "false"}

\* One request compiles an expression at a time, and a valid expression is
\* compiled once for all; the cache holds a function to wait in only as long as
\* the request that put it there is going to replace or remove it.
OneCompiles ==
    \A e \in Exprs :
        /\ \A c, d \in Calls :
              /\ expr[c] = e /\ expr[d] = e
              /\ callPc[c] \in {"compile", "publish"}
              /\ callPc[d] \in {"compile", "publish"} \/ result[d] = "regexp"
              => c = d
        /\ \A c \in Calls : cache[e] = Waiting(c) =>
              expr[c] = e /\ callPc[c] \in {"compile", "publish"}

\* No request waits for ever, also for an expression that does not compile.
Returns == \A c \in Calls : <>(answer[c] # "none")
===============================================================================
