------------------------------ MODULE Transactions ------------------------------
(***************************************************************************)
(* The transactions of xorm/xormutil: goroutines that nest calls of WithTx *)
(* and Context, on sessions that hold a connection while they are in a     *)
(* transaction, from a pool of limited size.                               *)
(*                                                                         *)
(* The context of a call finds the session of the call around it only if   *)
(* it is that call's own: a context derived from it (a value, a deadline)  *)
(* is no *xormContext, and fails the type assertion.  A session has the    *)
(* name of the goroutine and the depth of the call that made it.  xorm and *)
(* the database are external: Commit outside a transaction does nothing    *)
(* and is no error, Close rolls an open transaction back.                  *)
(***************************************************************************)
EXTENDS Naturals, Sequences, FiniteSets

CONSTANTS
    Goroutines,
    Conns,       \* MaxOpenConns of the pool
    MaxDepth,    \* bound: calls nested in each other
    MaxCalls,    \* bound: calls
    MaxWrites    \* bound: writes

ASSUME TransactionsAssumption ==
    Conns \in Nat \ {0} /\ MaxDepth \in Nat /\ MaxCalls \in Nat /\ MaxWrites \in Nat

Sessions == Goroutines \X (1..MaxDepth)
Writes == 1..MaxWrites

VARIABLES
    stack,     \* the calls each goroutine is in: what they are, the depth of the call that
               \* made their session, whether they began its transaction
    wants,     \* what it waits for a connection for
    result,    \* how the last call inside the current one ended
    calls,     \* calls so far
    open,      \* sessions in a transaction: each holds a connection
    closed,    \* sessions that were closed
    pending,   \* writes of the transaction a session is in
    written,   \* writes so far
    durable,   \* writes that are committed
    made,      \* all writes of the last transaction of a session
    nested     \* how the call ended that joined this transaction and so ended it

sessionVars == <<open, closed, pending, durable, made, nested>>
vars == <<stack, wants, result, calls, sessionVars, written>>

Idle == [op |-> "none", on |-> 0]

Init ==
    /\ stack = [g \in Goroutines |-> <<>>]
    /\ wants = [g \in Goroutines |-> Idle]
    /\ result = [g \in Goroutines |-> "none"]
    /\ calls = 0
    /\ open = {} /\ closed = {}
    /\ pending = [s \in Sessions |-> {}]
    /\ written = 0 /\ durable = {}
    /\ made = [s \in Sessions |-> {}] /\ nested = [s \in Sessions |-> "none"]

Depth(g) == Len(stack[g])
Top(g) == stack[g][Depth(g)]
Session(g) == <<g, Top(g).on>>
FreeConn == Cardinality(open) < Conns

\* A goroutine goes on unless it waits or a panic passes through it.
Runs(g) == wants[g] = Idle /\ ~(Depth(g) > 0 /\ result[g] = "panic")

\* The type assertion succeeds and the session it finds is not closed.
Found(g, own) == own /\ Depth(g) > 0 /\ Session(g) \notin closed

Push(g, kind, on, began) ==
    stack' = [stack EXCEPT ![g] = Append(@, [kind |-> kind, on |-> on, began |-> began])]

\* getTxXormSession, or Context: the session of the context, or a new one.
SessionFor(g, own) == IF Found(g, own) THEN Top(g).on ELSE Depth(g) + 1

CallStarts(g) ==
    /\ Runs(g)
    /\ Depth(g) < MaxDepth /\ calls < MaxCalls
    /\ calls' = calls + 1
    /\ result' = [result EXCEPT ![g] = "none"]

Fresh(g, on) == IF on > Depth(g) THEN closed \ {<<g, on>>} ELSE closed

\* WithTx on a session that is in a transaction: joined.
Join(g) ==
    /\ CallStarts(g)
    /\ Found(g, TRUE) /\ Session(g) \in open
    /\ Push(g, "tx", Top(g).on, FALSE)
    /\ UNCHANGED <<wants, sessionVars, written>>

\* WithTx on another session: it waits for a connection.
CallTx(g, own) ==
    /\ CallStarts(g)
    /\ ~(Found(g, own) /\ Session(g) \in open)
    /\ wants' = [wants EXCEPT ![g] = [op |-> "begin", on |-> SessionFor(g, own)]]
    /\ closed' = Fresh(g, SessionFor(g, own))
    /\ UNCHANGED <<stack, open, pending, durable, made, nested, written>>

Begin(g) ==
    LET s == <<g, wants[g].on>> IN
    /\ wants[g].op = "begin"
    /\ FreeConn
    /\ open' = open \cup {s}
    /\ made' = [made EXCEPT ![s] = {}]
    /\ nested' = [nested EXCEPT ![s] = "none"]
    /\ Push(g, "tx", wants[g].on, TRUE)
    /\ wants' = [wants EXCEPT ![g] = Idle]
    /\ UNCHANGED <<result, calls, closed, pending, durable, written>>

\* The database, or the end of the context while it waits.
BeginFails(g) ==
    /\ wants[g].op = "begin"
    /\ wants' = [wants EXCEPT ![g] = Idle]
    /\ result' = [result EXCEPT ![g] = "error"]
    /\ UNCHANGED <<stack, calls, sessionVars, written>>

\* Context: a session without a transaction.
CallContext(g, own) ==
    /\ CallStarts(g)
    /\ Push(g, "plain", SessionFor(g, own), ~Found(g, own))
    /\ closed' = Fresh(g, SessionFor(g, own))
    /\ UNCHANGED <<wants, open, pending, durable, made, nested, written>>

-------------------------------------------------------------------------------
(* GetXormSession and a write.                                             *)

WriteInTx(g) ==
    /\ Runs(g)
    /\ Found(g, TRUE) /\ Session(g) \in open
    /\ written < MaxWrites
    /\ written' = written + 1
    /\ pending' = [pending EXCEPT ![Session(g)] = @ \cup {written + 1}]
    /\ made' = [made EXCEPT ![Session(g)] = @ \cup {written + 1}]
    /\ UNCHANGED <<stack, wants, result, calls, open, closed, durable, nested>>

\* Any other session commits by itself, on a connection of the moment.
WriteAlone(g, own) ==
    /\ Runs(g)
    /\ Depth(g) > 0
    /\ ~(Found(g, own) /\ Session(g) \in open)
    /\ written < MaxWrites
    /\ written' = written + 1
    /\ wants' = [wants EXCEPT ![g] = [op |-> "write", on |-> written + 1]]
    /\ UNCHANGED <<stack, result, calls, sessionVars>>

AutoCommit(g) ==
    /\ wants[g].op = "write"
    /\ FreeConn
    /\ durable' = durable \cup {wants[g].on}
    /\ wants' = [wants EXCEPT ![g] = Idle]
    /\ UNCHANGED <<stack, result, calls, open, closed, pending, made, nested, written>>

-------------------------------------------------------------------------------
(* The function returns, or panics; then the deferred Close.               *)

Pop(g, outcome) ==
    /\ stack' = [stack EXCEPT ![g] = SubSeq(@, 1, Depth(g) - 1)]
    /\ result' = [result EXCEPT ![g] = outcome]
    /\ nested' = IF Top(g).kind = "tx" /\ ~Top(g).began /\ Session(g) \in open
                 THEN [nested EXCEPT ![Session(g)] = outcome] ELSE nested

\* What is not committed is rolled back.
CloseSession(g) ==
    /\ open' = open \ {Session(g)}
    /\ closed' = closed \cup {Session(g)}
    /\ pending' = [pending EXCEPT ![Session(g)] = {}]

\* Mutant: the result of the function is not looked at before Commit.
FnFailsCommits(g, outcome) ==
    /\ wants[g] = Idle /\ Depth(g) > 0
    /\ outcome = "error" => result[g] # "panic"
    /\ Top(g).kind = "tx"
    /\ CloseSession(g)
    /\ durable' = durable \cup pending[Session(g)]
    /\ Pop(g, outcome)
    /\ UNCHANGED <<wants, calls, made, written>>

\* Mutant: the Close of WithTx is not deferred, so that an error or a panic skips it.
FnFailsOpen(g, outcome) ==
    /\ wants[g] = Idle /\ Depth(g) > 0
    /\ outcome = "error" => result[g] # "panic"
    /\ Top(g).kind = "tx"
    /\ Pop(g, outcome)
    /\ UNCHANGED <<wants, calls, open, closed, pending, durable, made, written>>

FnFails(g, outcome) ==
    /\ wants[g] = Idle /\ Depth(g) > 0
    /\ outcome = "error" => result[g] # "panic"
    /\ Top(g).kind = "tx"
    /\ CloseSession(g)
    /\ Pop(g, outcome)
    /\ UNCHANGED <<wants, calls, durable, made, written>>

Returns(g) == Runs(g) /\ Depth(g) > 0 /\ Top(g).kind = "tx"

\* Commit, if the session is in a transaction still.
Commit(g) ==
    /\ Returns(g)
    /\ durable' = durable \cup pending[Session(g)]
    /\ CloseSession(g)
    /\ Pop(g, "ok")
    /\ UNCHANGED <<wants, calls, made, written>>

\* An error of Commit leaves open whether the database did it.
CommitFails(g, applied) ==
    /\ Returns(g)
    /\ Session(g) \in open
    /\ durable' = IF applied THEN durable \cup pending[Session(g)] ELSE durable
    /\ CloseSession(g)
    /\ Pop(g, "uncertain")
    /\ UNCHANGED <<wants, calls, made, written>>

\* The function around Context ends in any way; its deferred closer closes a
\* session that Context made, and discards the call for one that it found.
LeaveContext(g, outcome) ==
    /\ wants[g] = Idle /\ Depth(g) > 0
    /\ outcome # "panic" => result[g] # "panic"
    /\ Top(g).kind = "plain"
    /\ IF Top(g).began THEN CloseSession(g) ELSE UNCHANGED <<open, closed, pending>>
    /\ Pop(g, outcome)
    /\ UNCHANGED <<wants, calls, durable, made, written>>

-------------------------------------------------------------------------------
Ends(g) ==
    \/ \E outcome \in {"error", "panic"} : FnFails(g, outcome)
    \/ Commit(g)
    \/ \E applied \in BOOLEAN : CommitFails(g, applied)
    \/ \E outcome \in {"ok", "error", "panic"} : LeaveContext(g, outcome)

Step(g) ==
    \/ Join(g)
    \/ \E own \in BOOLEAN : CallTx(g, own) \/ CallContext(g, own) \/ WriteAlone(g, own)
    \/ WriteInTx(g) \/ Begin(g) \/ BeginFails(g) \/ AutoCommit(g) \/ Ends(g)

Next == \E g \in Goroutines : Step(g)

\* The functions end, and the pool serves those who wait.
Fairness ==
    \A g \in Goroutines : WF_vars(Ends(g)) /\ SF_vars(Begin(g)) /\ SF_vars(AutoCommit(g))

Spec == Init /\ [][Next]_vars
FairSpec == Spec /\ Fairness

-------------------------------------------------------------------------------
Frames == [kind : {"tx", "plain"}, on : 1..MaxDepth, began : BOOLEAN]
Outcomes == {"none", "ok", "error", "uncertain", "panic"}

TypeOK ==
    /\ stack \in [Goroutines -> Seq(Frames)]
    /\ \A g \in Goroutines : Depth(g) <= MaxDepth
    /\ \A g \in Goroutines : \A d \in 1..Depth(g) : stack[g][d].on <= d
    /\ wants \in [Goroutines -> [op : {"none", "begin", "write"}, on : Nat]]
    /\ \A g \in Goroutines : wants[g].op = "begin" => wants[g].on \in 1..MaxDepth
    /\ \A g \in Goroutines : wants[g].op = "write" => wants[g].on \in 1..written
    /\ result \in [Goroutines -> Outcomes]
    /\ calls \in 0..MaxCalls
    /\ open \subseteq Sessions /\ closed \subseteq Sessions /\ open \cap closed = {}
    /\ pending \in [Sessions -> SUBSET Writes]
    /\ written \in 0..MaxWrites
    /\ durable \subseteq Writes
    /\ made \in [Sessions -> SUBSET Writes]
    /\ nested \in [Sessions -> Outcomes]

\* However calls end - by an error, a panic, a failed Commit, in a call nested in
\* them that ends the transaction - no connection stays behind: a session in a
\* transaction is that of a call its goroutine is in, which began
\* it, and there are never more of them than connections.
NoLeak ==
    /\ \A s \in open : \E d \in 1..Depth(s[1]) :
          stack[s[1]][d].kind = "tx" /\ stack[s[1]][d].began /\ stack[s[1]][d].on = s[2]
    /\ Cardinality(open) <= Conns
    /\ \A s \in Sessions : s \notin open => pending[s] = {}

\* What the result of WithTx tells its caller, for a call that began its
\* transaction: the writes are all durable or none of them is; all if it returned
\* nil and no call nested in it failed; none if the function failed, unless a
\* nested call that shares the session committed before (its Commit is the end of
\* the whole transaction).
Popped(g) == Len(stack'[g]) < Depth(g)
Outcome ==
    [][\A g \in Goroutines : Popped(g) /\ Top(g).kind = "tx" /\ Top(g).began =>
         LET all == made[Session(g)] IN
         /\ all \subseteq durable' \/ all \cap durable' = {}
         /\ result'[g] = "ok" /\ nested[Session(g)] \in {"none", "ok"} => all \subseteq durable'
         /\ result'[g] \in {"error", "panic"} /\ nested[Session(g)] # "ok"
               /\ nested[Session(g)] # "uncertain" => all \cap durable' = {}]_vars

\* Every call returns, unless goroutines that hold all connections wait for one
\* more each, as they do when they pass on a derived context.
Exhausted ==
    /\ Cardinality(open) = Conns
    /\ \A s \in open : wants[s[1]] # Idle
InCall(g) == Depth(g) > 0 \/ wants[g] # Idle
CallsReturn == \A g \in Goroutines : []<>~InCall(g) \/ <>[]Exhausted
===============================================================================
