------------------------------- MODULE Sandbox -------------------------------
(***************************************************************************)
(* SandboxRunner and the sandbox database behind it: each call opens a     *)
(* connection of its own, runs one text under a read-only or a read-write  *)
(* role, rolls a read-write one back, and closes.  The text goes to the    *)
(* server as it is: it may be several statements, and those may end the    *)
(* transaction or set another role.  Of the database only what the         *)
(* verdicts depend on: the committed rows in heap order, the row locks of  *)
(* an open transaction, the dead rows a rollback leaves behind and the     *)
(* planner, whose choice depends on them.                                  *)
(***************************************************************************)
EXTENDS Integers, Sequences, Functions

CONSTANTS
    Runners,        \* who holds a SandboxRunner
    Queries,
    Effect(_, _),   \* Effect(q, table): the table after the text
    Output(_, _),   \* Output(q, table): [cols |-> a sequence, rows |-> a sequence of rows]
    Writes,         \* queries that are DML
    Commits,        \* queries that end the transaction themselves
    TakesRole,      \* queries that set a role that may write
    Broken,         \* queries the database refuses
    Endless,        \* queries that run past every limit
    Seeded,         \* the rows seed_sandbox.py puts in, in heap order
    Contents,       \* what the table may come to hold
    Plan(_, _),     \* Plan(q, bloat): the signature of the plan the planner chooses
    MaxBloat,       \* bound on dead rows
    MaxKept,        \* bound on texts that keep what they write
    MaxSandboxFaults \* bound on refused or lost connections

ASSUME SandboxAssumption ==
    /\ {Writes, Commits, TakesRole, Broken, Endless} \subseteq SUBSET Queries
    /\ {MaxBloat, MaxKept, MaxSandboxFaults} \subseteq Nat

(* The orders n rows may be in.                                            *)
Orders(n) == Bijection(1..n, 1..n)

Rearranged(rows) == {[i \in 1..Len(rows) |-> rows[p[i]]] : p \in Orders(Len(rows))}

(* Whatever order the heap has them in, and whatever a text that may keep  *)
(* its writes makes of them, the contents are sequences of rows.           *)
ASSUME ContentsAssumption ==
    /\ Seeded \in Contents
    /\ \A t \in Contents :
          /\ t \in Seq(Range(t))
          /\ Rearranged(t) \subseteq Contents
          /\ \A q \in Writes \cap (Commits \cup TakesRole) : Effect(q, t) \in Contents

VARIABLES
    table,         \* the committed rows, in heap order
    bloat,         \* dead rows since the last vacuum
    conn,          \* conn[r]: the call of execute in progress
    kept,          \* what the texts that kept their writes have left (a history variable)
    sandboxFaults

sandboxVars == <<table, bloat, conn, kept, sandboxFaults>>

Success(out)   == [success |-> TRUE, cols |-> out.cols, rows |-> out.rows, error |-> "none"]
Failure(error) == [success |-> FALSE, cols |-> <<>>, rows |-> <<>>, error |-> error]

Closed == [stage |-> "closed", query |-> "", dml |-> FALSE, own |-> <<>>,
           result |-> Failure("none")]

SandboxInit ==
    /\ table = Seeded
    /\ bloat = 0
    /\ kept = <<>>
    /\ conn = [r \in Runners |-> Closed]
    /\ sandboxFaults = 0

Stage(r) == conn[r].stage

(* Mutant: execute is not told that the statement may write.               *)
ExecuteReadOnly(r, q, dml) ==
    /\ Stage(r) = "closed"
    /\ conn' = [conn EXCEPT ![r] = [Closed EXCEPT !.stage = "running",
                                                  !.query = q, !.dml = FALSE]]
    /\ UNCHANGED <<table, bloat, kept, sandboxFaults>>

(* execute is called: psycopg.connect, then search_path, statement_timeout *)
(* and the role.                                                           *)
Execute(r, q, dml) ==
    /\ Stage(r) = "closed"
    /\ conn' = [conn EXCEPT ![r] = [Closed EXCEPT !.stage = "running",
                                                  !.query = q, !.dml = dml]]
    /\ UNCHANGED <<table, bloat, kept, sandboxFaults>>

(* The role that execute has set, or the text itself, lets it write.       *)
Writing(r) == conn[r].query \in Writes /\ (conn[r].dml \/ conn[r].query \in TakesRole)

(* What the text writes is committed before execute gets to its rollback:  *)
(* the text ends its transaction, or the connection is in autocommit and   *)
(* nothing in the text fails.                                              *)
Keeps(r) ==
    /\ Writing(r)
    /\ conn[r].query \in Commits \/ (~conn[r].dml /\ conn[r].query \notin Broken \cup Endless)

(* Rows an open transaction has written are locked for other writers.      *)
Locked(r) == \E o \in Runners \ {r} : /\ Stage(o) = "executed"
                                      /\ Writing(o) /\ ~Keeps(o)
                                      /\ conn[o].result.success

KeepEffect(q) ==
    /\ Len(kept) < MaxKept
    /\ table' = Effect(q, table)
    /\ kept' = Append(kept, table')

(* The text commits by itself, in the middle of the call: the rest of it   *)
(* may still fail, time out or lose its connection.                        *)
CommitByText(r) ==
    /\ Stage(r) = "running"
    /\ Keeps(r)
    /\ ~Locked(r)
    /\ KeepEffect(conn[r].query)
    /\ conn' = [conn EXCEPT ![r].stage = "committed"]
    /\ UNCHANGED <<bloat, sandboxFaults>>

(* What the database answers the text.                                     *)
Answer(r) ==
    LET q == conn[r].query
    IN  IF q \in Broken \/ (q \in Writes /\ ~Writing(r))  \* permission denied
        THEN Failure("sql")
        ELSE Success(Output(q, table))

RunStatement(r) ==
    LET q == conn[r].query IN
    /\ Stage(r) = IF Keeps(r) THEN "committed" ELSE "running"
    /\ q \notin Endless
    /\ Writing(r) /\ ~Keeps(r) => ~Locked(r)
    /\ conn' = [conn EXCEPT ![r].stage = "executed",
                            ![r].result = Answer(r),
                            ![r].own = IF Answer(r).success /\ ~Keeps(r) THEN Effect(q, table)
                                       ELSE table]
    /\ UNCHANGED <<table, bloat, kept, sandboxFaults>>

(* QueryCanceled: too long, or waiting too long for a lock.                *)
StatementTimeout(r) ==
    /\ Stage(r) \in {"running", "committed"}
    /\ conn[r].query \in Endless \/ (Stage(r) = "running" /\ Writing(r) /\ Locked(r))
    /\ conn' = [conn EXCEPT ![r].stage = "executed",
                            ![r].result = Failure("timeout"),
                            ![r].own = table]
    /\ UNCHANGED <<table, bloat, kept, sandboxFaults>>

(* Rolled back or lost, a transaction that wrote leaves dead rows.         *)
Wrote(r) == conn[r].dml /\ ~Keeps(r) /\ Stage(r) = "executed" /\ conn[r].own # table

LeaveDeadRows(r) == bloat' = IF Wrote(r) /\ bloat < MaxBloat THEN bloat + 1 ELSE bloat

(* Mutant: no rollback in the finally branch; leaving the with block       *)
(* normally commits.                                                       *)
CloseCommits(r) ==
    /\ Stage(r) = "executed"
    /\ table' = IF conn[r].dml /\ conn[r].result.success THEN conn[r].own ELSE table
    /\ conn' = [conn EXCEPT ![r].stage = "returned", ![r].own = <<>>]
    /\ UNCHANGED <<bloat, kept, sandboxFaults>>

(* The finally branch and the end of the with block.                       *)
Close(r) ==
    /\ Stage(r) = "executed"
    /\ LeaveDeadRows(r)
    /\ conn' = [conn EXCEPT ![r].stage = "returned", ![r].own = <<>>]
    /\ UNCHANGED <<table, kept, sandboxFaults>>

(* The server refuses the connection, or it is lost: before the rows have  *)
(* been fetched the result is an error, afterwards it stands; the server   *)
(* rolls back by itself.                                                   *)
ConnectionLost(r) ==
    /\ sandboxFaults < MaxSandboxFaults
    /\ sandboxFaults' = sandboxFaults + 1
    /\ Stage(r) \in {"running", "committed", "executed"}
    /\ LeaveDeadRows(r)
    /\ conn' = [conn EXCEPT ![r].stage = "returned",
                            ![r].own = <<>>,
                            ![r].result = IF Stage(r) = "executed" THEN @
                                          ELSE Failure("connection")]
    /\ UNCHANGED <<table, kept>>

(* Mutant: the connection is left open.                                    *)
HandKeepsConnection(r) == conn' = conn

(* The caller takes the result.                                            *)
Hand(r) == conn' = [conn EXCEPT ![r] = Closed]

(* Autovacuum takes the dead rows away; a rewrite of the table (VACUUM     *)
(* FULL, a dump restored) changes the heap order too.                      *)
Vacuum ==
    /\ bloat > 0
    /\ bloat' = 0
    /\ UNCHANGED <<table, conn, kept, sandboxFaults>>

Rewrite ==
    /\ \A r \in Runners : Stage(r) \in {"closed", "returned"}  \* the exclusive lock
    /\ table' \in Rearranged(table) \ {table}
    /\ bloat' = 0
    /\ UNCHANGED <<conn, kept, sandboxFaults>>

RunnerStep(r) ==
    CommitByText(r) \/ RunStatement(r) \/ StatementTimeout(r) \/ Close(r)

SandboxTypeOK ==
    /\ table \in Contents
    /\ kept \in Seq(Contents)
    /\ bloat \in 0..MaxBloat
    /\ sandboxFaults \in 0..MaxSandboxFaults
    /\ \A r \in Runners :
         /\ conn[r].stage \in {"closed", "running", "committed", "executed", "returned"}
         /\ conn[r].stage # "closed" => conn[r].query \in Queries
         /\ conn[r].result.error \in {"none", "sql", "timeout", "connection"}
===============================================================================
