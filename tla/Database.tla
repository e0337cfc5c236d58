------------------------------- MODULE Database ------------------------------
(***************************************************************************)
(* The one MySQL session of the server (database/database.cpp), shared by  *)
(* all threads under databaseLock, a recursive mutex, and the transactions *)
(* in which the dispatcher saves a player or the houses (DBTransaction,    *)
(* IOLoginData::savePlayer, IOMapSerialize::saveHouseItems and             *)
(* saveHouseInfo) while other threads execute single statements.           *)
(* The MySQL server is external: a session executes statements in order,   *)
(* tentatively inside a transaction and for good outside; a lost           *)
(* connection rolls back the transaction, and the client library opens a   *)
(* fresh session for the next statement (MYSQL_OPT_RECONNECT).             *)
(***************************************************************************)
EXTENDS Naturals, Sequences, FiniteSets

CONSTANTS Saver,      \* the dispatcher thread
          Others,     \* other threads, each with one statement to execute
          Nobody,     \* no owner
          Statements, \* number of statements in a save
          Unchecked,  \* those whose result savePlayer() ignores
          MaxSaves, MaxLosses  \* bounds: saves tried, connections lost

Threads == Others \cup {Saver}

\* The statements of the saves, which no other thread's statement equals.
Saving == {<<s, i>> : s \in 1..MaxSaves, i \in 1..Statements}

ASSUME DatabaseAssumption ==
    /\ Saver \notin Others /\ Nobody \notin Threads /\ Others \cap Saving = {}
    /\ Statements \in Nat \ {0} /\ Unchecked \subseteq 1..Statements
    /\ MaxSaves \in Nat /\ MaxLosses \in Nat

VARIABLES pc,       \* where each thread is
          lock,     \* databaseLock
          session,  \* the session on the server
          durable,  \* statements made durable, in order
          save,     \* number of the current save
          next,     \* its next statement; 0 is BEGIN
          tx,       \* DBTransaction::state
          reported, \* statements reported successful to their caller
          good,     \* saves that returned true
          stray,    \* statements of others executed between BEGIN and the lock
          losses

vars == <<pc, lock, session, durable, save, next, tx, reported, good, stray, losses>>

\* A thread waits for the lock, has a query under way, or is between two calls.
TypeOK ==
    /\ pc \in [Threads -> {"idle", "lock", "query", "gap", "body", "rollback", "done"}]
    /\ lock \in [owner : Threads \cup {Nobody}, depth : 0..2]
    /\ (lock.owner = Nobody) = (lock.depth = 0)
    /\ session \in [inTx : BOOLEAN, pending : Seq(Others \cup Saving)]
    /\ ~session.inTx => session.pending = <<>>
    /\ durable \in Seq(Others \cup Saving)
    /\ save \in 0..MaxSaves /\ next \in 0..Statements + 1
    /\ tx \in {"STATE_NO_START", "STATE_START", "STATE_COMMIT"}
    /\ reported \subseteq Others \cup Saving
    /\ good \subseteq 1..MaxSaves /\ stray \subseteq Others
    /\ losses \in 0..MaxLosses

Fresh == [inTx |-> FALSE, pending |-> <<>>]  \* a new session

Init ==
    /\ pc = [t \in Threads |-> "idle"]
    /\ lock = [owner |-> Nobody, depth |-> 0]
    /\ session = Fresh /\ durable = <<>>
    /\ save = 0 /\ next = 0 /\ tx = "STATE_NO_START"
    /\ reported = {} /\ good = {} /\ stray = {} /\ losses = 0

-----------------------------------------------------------------------------
(* databaseLock. *)

CanLock(t) == lock.owner \in {t, Nobody}

Locked(l, t) == [owner |-> t, depth |-> l.depth + 1]

\* Fault: the lock is released altogether, whoever has it how often.
UnlockedAll(l, t) == [owner |-> Nobody, depth |-> 0]

\* pthread_mutex_unlock() by a thread that is not the owner does nothing.
Unlocked(l, t) ==
    IF l.owner # t THEN l
    ELSE [owner |-> IF l.depth = 1 THEN Nobody ELSE t, depth |-> l.depth - 1]

\* The lock of beginTransaction().
\* Fault: the lock of executeQuery() is thought to be enough.
HoldNothing(l, t) == l

Hold(l, t) == Locked(l, t)

-----------------------------------------------------------------------------
(* Database::executeQuery(), storeQuery(). *)

Begins(t) == t = Saver /\ next = 0

\* The statement a thread is executing.
Statement(t) == IF t = Saver THEN <<save, next>> ELSE t

\* The server executes the statement.
Executed(t) ==
    IF Begins(t)
    THEN /\ session' = [inTx |-> TRUE, pending |-> <<>>]  \* commits what is pending
         /\ durable' = durable \o session.pending
    ELSE IF session.inTx
    THEN session' = [session EXCEPT !.pending = Append(@, Statement(t))] /\ UNCHANGED durable
    ELSE durable' = Append(durable, Statement(t)) /\ UNCHANGED session

Lock(t) ==
    /\ pc[t] = "lock" /\ CanLock(t)
    /\ lock' = Locked(lock, t)
    /\ pc' = [pc EXCEPT ![t] = "query"]
    /\ UNCHANGED <<session, durable, save, next, tx, reported, good, stray, losses>>

\* Where the caller goes on.
After(t, ok) ==
    IF t # Saver THEN "done"
    ELSE IF Begins(t) THEN IF ok THEN "gap" ELSE "rollback"
    ELSE IF ok \/ next \in Unchecked THEN "body" ELSE "rollback"

QueryReturns(t, ok) ==
    /\ lock' = Unlocked(lock, t)
    /\ pc' = [pc EXCEPT ![t] = After(t, ok)]
    /\ next' = IF After(t, ok) \in {"gap", "body"} THEN next + 1 ELSE next
    /\ reported' = IF ok /\ ~Begins(t) THEN reported \cup {Statement(t)} ELSE reported
    /\ stray' = IF ok /\ t # Saver /\ pc[Saver] = "gap" THEN stray \cup {t} ELSE stray
    /\ UNCHANGED <<save, tx, good, losses>>

QueryOk(t) == pc[t] = "query" /\ Executed(t) /\ QueryReturns(t, TRUE)

\* The server refuses the statement.
QueryFails(t) ==
    /\ pc[t] = "query"
    /\ QueryReturns(t, FALSE)
    /\ UNCHANGED <<session, durable>>

\* The connection is lost before the statement or, if it ran outside a
\* transaction, perhaps after it: the loop tries again in a new session.
QueryLost(t) ==
    /\ pc[t] = "query" /\ losses < MaxLosses
    /\ losses' = losses + 1
    /\ session' = Fresh
    /\ \/ UNCHANGED durable
       \/ ~session.inTx /\ ~Begins(t) /\ durable' = Append(durable, Statement(t))
    /\ UNCHANGED <<pc, lock, save, next, tx, reported, good, stray>>

\* Another thread executes its statement.
Execute(t) ==
    /\ t \in Others /\ pc[t] = "idle"
    /\ pc' = [pc EXCEPT ![t] = "lock"]
    /\ UNCHANGED <<lock, session, durable, save, next, tx, reported, good, stray, losses>>

-----------------------------------------------------------------------------
(* A save. *)

\* DBTransaction::begin() and beginTransaction() up to BEGIN.
SaveBegin ==
    /\ pc[Saver] = "idle" /\ save < MaxSaves
    /\ save' = save + 1 /\ next' = 0
    /\ tx' = "STATE_START"
    /\ pc' = [pc EXCEPT ![Saver] = "lock"]
    /\ UNCHANGED <<lock, session, durable, reported, good, stray, losses>>

\* beginTransaction() takes the lock only after BEGIN has released it.
SaveLock ==
    /\ pc[Saver] = "gap" /\ CanLock(Saver)
    /\ lock' = Hold(lock, Saver)
    /\ pc' = [pc EXCEPT ![Saver] = "body"]
    /\ UNCHANGED <<session, durable, save, next, tx, reported, good, stray, losses>>

SaveStatement ==
    /\ pc[Saver] = "body" /\ next <= Statements
    /\ pc' = [pc EXCEPT ![Saver] = "lock"]
    /\ UNCHANGED <<lock, session, durable, save, next, tx, reported, good, stray, losses>>

\* Fault: the lock is kept when COMMIT fails.
AfterCommitKept(ok) == IF ok THEN Unlocked(lock, Saver) ELSE lock

AfterCommit(ok) == Unlocked(lock, Saver)

\* DBTransaction::commit().  A COMMIT that fails has rolled back; if the
\* connection is lost the transaction may have been committed or not, and there
\* is no second attempt.
SaveCommit ==
    /\ pc[Saver] = "body" /\ next > Statements
    /\ tx' = "STATE_COMMIT"
    /\ pc' = [pc EXCEPT ![Saver] = "idle"]
    /\ session' = Fresh
    /\ \/ /\ durable' = durable \o session.pending
          /\ good' = good \cup {save} /\ lock' = AfterCommit(TRUE)
          /\ UNCHANGED losses
       \/ /\ UNCHANGED <<durable, good, losses>>
          /\ lock' = AfterCommit(FALSE)
       \/ /\ losses < MaxLosses /\ losses' = losses + 1
          /\ durable' = durable \o session.pending
          /\ lock' = AfterCommit(FALSE)
          /\ UNCHANGED good
    /\ UNCHANGED <<save, next, reported, stray>>

\* Fault: the destructor does nothing.
RolledBackNever(s) == s

RolledBack(s) == Fresh

\* ~DBTransaction() after an early return, also the one after a BEGIN that
\* failed: then the lock was never taken.
SaveRollback ==
    /\ pc[Saver] = "rollback" /\ tx = "STATE_START"
    /\ session' = RolledBack(session)
    /\ lock' = Unlocked(lock, Saver)
    /\ pc' = [pc EXCEPT ![Saver] = "idle"]
    /\ UNCHANGED <<durable, save, next, tx, reported, good, stray, losses>>

Next ==
    \/ \E t \in Threads : Lock(t) \/ QueryOk(t) \/ QueryFails(t) \/ QueryLost(t) \/ Execute(t)
    \/ SaveBegin \/ SaveLock \/ SaveStatement \/ SaveCommit \/ SaveRollback

Spec == Init /\ [][Next]_vars

\* Threads run, and a thread that finds the lock free for good takes it.
FairSpec ==
    /\ Spec
    /\ \A t \in Threads : WF_vars(Lock(t)) /\ WF_vars(QueryOk(t) \/ QueryFails(t))
    /\ WF_vars(SaveLock)
    /\ WF_vars(SaveStatement) /\ WF_vars(SaveCommit) /\ WF_vars(SaveRollback)

-----------------------------------------------------------------------------
(* Properties. *)

Of(s) == {durable[i][2] : i \in {i \in DOMAIN durable : durable[i] \in Saving /\ durable[i][1] = s}}
ReportedOf(s) == {x[2] : x \in {x \in reported \cap Saving : x[1] = s}}

\* All that succeeded is there, and all that had to succeed.
Whole(s) == Of(s) = ReportedOf(s) /\ (1..Statements) \ Unchecked \subseteq Of(s)

Times(x) == Cardinality({i \in DOMAIN durable : durable[i] = x})

\* The paths out of a save (six early returns, commit, failed commit) all leave
\* the recursive lock balanced, and the session is only used by its holder,
\* except by the rollback that follows a BEGIN that failed.
LockDiscipline ==
    /\ TypeOK
    /\ \A t \in Threads : pc[t] \in {"idle", "gap", "done"} => lock.owner # t
    /\ \A t \in Threads : pc[t] \in {"query", "body"} => lock.owner = t
    /\ pc[Saver] = "rollback" /\ next > 0 => lock.owner = Saver

\* "Start the transaction" ... "End the transaction" (iomapserialize.cpp:73,109):
\* a save reaches the database as a whole or not at all, and a save that returned
\* true has reached it.
SaveAtomic ==
    /\ \A s \in 1..save : Of(s) = {} \/ Whole(s)
    /\ \A s \in good : Whole(s)

\* As long as the connection has never been lost, saves are atomic: no refused
\* statement, no early return and no statement of another thread tears one apart.
SaveAtomicConnected == losses = 0 => SaveAtomic

\* A statement another thread was told has succeeded is durable, and once while
\* no connection is lost, unless it slipped in between BEGIN and the lock of
\* beginTransaction(): then it shares the fate of the save.
ReportedIsDurable ==
    \A t \in (reported \cap Others) \ stray : Times(t) >= 1 /\ Times(t) <= 1 + losses

\* No thread waits for the lock for ever: every save and every statement ends.
CallsReturn == \A t \in Threads : pc[t] \notin {"idle", "done"} ~> pc[t] \in {"idle", "done"}
=============================================================================
