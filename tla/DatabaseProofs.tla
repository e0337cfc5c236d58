---------------------------- MODULE DatabaseProofs ---------------------------
(***************************************************************************)
(* Theorems about the database session and the saves, for any number of    *)
(* other threads, of statements in a save, of saves and of lost            *)
(* connections.                                                            *)
(***************************************************************************)
EXTENDS Database, FiniteSetTheorems, TLAPS

-----------------------------------------------------------------------------
(* The inductive invariant. *)

\* The save is between the BEGIN that succeeded and its end.
InSave ==
    \/ pc[Saver] \in {"gap", "body"}
    \/ pc[Saver] \in {"lock", "query", "rollback"} /\ next > 0

\* Who owns databaseLock and how often.  The saver holds it all through the save,
\* once more in each query; not between BEGIN and the lock of beginTransaction().
LockState ==
    /\ \A t \in Others :
         /\ pc[t] \in {"idle", "lock", "query", "done"}
         /\ lock.owner = t <=> pc[t] = "query"
         /\ pc[t] = "query" => lock.depth = 1
    /\ pc[Saver] # "done"
    /\ lock.owner = Saver <=> pc[Saver] = "query" \/ (InSave /\ pc[Saver] # "gap")
    /\ lock.owner = Saver => lock.depth = IF pc[Saver] = "query" /\ next > 0 THEN 2 ELSE 1

\* Where the saver is in its save.
SaveState ==
    /\ pc[Saver] # "idle" => save > 0
    /\ pc[Saver] = "gap" => next = 1
    /\ pc[Saver] = "body" => next > 0
    /\ pc[Saver] \in {"lock", "query", "rollback"} => next <= Statements
    /\ session.inTx => InSave

\* The statements in a sequence.
In(q) == {q[i] : i \in 1..Len(q)}

\* Nothing of save s is durable; or all of it is that was reported or had to be.
Absent(s) == \A i \in 1..Statements : <<s, i>> \notin In(durable)
Complete(s) ==
    \A i \in 1..Statements :
        /\ <<s, i>> \in In(durable) <=> <<s, i>> \in reported
        /\ i \notin Unchecked => <<s, i>> \in In(durable)

Ended(s) == s < save \/ (s = save /\ pc[Saver] = "idle")

\* Connected: the transaction on the server is that of the save, and holds what
\* the save was told has succeeded; earlier saves are there whole or not at all.
Connected ==
    losses = 0 =>
      /\ InSave =>
           /\ session.inTx
           /\ Absent(save)
           /\ \A i \in 1..Statements :
                /\ <<save, i>> \in In(session.pending) <=> <<save, i>> \in reported
                /\ i < next /\ i \notin Unchecked => <<save, i>> \in reported
      /\ ~InSave /\ pc[Saver] # "idle" => Absent(save)
      /\ \A s \in 1..MaxSaves, i \in 1..Statements :
           /\ s > save \/ (s = save /\ ~InSave /\ pc[Saver] # "idle")
                => <<s, i>> \notin reported
           /\ s > save => <<s, i>> \notin In(durable)
           /\ s # save => <<s, i>> \notin In(session.pending)
      /\ \A s \in 1..MaxSaves : Ended(s) => Absent(s) \/ Complete(s)
      /\ \A s \in good : Ended(s) /\ Complete(s)

\* The statement of another thread: in the transaction of a save only if it came
\* between BEGIN and the lock; made durable once, or once more per lost connection.
OthersState ==
    /\ \A t \in Others : pc[t] # "done" => t \notin reported \cup stray
    /\ In(session.pending) \cap Others \subseteq stray
    /\ \A t \in Others \ stray :
         /\ pc[t] \in {"idle", "lock"} => Times(t) = 0
         /\ pc[t] = "query" => Times(t) <= losses
         /\ t \in reported => Times(t) >= 1 /\ Times(t) <= 1 + losses

IInv == TypeOK /\ LockState /\ SaveState /\ Connected /\ OthersState

-----------------------------------------------------------------------------
(* Sequences of statements. *)

LEMMA InAppend ==
    ASSUME NEW S, NEW q \in Seq(S), NEW x \in S
    PROVE  Append(q, x) \in Seq(S) /\ In(Append(q, x)) = In(q) \cup {x}
<1>1. /\ Append(q, x) \in Seq(S) /\ Len(Append(q, x)) = Len(q) + 1
      /\ Append(q, x)[Len(q) + 1] = x
      /\ \A i \in 1..Len(q) : Append(q, x)[i] = q[i]
  OBVIOUS
<1>2. 1..(Len(q) + 1) = (1..Len(q)) \cup {Len(q) + 1}
  OBVIOUS
<1>3. In(Append(q, x)) \subseteq In(q) \cup {x}
  BY <1>1, <1>2 DEF In
<1>4. In(q) \cup {x} \subseteq In(Append(q, x))
  BY <1>1, <1>2 DEF In
<1>5. QED
  BY <1>1, <1>3, <1>4

LEMMA InConcat ==
    ASSUME NEW S, NEW p \in Seq(S), NEW q \in Seq(S)
    PROVE  p \o q \in Seq(S) /\ In(p \o q) = In(p) \cup In(q)
<1>1. /\ p \o q \in Seq(S) /\ Len(p \o q) = Len(p) + Len(q)
      /\ \A i \in 1..Len(p) : (p \o q)[i] = p[i]
      /\ \A i \in 1..Len(q) : (p \o q)[Len(p) + i] = q[i]
      /\ Len(p) \in Nat /\ Len(q) \in Nat
  OBVIOUS
<1>2. ASSUME NEW i \in 1..Len(p \o q) PROVE (p \o q)[i] \in In(p) \cup In(q)
  <2>1. CASE i <= Len(p)
    BY <1>1, <2>1 DEF In
  <2>2. CASE i > Len(p)
    <3>1. i - Len(p) \in 1..Len(q) /\ (p \o q)[i] = q[i - Len(p)]
      BY <1>1, <2>2
    <3>2. QED
      BY <3>1 DEF In
  <2>3. QED
    BY <1>1, <2>1, <2>2
<1>3. \A i \in 1..Len(p) : p[i] \in In(p \o q)
  BY <1>1 DEF In
<1>4. ASSUME NEW i \in 1..Len(q) PROVE q[i] \in In(p \o q)
  <2>1. Len(p) + i \in 1..Len(p \o q)
    BY <1>1
  <2>2. QED
    BY <1>1, <2>1 DEF In
<1>5. QED
  BY <1>1, <1>2, <1>3, <1>4 DEF In

LEMMA InEmpty == In(<<>>) = {}
  BY DEF In

-----------------------------------------------------------------------------
(* The lock. *)

LEMMA NextLock == TypeOK /\ LockState /\ SaveState /\ [Next]_vars => LockState'
<1> SUFFICES ASSUME TypeOK, LockState, SaveState, [Next]_vars PROVE LockState'
  OBVIOUS
<1>0. /\ Saver \notin Others /\ Nobody \notin Others /\ Nobody # Saver
      /\ Threads = Others \cup {Saver}
      /\ DOMAIN pc = Threads
      /\ lock \in [owner : Threads \cup {Nobody}, depth : 0..2]
      /\ (lock.owner = Nobody) = (lock.depth = 0)
      /\ next \in 0..Statements + 1 /\ Statements \in Nat
  BY DatabaseAssumption DEF TypeOK, Threads
<1> USE DEF LockState, InSave
<1>1. ASSUME NEW t \in Threads, Lock(t) PROVE LockState'
  BY <1>0, <1>1 DEF Lock, CanLock, Locked
<1>2. ASSUME NEW t \in Threads, NEW ok \in BOOLEAN, pc[t] = "query", QueryReturns(t, ok)
      PROVE  LockState'
  <2>1. CASE t = Saver
    <3>1. CASE next = 0
      <4>1. lock' = [owner |-> Nobody, depth |-> 0] /\ pc'[Saver] \in {"gap", "rollback"}
            /\ (pc'[Saver] = "rollback" => next' = 0)
        BY <1>0, <1>2, <2>1, <3>1 DEF QueryReturns, Unlocked, After, Begins
      <4>2. \A u \in Others : pc'[u] = pc[u]
        BY <1>0, <1>2, <2>1 DEF QueryReturns
      <4>3. QED
        BY <1>0, <1>2, <2>1, <4>1, <4>2
    <3>2. CASE next > 0
      <4>1. lock' = [owner |-> Saver, depth |-> 1] /\ pc'[Saver] \in {"body", "rollback"}
            /\ next' > 0
        BY <1>0, <1>2, <2>1, <3>2 DEF QueryReturns, Unlocked, After, Begins
      <4>2. \A u \in Others : pc'[u] = pc[u]
        BY <1>0, <1>2, <2>1 DEF QueryReturns
      <4>3. QED
        BY <1>0, <1>2, <2>1, <3>2, <4>1, <4>2
    <3>3. QED
      BY <1>0, <3>1, <3>2
  <2>2. CASE t # Saver
    <3>1. /\ lock' = [owner |-> Nobody, depth |-> 0] /\ pc'[t] = "done"
          /\ \A u \in Threads : u # t => pc'[u] = pc[u]
          /\ next' = next
      BY <1>0, <1>2, <2>2 DEF QueryReturns, Unlocked, After
    <3>2. QED
      BY <1>0, <1>2, <2>2, <3>1
  <2>3. QED
    BY <2>1, <2>2
<1>3. ASSUME NEW t \in Threads, QueryOk(t) \/ QueryFails(t) PROVE LockState'
  BY <1>2, <1>3 DEF QueryOk, QueryFails
<1>4. ASSUME NEW t \in Threads, QueryLost(t) PROVE LockState'
  BY <1>4 DEF QueryLost
<1>5. ASSUME NEW t \in Threads, Execute(t) PROVE LockState'
  BY <1>0, <1>5 DEF Execute
<1>6. CASE SaveBegin
  BY <1>0, <1>6 DEF SaveBegin
<1>7. CASE SaveLock
  BY <1>0, <1>7 DEF SaveLock, CanLock, Hold, Locked
<1>8. CASE SaveStatement
  BY <1>0, <1>8 DEF SaveStatement, SaveState
<1>9. CASE SaveCommit
  <2>1. lock' = [owner |-> Nobody, depth |-> 0] /\ pc'[Saver] = "idle"
        /\ \A u \in Others : pc'[u] = pc[u]
    BY <1>0, <1>9 DEF SaveCommit, AfterCommit, Unlocked
  <2>2. QED
    BY <1>0, <1>9, <2>1 DEF SaveCommit
<1>10. CASE SaveRollback
  <2>1. lock'.owner # Saver /\ pc'[Saver] = "idle"
        /\ \A u \in Others : pc'[u] = pc[u]
    BY <1>0, <1>10 DEF SaveRollback, Unlocked
  <2>2. \A u \in Others : lock.owner = u => lock' = lock
    BY <1>0, <1>10 DEF SaveRollback, Unlocked
  <2>3. \A u \in Others : lock'.owner = u => lock.owner = u
    BY <1>0, <1>10 DEF SaveRollback, Unlocked
  <2>4. QED
    BY <1>0, <1>10, <2>1, <2>2, <2>3
<1>11. CASE UNCHANGED vars
  BY <1>11 DEF vars
<1>12. QED
  BY <1>1, <1>3, <1>4, <1>5, <1>6, <1>7, <1>8, <1>9, <1>10, <1>11 DEF Next

LEMMA NextSaveState == TypeOK /\ LockState /\ SaveState /\ [Next]_vars => SaveState'
<1> SUFFICES ASSUME TypeOK, LockState, SaveState, [Next]_vars PROVE SaveState'
  OBVIOUS
<1>0. /\ Saver \notin Others /\ Threads = Others \cup {Saver}
      /\ DOMAIN pc = Threads
      /\ next \in 0..Statements + 1 /\ Statements \in Nat \ {0} /\ save \in Nat
      /\ session \in [inTx : BOOLEAN, pending : Seq(Others \cup Saving)]
  BY DatabaseAssumption DEF TypeOK, Threads
<1> USE DEF SaveState, InSave
<1>1. ASSUME NEW t \in Threads, Lock(t) PROVE SaveState'
  BY <1>0, <1>1 DEF Lock
<1>2. ASSUME NEW t \in Threads, QueryOk(t) PROVE SaveState'
  <2>1. CASE t = Saver
    BY <1>0, <1>2, <2>1 DEF QueryOk, QueryReturns, After, Begins
  <2>2. CASE t # Saver
    <3>1. UNCHANGED <<pc[Saver], next, save, session.inTx>>
      BY <1>0, <1>2, <2>2 DEF QueryOk, QueryReturns, After, Begins, Executed
    <3>2. QED
      BY <3>1
  <2>3. QED
    BY <2>1, <2>2
<1>3. ASSUME NEW t \in Threads, QueryFails(t) PROVE SaveState'
  <2>1. CASE t = Saver
    BY <1>0, <1>3, <2>1 DEF QueryFails, QueryReturns, After, Begins
  <2>2. CASE t # Saver
    BY <1>0, <1>3, <2>2 DEF QueryFails, QueryReturns, After, Begins
  <2>3. QED
    BY <2>1, <2>2
<1>4. ASSUME NEW t \in Threads, QueryLost(t) PROVE SaveState'
  BY <1>4 DEF QueryLost, Fresh
<1>5. ASSUME NEW t \in Threads, Execute(t) PROVE SaveState'
  BY <1>0, <1>5 DEF Execute
<1>6. CASE SaveBegin
  BY <1>0, <1>6 DEF SaveBegin
<1>7. CASE SaveLock \/ SaveStatement
  BY <1>0, <1>7 DEF SaveLock, SaveStatement
<1>8. CASE SaveCommit \/ SaveRollback
  <2>1. pc' = [pc EXCEPT ![Saver] = "idle"] /\ session' = Fresh
    BY <1>8 DEF SaveCommit, SaveRollback, RolledBack
  <2>2. pc'[Saver] = "idle" /\ session'.inTx = FALSE
    BY <1>0, <2>1 DEF Fresh
  <2>3. QED
    BY <2>2
<1>9. CASE UNCHANGED vars
  BY <1>9 DEF vars
<1>10. QED
  BY <1>1, <1>2, <1>3, <1>4, <1>5, <1>6, <1>7, <1>8, <1>9 DEF Next

LEMMA NextTypeOK == TypeOK /\ LockState /\ SaveState /\ [Next]_vars => TypeOK'
<1> SUFFICES ASSUME TypeOK, LockState, SaveState, [Next]_vars PROVE TypeOK'
  OBVIOUS
<1> DEFINE S == Others \cup Saving
           PCs == {"idle", "lock", "query", "gap", "body", "rollback", "done"}
           LockOK == /\ lock \in [owner : Threads \cup {Nobody}, depth : 0..2]
                     /\ (lock.owner = Nobody) = (lock.depth = 0)
           SessionOK == /\ session \in [inTx : BOOLEAN, pending : Seq(S)]
                        /\ ~session.inTx => session.pending = <<>>
                        /\ durable \in Seq(S)
           RestOK == /\ pc \in [Threads -> PCs]
                     /\ save \in 0..MaxSaves /\ next \in 0..Statements + 1
                     /\ tx \in {"STATE_NO_START", "STATE_START", "STATE_COMMIT"}
                     /\ reported \subseteq S
                     /\ good \subseteq 1..MaxSaves /\ stray \subseteq Others
                     /\ losses \in 0..MaxLosses
<1>0. /\ Saver \notin Others /\ Nobody \notin Others /\ Nobody # Saver
      /\ Threads = Others \cup {Saver}
      /\ Statements \in Nat \ {0} /\ MaxSaves \in Nat /\ MaxLosses \in Nat
  BY DatabaseAssumption DEF Threads
<1>1. LockOK /\ SessionOK /\ RestOK
  BY DEF TypeOK
<1>2. ASSUME NEW t \in Threads, pc[t] = "query", ~Begins(t) PROVE Statement(t) \in S
  BY <1>0, <1>1, <1>2 DEF Statement, Begins, Saving, LockState, SaveState
\* The lock.
<1>3. LockOK'
  <2>1. ASSUME NEW t \in Threads, Lock(t) PROVE LockOK'
    BY <1>0, <1>1, <2>1 DEF Lock, CanLock, Locked, LockState, InSave
  <2>2. ASSUME NEW t \in Threads
        PROVE  /\ Unlocked(lock, t) \in [owner : Threads \cup {Nobody}, depth : 0..2]
               /\ (Unlocked(lock, t).owner = Nobody) = (Unlocked(lock, t).depth = 0)
    <3>1. CASE lock.owner # t
      BY <1>1, <3>1 DEF Unlocked
    <3>2. CASE lock.owner = t
      <4>1. lock.depth \in {1, 2} /\ t # Nobody
        BY <1>0, <1>1, <3>2
      <4>2. QED
        BY <1>0, <3>2, <4>1 DEF Unlocked
    <3>3. QED
      BY <3>1, <3>2
  <2>3. ASSUME NEW t \in Threads, QueryOk(t) \/ QueryFails(t) PROVE LockOK'
    BY <2>2, <2>3 DEF QueryOk, QueryFails, QueryReturns
  <2>4. ASSUME NEW t \in Threads, QueryLost(t) \/ Execute(t) PROVE LockOK'
    BY <1>1, <2>4 DEF QueryLost, Execute
  <2>5. CASE SaveBegin \/ SaveStatement \/ UNCHANGED vars
    BY <1>1, <2>5 DEF SaveBegin, SaveStatement, vars
  <2>6. CASE SaveLock
    BY <1>0, <1>1, <2>6 DEF SaveLock, CanLock, Hold, Locked, LockState, InSave
  <2>7. CASE SaveCommit \/ SaveRollback
    <3>1. lock' = Unlocked(lock, Saver)
      BY <2>7 DEF SaveCommit, SaveRollback, AfterCommit
    <3>2. QED
      BY <1>0, <2>2, <3>1
  <2>8. QED
    BY <2>1, <2>3, <2>4, <2>5, <2>6, <2>7 DEF Next
\* The session and what is durable.
<1>4. SessionOK'
  <2>1. durable \o session.pending \in Seq(S) /\ Fresh \in [inTx : BOOLEAN, pending : Seq(S)]
    BY <1>1, InConcat DEF Fresh
  <2>2. ASSUME NEW t \in Threads, QueryOk(t) PROVE SessionOK'
    <3>1. CASE Begins(t)
      <4>1. session' = [inTx |-> TRUE, pending |-> <<>>] /\ durable' = durable \o session.pending
        BY <2>2, <3>1 DEF QueryOk, Executed
      <4>2. <<>> \in Seq(S)
        OBVIOUS
      <4>3. QED
        BY <2>1, <4>1, <4>2
    <3>2. CASE ~Begins(t)
      <4>1. Append(durable, Statement(t)) \in Seq(S) /\ Append(session.pending, Statement(t)) \in Seq(S)
        BY <1>1, <1>2, <2>2, <3>2, InAppend DEF QueryOk
      <4>2. CASE session.inTx
        BY <1>1, <2>2, <3>2, <4>1, <4>2 DEF QueryOk, Executed
      <4>3. CASE ~session.inTx
        BY <1>1, <2>2, <3>2, <4>1, <4>3 DEF QueryOk, Executed
      <4>4. QED
        BY <4>2, <4>3
    <3>3. QED
      BY <3>1, <3>2
  <2>3. ASSUME NEW t \in Threads, QueryLost(t) PROVE SessionOK'
    <3>1. durable \in Seq(S) /\ (pc[t] = "query" /\ ~Begins(t) => Statement(t) \in S)
      BY <1>1, <1>2
    <3>2. CASE durable' = durable
      BY <2>1, <2>3, <3>1, <3>2 DEF QueryLost, Fresh
    <3>3. CASE ~Begins(t) /\ durable' = Append(durable, Statement(t))
      <4>1. durable' \in Seq(S)
        BY <2>3, <3>1, <3>3, InAppend DEF QueryLost
      <4>2. QED
        BY <2>1, <2>3, <4>1 DEF QueryLost, Fresh
    <3>4. QED
      BY <2>3, <3>2, <3>3 DEF QueryLost
  <2>4. ASSUME NEW t \in Threads, Lock(t) \/ QueryFails(t) \/ Execute(t) PROVE SessionOK'
    BY <1>1, <2>4 DEF Lock, QueryFails, Execute
  <2>5. CASE SaveBegin \/ SaveLock \/ SaveStatement \/ UNCHANGED vars
    BY <1>1, <2>5 DEF SaveBegin, SaveLock, SaveStatement, vars
  <2>6. CASE SaveCommit \/ SaveRollback
    <3>1. durable' \in Seq(S) /\ session' = Fresh
      BY <1>1, <2>1, <2>6 DEF SaveCommit, SaveRollback, RolledBack
    <3>2. QED
      BY <2>1, <3>1 DEF Fresh
  <2>7. QED
    BY <2>2, <2>3, <2>4, <2>5, <2>6 DEF Next
\* The rest.
<1>5. RestOK'
  <2>1. ASSUME NEW t \in Threads, NEW ok \in BOOLEAN, pc[t] = "query", QueryReturns(t, ok)
        PROVE  RestOK'
    <3>1. After(t, ok) \in PCs
      BY DEF After
    <3>2. pc' \in [Threads -> PCs]
      BY <1>1, <2>1, <3>1 DEF QueryReturns
    <3>3. next' \in 0..Statements + 1
      BY <1>0, <1>1, <2>1 DEF QueryReturns, SaveState, After
    <3>4. reported' \subseteq S /\ stray' \subseteq Others
      BY <1>0, <1>1, <1>2, <2>1 DEF QueryReturns
    <3>5. QED
      BY <1>1, <2>1, <3>2, <3>3, <3>4 DEF QueryReturns
  <2>2. ASSUME NEW t \in Threads, QueryOk(t) \/ QueryFails(t) PROVE RestOK'
    BY <2>1, <2>2 DEF QueryOk, QueryFails
  <2>3. ASSUME NEW t \in Threads, Lock(t) \/ QueryLost(t) \/ Execute(t) PROVE RestOK'
    <3>1. pc' \in [Threads -> PCs]
      BY <1>1, <2>3 DEF Lock, QueryLost, Execute
    <3>2. losses' \in 0..MaxLosses /\ UNCHANGED <<save, next, tx, reported, good, stray>>
      BY <1>0, <1>1, <2>3 DEF Lock, QueryLost, Execute
    <3>3. QED
      BY <1>1, <3>1, <3>2
  <2>4. CASE SaveBegin \/ SaveLock \/ SaveStatement \/ UNCHANGED vars
    <3>1. pc' \in [Threads -> PCs]
      BY <1>0, <1>1, <2>4 DEF SaveBegin, SaveLock, SaveStatement, vars
    <3>2. save' \in 0..MaxSaves /\ next' \in 0..Statements + 1 /\ tx' \in {tx, "STATE_START"}
          /\ UNCHANGED <<reported, good, stray, losses>>
      BY <1>0, <1>1, <2>4 DEF SaveBegin, SaveLock, SaveStatement, vars
    <3>3. QED
      BY <1>1, <3>1, <3>2
  <2>5. CASE SaveRollback
    BY <1>0, <1>1, <2>5 DEF SaveRollback
  <2>6. CASE SaveCommit
    <3>1. pc' \in [Threads -> PCs] /\ tx' = "STATE_COMMIT"
          /\ UNCHANGED <<save, next, reported, stray>>
      BY <1>0, <1>1, <2>6 DEF SaveCommit
    <3>2. save \in 1..MaxSaves
      BY <1>1, <2>6 DEF SaveCommit, SaveState
    <3>3. good' \in {good, good \cup {save}} 
          /\ \/ losses' = losses
             \/ losses < MaxLosses /\ losses' = losses + 1
      BY <2>6 DEF SaveCommit
    <3>4. good' \subseteq 1..MaxSaves /\ losses' \in 0..MaxLosses
      BY <1>0, <1>1, <3>2, <3>3
    <3>5. QED
      BY <1>1, <3>1, <3>4
  <2>7. QED
    BY <2>2, <2>3, <2>4, <2>5, <2>6 DEF Next
<1>6. QED
  BY <1>3, <1>4, <1>5 DEF TypeOK

LEMMA InitInv == Init => TypeOK /\ LockState /\ SaveState
<1> SUFFICES ASSUME Init PROVE TypeOK /\ LockState /\ SaveState
  OBVIOUS
<1> USE DatabaseAssumption DEF Init, Fresh, Threads
<1>1. TypeOK
  BY DEF TypeOK
<1>2. LockState /\ SaveState
  BY DEF LockState, SaveState, InSave
<1>3. QED
  BY <1>1, <1>2

LEMMA Discipline == Spec => [](TypeOK /\ LockState /\ SaveState)
<1>1. TypeOK /\ LockState /\ SaveState /\ [Next]_vars => (TypeOK /\ LockState /\ SaveState)'
  BY NextTypeOK, NextLock, NextSaveState
<1>2. QED
  BY <1>1, InitInv, PTL DEF Spec

\* The recursive databaseLock is balanced on every path out of a save, whatever
\* statements fail or connections are lost, and only its owner has a query under
\* way.
THEOREM LockBalanced == Spec => []LockDiscipline
<1>1. TypeOK /\ LockState /\ SaveState => LockDiscipline
  BY DatabaseAssumption DEF LockState, SaveState, InSave, LockDiscipline, Threads
<1>2. QED
  BY <1>1, Discipline, PTL

-----------------------------------------------------------------------------
(* Atomic saves. *)

LEMMA OfIsIn ==
    ASSUME TypeOK, NEW s \in 1..MaxSaves
    PROVE  /\ Of(s) = {i \in 1..Statements : <<s, i>> \in In(durable)}
           /\ ReportedOf(s) = {i \in 1..Statements : <<s, i>> \in reported}
<1>1. DOMAIN durable = 1..Len(durable)
  BY DEF TypeOK
<1>2. \A x \in Saving : x[1] = s => x = <<s, x[2]>> /\ x[2] \in 1..Statements
  BY DEF Saving
<1>3. \A i \in 1..Statements : <<s, i>> \in Saving /\ <<s, i>>[1] = s /\ <<s, i>>[2] = i
  BY DEF Saving
<1>4. Of(s) = {i \in 1..Statements : <<s, i>> \in In(durable)}
  <2>1. ASSUME NEW k \in 1..Len(durable), durable[k] \in Saving, durable[k][1] = s
        PROVE  durable[k][2] \in {i \in 1..Statements : <<s, i>> \in In(durable)}
    BY <1>2, <2>1 DEF In
  <2>2. ASSUME NEW i \in 1..Statements, <<s, i>> \in In(durable) PROVE i \in Of(s)
    <3>1. PICK k \in 1..Len(durable) : durable[k] = <<s, i>>
      BY <2>2 DEF In
    <3>2. durable[k] \in Saving /\ durable[k][1] = s /\ durable[k][2] = i
      BY <1>3, <3>1
    <3>3. QED
      BY <1>1, <3>2 DEF Of
  <2>3. QED
    BY <1>1, <2>1, <2>2 DEF Of
<1>5. ReportedOf(s) = {i \in 1..Statements : <<s, i>> \in reported}
  <2>1. ASSUME NEW x \in reported \cap Saving, x[1] = s
        PROVE  x[2] \in {i \in 1..Statements : <<s, i>> \in reported}
    BY <1>2, <2>1
  <2>2. ASSUME NEW i \in 1..Statements, <<s, i>> \in reported PROVE i \in ReportedOf(s)
    <3>1. <<s, i>> \in {x \in reported \cap Saving : x[1] = s} /\ <<s, i>>[2] = i
      BY <1>3, <2>2
    <3>2. QED
      BY <3>1 DEF ReportedOf
  <2>3. QED
    BY <2>1, <2>2 DEF ReportedOf
<1>6. QED
  BY <1>4, <1>5

LEMMA ConnectedIsAtomic == TypeOK /\ SaveState /\ Connected => SaveAtomicConnected
<1> SUFFICES ASSUME TypeOK, SaveState, Connected, losses = 0 PROVE SaveAtomic
  BY DEF SaveAtomicConnected
<1>0. save \in 0..MaxSaves /\ MaxSaves \in Nat /\ good \subseteq 1..MaxSaves
      /\ Unchecked \subseteq 1..Statements
  BY DatabaseAssumption DEF TypeOK
<1>1. ASSUME NEW s \in 1..MaxSaves
      PROVE  (Absent(s) => Of(s) = {}) /\ (Complete(s) => Whole(s))
  BY <1>0, OfIsIn DEF Absent, Complete, Whole
<1>2. ASSUME NEW s \in 1..save PROVE Of(s) = {} \/ Whole(s)
  <2>1. s \in 1..MaxSaves
    BY <1>0
  <2>2. Absent(s) \/ Complete(s)
    BY <1>0, <2>1 DEF Connected, Ended
  <2>3. QED
    BY <1>1, <2>1, <2>2
<1>3. \A s \in good : Whole(s)
  BY <1>0, <1>1 DEF Connected
<1>4. QED
  BY <1>2, <1>3 DEF SaveAtomic

LEMMA NextConnected ==
    TypeOK /\ LockState /\ SaveState /\ Connected /\ [Next]_vars => Connected'
<1> SUFFICES ASSUME TypeOK, LockState, SaveState, Connected, [Next]_vars, losses' = 0
             PROVE  Connected'
  BY DEF Connected
<1> USE DEF Connected, Ended, Absent, Complete
<1>0. /\ Saver \notin Others /\ Threads = Others \cup {Saver}
      /\ DOMAIN pc = Threads
      /\ next \in 0..Statements + 1 /\ Statements \in Nat /\ save \in 0..MaxSaves
      /\ MaxSaves \in Nat
      /\ session.inTx \in BOOLEAN /\ session.pending \in Seq(Others \cup Saving)
      /\ ~session.inTx => session.pending = <<>>
      /\ durable \in Seq(Others \cup Saving)
      /\ losses \in Nat
      /\ good \subseteq 1..MaxSaves
  BY DatabaseAssumption DEF TypeOK, Threads
<1>1. \A s \in 1..MaxSaves, i \in 1..Statements : <<s, i>> \in Saving /\ <<s, i>> \notin Others
  <2>1. \A s \in 1..MaxSaves, i \in 1..Statements : <<s, i>> \in Saving
    BY DEF Saving
  <2>2. QED
    BY <2>1, DatabaseAssumption
<1>2. session.inTx => InSave
  BY DEF SaveState
\* Steps that leave the statements alone, and the saver where it is.
<1>3. CASE /\ UNCHANGED <<session, durable, reported, save, good, losses, next>>
           /\ InSave' <=> InSave
           /\ pc'[Saver] = "idle" <=> pc[Saver] = "idle"
  BY <1>3
<1>4. ASSUME NEW t \in Threads, Lock(t) \/ Execute(t) PROVE Connected'
  BY <1>0, <1>3, <1>4 DEF Lock, Execute, InSave
<1>5. CASE SaveLock \/ SaveStatement
  BY <1>0, <1>3, <1>5 DEF SaveLock, SaveStatement, InSave, SaveState
<1>6. CASE UNCHANGED vars
  BY <1>3, <1>6 DEF vars, InSave
<1>7. ASSUME NEW t \in Threads, QueryOk(t) PROVE Connected'
  <2>0. losses = 0 /\ pc[t] = "query" /\ UNCHANGED <<save, good>>
    BY <1>7 DEF QueryOk, QueryReturns
  <2>1. CASE t # Saver
    <3>1. Statement(t) = t /\ t \in Others \cup Saving /\ ~Begins(t)
      BY <1>0, <2>1 DEF Statement, Begins
    <3>2. /\ In(durable') \in {In(durable), In(durable) \cup {t}}
          /\ In(session'.pending) \in {In(session.pending), In(session.pending) \cup {t}}
          /\ session'.inTx = session.inTx
      <4>1. /\ In(Append(durable, t)) = In(durable) \cup {t}
            /\ In(Append(session.pending, t)) = In(session.pending) \cup {t}
        BY <1>0, <3>1, InAppend
      <4>2. CASE session.inTx
        <5>1. session' = [session EXCEPT !.pending = Append(@, t)] /\ durable' = durable
          BY <1>7, <3>1, <4>2 DEF QueryOk, Executed
        <5>2. session'.pending = Append(session.pending, t) /\ session'.inTx = session.inTx
          BY <5>1 DEF TypeOK
        <5>3. QED
          BY <4>1, <5>1, <5>2
      <4>3. CASE ~session.inTx
        <5>1. session' = session /\ durable' = Append(durable, t)
          BY <1>7, <3>1, <4>3 DEF QueryOk, Executed
        <5>2. QED
          BY <4>1, <5>1
      <4>4. QED
        BY <4>2, <4>3
    <3>3. /\ reported' = reported \cup {t} /\ next' = next /\ pc'[Saver] = pc[Saver]
      BY <1>0, <1>7, <2>1, <3>1 DEF QueryOk, QueryReturns, After
    <3>4. \A s \in 1..MaxSaves, i \in 1..Statements : <<s, i>> # t
      BY <1>0, <1>1, <2>1
    <3>5. \A s \in 1..MaxSaves, i \in 1..Statements :
             /\ <<s, i>> \in In(durable') <=> <<s, i>> \in In(durable)
             /\ <<s, i>> \in In(session'.pending) <=> <<s, i>> \in In(session.pending)
             /\ <<s, i>> \in reported' <=> <<s, i>> \in reported
      BY <3>2, <3>3, <3>4
    <3>6. InSave' <=> InSave
      BY <3>3 DEF InSave
    <3>7. InSave => save \in 1..MaxSaves
      BY <1>0 DEF InSave, SaveState
    <3>8. pc[Saver] # "idle" => save \in 1..MaxSaves
      BY <1>0 DEF SaveState
    <3>9. QED
      BY <1>0, <2>0, <3>2, <3>3, <3>5, <3>6, <3>7, <3>8
  <2>2. CASE t = Saver /\ next = 0
    \* BEGIN: nothing was pending.
    <3>1. Begins(t) /\ ~InSave /\ session.pending = <<>> /\ save \in 1..MaxSaves
      BY <1>0, <1>2, <2>0, <2>2 DEF Begins, InSave, SaveState
    <3>2. /\ session' = [inTx |-> TRUE, pending |-> <<>>]
          /\ In(durable') = In(durable) \cup In(session.pending)
      <4>1. /\ session' = [inTx |-> TRUE, pending |-> <<>>]
            /\ durable' = durable \o session.pending
        BY <1>7, <3>1 DEF QueryOk, Executed
      <4>2. QED
        BY <1>0, <4>1, InConcat
    <3>3. In(durable') = In(durable) /\ In(session'.pending) = {} /\ session'.inTx
      BY <3>1, <3>2, InEmpty
    <3>4. reported' = reported /\ next' = 1 /\ pc'[Saver] = "gap"
      BY <1>0, <1>7, <2>2, <3>1 DEF QueryOk, QueryReturns, After
    <3>5. InSave'
      BY <3>4 DEF InSave
    <3>6. QED
      BY <1>0, <2>0, <2>2, <3>1, <3>3, <3>4, <3>5
  <2>3. CASE t = Saver /\ next > 0
    <3>1. ~Begins(t) /\ InSave /\ session.inTx /\ save \in 1..MaxSaves /\ next \in 1..Statements
      BY <1>0, <2>0, <2>3 DEF Begins, InSave, SaveState
    <3>2. Statement(t) = <<save, next>> /\ Statement(t) \in Others \cup Saving
      BY <1>1, <2>3, <3>1 DEF Statement
    <3>3. /\ In(session'.pending) = In(session.pending) \cup {<<save, next>>}
          /\ session'.inTx /\ durable' = durable
      <4>1. session' = [session EXCEPT !.pending = Append(@, <<save, next>>)] /\ durable' = durable
        BY <1>7, <3>1, <3>2 DEF QueryOk, Executed
      <4>2. /\ session'.pending = Append(session.pending, <<save, next>>)
            /\ session'.inTx = session.inTx
        BY <4>1 DEF TypeOK
      <4>3. In(Append(session.pending, <<save, next>>)) = In(session.pending) \cup {<<save, next>>}
        BY <1>0, <3>2, InAppend
      <4>4. QED
        BY <3>1, <4>1, <4>2, <4>3
    <3>4. /\ reported' = reported \cup {<<save, next>>}
          /\ next' = next + 1 /\ pc'[Saver] = "body"
      BY <1>0, <1>7, <2>3, <3>1, <3>2 DEF QueryOk, QueryReturns, After
    <3>5. InSave'
      BY <3>4 DEF InSave
    <3>6. \A s, i : <<s, i>> = <<save, next>> <=> s = save /\ i = next
      OBVIOUS
    <3>7. QED
      BY <1>0, <2>0, <2>3, <3>1, <3>3, <3>4, <3>5, <3>6
  <2>4. QED
    BY <1>0, <2>1, <2>2, <2>3
<1>8. ASSUME NEW t \in Threads, QueryFails(t) PROVE Connected'
  <2>0. losses = 0 /\ pc[t] = "query"
        /\ UNCHANGED <<session, durable, reported, save, good>>
    BY <1>8 DEF QueryFails, QueryReturns
  <2>1. CASE t # Saver
    <3>1. next' = next /\ pc'[Saver] = pc[Saver]
      BY <1>0, <1>8, <2>1 DEF QueryFails, QueryReturns, After
    <3>2. QED
      BY <1>3, <1>8, <2>0, <3>1 DEF InSave, QueryFails, QueryReturns
  <2>2. CASE t = Saver /\ next = 0
    <3>1. next' = 0 /\ pc'[Saver] = "rollback"
      BY <1>0, <1>8, <2>2 DEF QueryFails, QueryReturns, After, Begins
    <3>2. ~InSave /\ ~InSave'
      BY <2>0, <2>2, <3>1 DEF InSave
    <3>3. QED
      BY <1>0, <2>0, <2>2, <3>1, <3>2
  <2>3. CASE t = Saver /\ next > 0
    <3>1. InSave /\ InSave' /\ next \in 1..Statements
      BY <1>0, <1>8, <2>0, <2>3 DEF InSave, SaveState, QueryFails, QueryReturns, After, Begins
    <3>2. /\ pc'[Saver] # "idle"
          /\ next' = next \/ (next' = next + 1 /\ next \in Unchecked)
      BY <1>0, <1>8, <2>3 DEF QueryFails, QueryReturns, After, Begins
    <3>3. \A i \in 1..Statements : i < next' /\ i \notin Unchecked => i < next
      BY <1>0, <3>2
    <3>4. pc[Saver] # "idle"
      BY <2>0, <2>3
    <3>5. QED
      BY <1>0, <2>0, <3>1, <3>2, <3>3, <3>4
  <2>4. QED
    BY <1>0, <2>1, <2>2, <2>3
<1>9. ASSUME NEW t \in Threads, QueryLost(t) PROVE FALSE
  BY <1>0, <1>9 DEF QueryLost
<1>10. CASE SaveBegin
  <2>1. /\ pc[Saver] = "idle" /\ pc'[Saver] = "lock" /\ save' = save + 1 /\ next' = 0
        /\ UNCHANGED <<session, durable, reported, good>> /\ losses = 0
    BY <1>0, <1>10 DEF SaveBegin
  <2>2. ~InSave /\ ~InSave' /\ session.pending = <<>>
    BY <1>0, <1>2, <2>1 DEF InSave
  <2>3. In(session'.pending) = {} /\ save' \in 1..MaxSaves
    BY <1>0, <1>10, <2>1, <2>2, InEmpty DEF SaveBegin
  <2>4. \A s \in 1..MaxSaves : (s > save' <=> s > save /\ s # save') /\ (Ended(s)' <=> Ended(s))
    BY <1>0, <2>1, <2>3
  <2>5. \A i \in 1..Statements : <<save', i>> \notin In(durable) \cup reported
    BY <1>0, <2>1, <2>3
  <2>6. \A s \in good : Ended(s)' /\ Complete(s)'
    BY <1>0, <2>1, <2>4
  <2>7. \A s \in 1..MaxSaves : Ended(s)' => Absent(s)' \/ Complete(s)'
    BY <2>1, <2>4
  <2>8. QED
    BY <1>0, <2>1, <2>2, <2>3, <2>4, <2>5, <2>6, <2>7
<1>11. CASE SaveCommit
  <2>0. \/ /\ durable' = durable \o session.pending /\ good' = good \cup {save}
           /\ losses' = losses
        \/ UNCHANGED <<durable, good, losses>>
        \/ losses' = losses + 1
    BY <1>11 DEF SaveCommit
  <2>1. /\ pc[Saver] = "body" /\ next > Statements /\ pc'[Saver] = "idle"
        /\ session' = Fresh /\ UNCHANGED <<save, next, reported>>
    BY <1>0, <1>11 DEF SaveCommit
  <2>2. losses = 0 /\ InSave /\ ~InSave' /\ save \in 1..MaxSaves /\ In(session'.pending) = {}
    <3>1. losses = 0
      BY <1>0, <2>0
    <3>2. QED
      BY <1>0, <2>1, <3>1, InEmpty DEF InSave, SaveState, Fresh
  <2>3. CASE durable' = durable \o session.pending /\ good' = good \cup {save}
    <3>1. In(durable') = In(durable) \cup In(session.pending)
      BY <1>0, <2>3, InConcat
    <3>2. \A i \in 1..Statements : /\ <<save, i>> \in In(durable') <=> <<save, i>> \in reported
                                   /\ i \notin Unchecked => <<save, i>> \in In(durable')
      BY <1>0, <2>1, <2>2, <3>1
    <3>3. \A s \in 1..MaxSaves, i \in 1..Statements :
             s # save => (<<s, i>> \in In(durable') <=> <<s, i>> \in In(durable))
      BY <2>2, <3>1
    <3>4. QED
      BY <1>0, <2>1, <2>2, <2>3, <3>2, <3>3
  <2>4. CASE UNCHANGED <<durable, good>>
    BY <1>0, <2>1, <2>2, <2>4
  <2>5. losses' # losses + 1
    BY <2>2
  <2>6. QED
    BY <2>0, <2>3, <2>4, <2>5
<1>12. CASE SaveRollback
  <2>1. /\ pc[Saver] = "rollback" /\ pc'[Saver] = "idle" /\ session' = Fresh
        /\ UNCHANGED <<durable, reported, save, good, losses>>
    BY <1>0, <1>12 DEF SaveRollback, RolledBack
  <2>2. ~InSave' /\ In(session'.pending) = {} /\ save \in 1..MaxSaves
    BY <1>0, <2>1, InEmpty DEF InSave, SaveState, Fresh
  <2>3. QED
    BY <1>0, <2>1, <2>2
<1>13. QED
  BY <1>4, <1>5, <1>6, <1>7, <1>8, <1>9, <1>10, <1>11, <1>12 DEF Next

-----------------------------------------------------------------------------
(* The statements of the other threads. *)

\* How often a statement is in a sequence.
Occurs(q, x) == Cardinality({i \in DOMAIN q : q[i] = x})

LEMMA OccursType ==
    ASSUME NEW S, NEW q \in Seq(S), NEW x
    PROVE  /\ IsFiniteSet({i \in DOMAIN q : q[i] = x})
           /\ Occurs(q, x) \in Nat
<1>1. DOMAIN q = 1..Len(q) /\ Len(q) \in Nat
  OBVIOUS
<1>2. IsFiniteSet(1..Len(q))
  BY <1>1, FS_Interval
<1>3. {i \in DOMAIN q : q[i] = x} \in SUBSET (1..Len(q))
  BY <1>1
<1>4. QED
  BY <1>2, <1>3, FS_Subset, FS_CardinalityType DEF Occurs

LEMMA OccursAppend ==
    ASSUME NEW S, NEW q \in Seq(S), NEW x, NEW y \in S
    PROVE  Occurs(Append(q, y), x) = Occurs(q, x) + (IF x = y THEN 1 ELSE 0)
<1> DEFINE At(p) == {i \in DOMAIN p : p[i] = x}
<1>1. /\ Len(q) \in Nat /\ DOMAIN q = 1..Len(q)
      /\ DOMAIN Append(q, y) = 1..(Len(q) + 1)
      /\ Append(q, y)[Len(q) + 1] = y
      /\ \A i \in 1..Len(q) : Append(q, y)[i] = q[i]
  OBVIOUS
<1>2. /\ IsFiniteSet(At(q)) /\ Occurs(q, x) \in Nat
      /\ Occurs(q, x) = Cardinality(At(q)) /\ Len(q) + 1 \notin At(q)
  <2>1. IsFiniteSet(At(q)) /\ Occurs(q, x) \in Nat
    BY OccursType
  <2>2. Len(q) + 1 \notin At(q)
    BY <1>1
  <2>3. QED
    BY <2>1, <2>2 DEF Occurs
<1>3. CASE x = y
  <2>1. At(Append(q, y)) = At(q) \cup {Len(q) + 1}
    BY <1>1, <1>3
  <2>2. Cardinality(At(q) \cup {Len(q) + 1}) = Cardinality(At(q)) + 1
    BY <1>2, FS_AddElement
  <2>3. QED
    BY <1>3, <2>1, <2>2 DEF Occurs
<1>4. CASE x # y
  <2>1. At(Append(q, y)) = At(q)
    BY <1>1, <1>4
  <2>2. Occurs(Append(q, y), x) = Occurs(q, x)
    BY <2>1 DEF Occurs
  <2>3. QED
    BY <1>2, <1>4, <2>2
<1>5. QED
  BY <1>3, <1>4

LEMMA OccursConcat ==
    ASSUME NEW S, NEW p \in Seq(S), NEW q \in Seq(S), NEW x, x \notin In(q)
    PROVE  Occurs(p \o q, x) = Occurs(p, x)
<1>1. /\ Len(p) \in Nat /\ Len(q) \in Nat /\ DOMAIN p = 1..Len(p)
      /\ DOMAIN (p \o q) = 1..(Len(p) + Len(q))
      /\ \A i \in 1..Len(p) : (p \o q)[i] = p[i]
      /\ \A i \in 1..Len(q) : (p \o q)[Len(p) + i] = q[i]
  OBVIOUS
<1>2. ASSUME NEW i \in 1..(Len(p) + Len(q)), (p \o q)[i] = x PROVE i \in 1..Len(p)
  <2>1. CASE i > Len(p)
    <3>1. i - Len(p) \in 1..Len(q) /\ (p \o q)[Len(p) + (i - Len(p))] = q[i - Len(p)]
      BY <1>1, <2>1
    <3>2. q[i - Len(p)] \in In(q) /\ Len(p) + (i - Len(p)) = i
      BY <1>1, <3>1 DEF In
    <3>3. QED
      BY <1>2, <3>1, <3>2
  <2>2. QED
    BY <1>1, <2>1
<1>3. {i \in DOMAIN (p \o q) : (p \o q)[i] = x} = {i \in DOMAIN p : p[i] = x}
  BY <1>1, <1>2
<1>4. QED
  BY <1>3 DEF Occurs

LEMMA BoundGrows ==
    ASSUME NEW l \in Nat, NEW m \in Nat, l <= m
    PROVE  \A n \in Nat : (n <= l => n <= m) /\ (n <= 1 + l => n <= 1 + m)
  OBVIOUS

LEMMA NextOthers ==
    TypeOK /\ LockState /\ SaveState /\ OthersState /\ [Next]_vars => OthersState'
<1> SUFFICES ASSUME TypeOK, LockState, SaveState, OthersState, [Next]_vars
             PROVE  OthersState'
  OBVIOUS
<1> DEFINE S == Others \cup Saving
<1>0. /\ Saver \notin Others /\ Threads = Others \cup {Saver}
      /\ DOMAIN pc = Threads
      /\ session \in [inTx : BOOLEAN, pending : Seq(S)]
      /\ ~session.inTx => session.pending = <<>>
      /\ durable \in Seq(S) /\ losses \in Nat
      /\ Others \cap Saving = {}
  BY DatabaseAssumption DEF TypeOK, Threads
<1>1. \A t : Times(t) = Occurs(durable, t) /\ Times(t)' = Occurs(durable', t)
             /\ Times(t) \in Nat
  <2>1. \A t : Times(t) = Occurs(durable, t) /\ Times(t)' = Occurs(durable', t)
    BY DEF Times, Occurs
  <2>2. \A t : Occurs(durable, t) \in Nat
    BY <1>0, OccursType
  <2>3. QED
    BY <2>1, <2>2
<1>2. ASSUME NEW t \in Threads, pc[t] = "query", ~Begins(t)
      PROVE  Statement(t) \in S /\ (t = Saver => Statement(t) \notin Others)
  BY <1>0, <1>2 DEF Statement, Begins, Saving, LockState, SaveState, TypeOK
\* What is pending may be committed, for what is not stray.
<1>3. \A t \in Others \ stray : Occurs(durable \o session.pending, t) = Times(t)
  BY <1>0, <1>1, OccursConcat DEF OthersState
<1> USE DEF OthersState
<1>4. CASE /\ UNCHANGED <<reported, stray, losses>>
           /\ \A u \in Others : pc'[u] = pc[u]
           /\ In(session'.pending) \subseteq In(session.pending)
           /\ durable' \in {durable, durable \o session.pending}
  <2>1. \A u \in Others \ stray : Times(u)' = Times(u)
    BY <1>1, <1>3, <1>4
  <2>2. QED
    BY <1>4, <2>1
<1>5. ASSUME NEW t \in Threads, Lock(t) \/ Execute(t) PROVE OthersState'
  <2>1. UNCHANGED <<session, durable, reported, stray, losses>>
    BY <1>5 DEF Lock, Execute
  <2>2. \A u \in Others : pc'[u] = pc[u] \/ (pc[u] = "idle" /\ pc'[u] = "lock")
                          \/ (pc[u] = "lock" /\ pc'[u] = "query")
    BY <1>0, <1>5 DEF Lock, Execute
  <2>3. \A u : Times(u)' = Times(u)
    BY <1>1, <2>1
  <2>4. \A u \in Others : pc'[u] # "done" => pc[u] # "done"
    BY <2>2
  <2>5. \A u \in Others \ stray : /\ pc'[u] \in {"idle", "lock"} => Times(u)' = 0
                                  /\ pc'[u] = "query" => Times(u)' <= losses
    BY <1>0, <2>2, <2>3
  <2>6. QED
    BY <2>1, <2>3, <2>4, <2>5
<1>6. ASSUME NEW t \in Others, QueryOk(t) PROVE OthersState'
  <2>1. /\ ~Begins(t) /\ Statement(t) = t /\ t # Saver /\ pc[t] = "query"
        /\ t \notin stray
    BY <1>0, <1>6 DEF Begins, Statement, QueryOk
  <2>2. /\ \A u \in Others : u # t => pc'[u] = pc[u]
        /\ pc'[t] = "done" /\ reported' = reported \cup {t}
        /\ stray' = IF pc[Saver] = "gap" THEN stray \cup {t} ELSE stray
        /\ losses' = losses
    BY <1>0, <1>6, <2>1 DEF QueryOk, QueryReturns, After
  <2>3. CASE session.inTx
    \* The lock is not the saver's, so it is between BEGIN and its lock.
    <3>1. pc[Saver] = "gap"
      BY <1>0, <1>6, <2>1, <2>3 DEF LockState, SaveState
    <3>2. session' = [session EXCEPT !.pending = Append(@, t)] /\ durable' = durable
      BY <1>6, <2>1, <2>3 DEF QueryOk, Executed
    <3>3. session'.pending = Append(session.pending, t)
      BY <1>0, <3>2
    <3>4. In(session'.pending) = In(session.pending) \cup {t}
      BY <1>0, <3>3, InAppend
    <3>5. \A u : Times(u)' = Times(u)
      BY <1>1, <3>2
    <3>6. QED
      BY <2>1, <2>2, <3>1, <3>4, <3>5
  <2>4. CASE ~session.inTx
    <3>1. session' = session /\ durable' = Append(durable, t)
      BY <1>6, <2>1, <2>4 DEF QueryOk, Executed
    <3>2. \A u \in Others : Times(u)' = Times(u) + (IF u = t THEN 1 ELSE 0)
      BY <1>0, <1>1, <3>1, OccursAppend
    <3>3. Times(t)' = Times(t) + 1 /\ \A u \in Others : u # t => Times(u)' = Times(u)
      BY <1>1, <3>2
    <3>4. QED
      BY <1>0, <1>1, <2>1, <2>2, <3>1, <3>3
  <2>5. QED
    BY <2>3, <2>4
<1>7. ASSUME QueryOk(Saver) PROVE OthersState'
  <2>1. /\ \A u \in Others : pc'[u] = pc[u]
        /\ reported' \cap Others = reported \cap Others
        /\ stray' = stray /\ losses' = losses
    <3>1. reported' = reported \/ (~Begins(Saver) /\ reported' = reported \cup {Statement(Saver)})
      BY <1>7 DEF QueryOk, QueryReturns
    <3>2. pc[Saver] = "query" /\ Saver \in Threads
      BY <1>0, <1>7 DEF QueryOk
    <3>3. reported' \cap Others = reported \cap Others
      BY <1>2, <3>1, <3>2
    <3>4. QED
      BY <1>0, <1>7, <3>3 DEF QueryOk, QueryReturns
  <2>2. /\ \A u \in Others \ stray : Times(u)' = Times(u)
        /\ In(session'.pending) \cap Others \subseteq In(session.pending)
    <3>1. CASE Begins(Saver)
      <4>1. session' = [inTx |-> TRUE, pending |-> <<>>] /\ durable' = durable \o session.pending
        BY <1>7, <3>1 DEF QueryOk, Executed
      <4>2. QED
        BY <1>1, <1>3, <4>1, InEmpty
    <3>2. CASE ~Begins(Saver)
      <4>0. Statement(Saver) \in S /\ Statement(Saver) \notin Others
        BY <1>0, <1>2, <1>7, <3>2 DEF QueryOk
      <4>1. CASE session.inTx
        <5>1. /\ session' = [session EXCEPT !.pending = Append(@, Statement(Saver))]
              /\ durable' = durable
          BY <1>7, <3>2, <4>1 DEF QueryOk, Executed
        <5>2. session'.pending = Append(session.pending, Statement(Saver))
          BY <1>0, <5>1
        <5>3. In(session'.pending) = In(session.pending) \cup {Statement(Saver)}
          BY <1>0, <4>0, <5>2, InAppend
        <5>4. QED
          BY <1>1, <4>0, <5>1, <5>3
      <4>2. CASE ~session.inTx
        <5>1. session' = session /\ durable' = Append(durable, Statement(Saver))
          BY <1>7, <3>2, <4>2 DEF QueryOk, Executed
        <5>2. \A u \in Others : Times(u)' = Times(u) + (IF u = Statement(Saver) THEN 1 ELSE 0)
          BY <1>0, <1>1, <4>0, <5>1, OccursAppend
        <5>3. \A u \in Others : Times(u)' = Times(u)
          BY <1>1, <4>0, <5>2
        <5>4. QED
          BY <5>1, <5>3
      <4>3. QED
        BY <4>1, <4>2
    <3>3. QED
      BY <3>1, <3>2
  <2>3. QED
    BY <2>1, <2>2
<1>8. ASSUME NEW t \in Threads, QueryFails(t) PROVE OthersState'
  <2>1. /\ UNCHANGED <<session, durable, reported, stray, losses>> /\ pc[t] = "query"
        /\ \A u \in Others : u # t => pc'[u] = pc[u]
        /\ t \in Others => pc'[t] = "done"
    BY <1>0, <1>8 DEF QueryFails, QueryReturns, After
  <2>2. \A u : Times(u)' = Times(u)
    BY <1>1, <2>1
  <2>3. QED
    BY <1>0, <2>1, <2>2
<1>9. ASSUME NEW t \in Threads, QueryLost(t) PROVE OthersState'
  <2>1. /\ UNCHANGED <<pc, reported, stray>> /\ losses' = losses + 1
        /\ session' = Fresh /\ pc[t] = "query"
    BY <1>9 DEF QueryLost
  <2>2. In(session'.pending) = {}
    BY <2>1, InEmpty DEF Fresh
  <2>3. CASE durable' = durable
    <3>1. \A u : Times(u)' = Times(u) /\ Times(u) \in Nat
      BY <1>1, <2>3
    <3>2. QED
      BY <1>0, <2>1, <2>2, <3>1
  <2>4. CASE ~Begins(t) /\ durable' = Append(durable, Statement(t))
    <3>1. Statement(t) \in S /\ (t = Saver => Statement(t) \notin Others)
      BY <1>2, <2>1, <2>4
    <3>2. \A u \in Others : Times(u)' = Times(u) + (IF u = Statement(t) THEN 1 ELSE 0)
      BY <1>0, <1>1, <2>4, <3>1, OccursAppend
    <3>3. \A u \in Others : u = Statement(t) => u = t
      BY <1>0, <3>1 DEF Statement
    <3>4. \A u \in Others : /\ Times(u)' \in {Times(u), Times(u) + 1}
                            /\ pc[u] # "query" => Times(u)' = Times(u)
      BY <1>1, <2>1, <3>2, <3>3
    <3>5. QED
      BY <1>0, <1>1, <2>1, <2>2, <3>4
  <2>5. QED
    BY <1>9, <2>3, <2>4 DEF QueryLost
<1>10. CASE SaveBegin \/ SaveLock \/ SaveStatement
  BY <1>0, <1>4, <1>10 DEF SaveBegin, SaveLock, SaveStatement
<1>11. CASE SaveRollback
  <2>1. session' = Fresh /\ UNCHANGED <<durable, reported, stray, losses>>
        /\ \A u \in Others : pc'[u] = pc[u]
    BY <1>0, <1>11 DEF SaveRollback, RolledBack
  <2>2. In(session'.pending) = {}
    BY <2>1, InEmpty DEF Fresh
  <2>3. QED
    BY <1>4, <2>1, <2>2
<1>12. CASE SaveCommit
  <2>1. /\ session' = Fresh /\ UNCHANGED <<reported, stray>>
        /\ pc' = [pc EXCEPT ![Saver] = "idle"]
        /\ durable' \in {durable, durable \o session.pending}
        /\ losses' \in {losses, losses + 1}
    BY <1>12 DEF SaveCommit
  <2>2. In(session'.pending) = {} /\ \A u \in Others : pc'[u] = pc[u]
    BY <1>0, <2>1, InEmpty DEF Fresh
  <2>3. \A u \in Others \ stray : Times(u)' = Times(u)
    BY <1>1, <1>3, <2>1
  <2>4. losses \in Nat /\ losses' \in Nat /\ losses <= losses'
    BY <1>0, <2>1
  <2>5. \A n \in Nat : (n <= losses => n <= losses') /\ (n <= 1 + losses => n <= 1 + losses')
    BY <2>4, BoundGrows
  <2>6. QED
    BY <1>1, <2>1, <2>2, <2>3, <2>5
<1>13. CASE UNCHANGED vars
  BY <1>4, <1>13 DEF vars
<1>14. QED
  BY <1>0, <1>5, <1>6, <1>7, <1>8, <1>9, <1>10, <1>11, <1>12, <1>13 DEF Next

-----------------------------------------------------------------------------
(* The theorems. *)

LEMMA InitRest == Init => Connected /\ OthersState
<1> SUFFICES ASSUME Init PROVE Connected /\ OthersState
  OBVIOUS
<1>1. In(durable) = {} /\ In(session.pending) = {}
  BY InEmpty DEF Init, Fresh
<1>2. \A t : Times(t) = 0
  <2>1. \A t : {i \in DOMAIN durable : durable[i] = t} = {}
    BY DEF Init
  <2>2. QED
    BY <2>1, FS_EmptySet DEF Times
<1>3. Connected
  BY <1>1, DatabaseAssumption DEF Init, Fresh, Connected, InSave, Ended, Absent, Threads
<1>4. OthersState
  BY <1>1, <1>2, DatabaseAssumption DEF Init, Fresh, OthersState, Threads
<1>5. QED
  BY <1>3, <1>4

\* While no connection has been lost every save is atomic, and complete when it
\* returned true, whatever statements are refused and whatever other threads
\* execute in between.
THEOREM SavesAtomic == Spec => []SaveAtomicConnected
<1>1. /\ TypeOK /\ LockState /\ SaveState /\ Connected /\ [Next]_vars => Connected'
      /\ TypeOK /\ LockState /\ SaveState /\ Connected => SaveAtomicConnected
  BY NextConnected, ConnectedIsAtomic
<1>2. QED
  BY <1>1, InitRest, Discipline, PTL DEF Spec

\* A statement another thread was told has succeeded is durable, once while no
\* connection is lost, unless it ran between BEGIN and the lock.
THEOREM ReportedDurable == Spec => []ReportedIsDurable
<1>1. OthersState => ReportedIsDurable
  BY DEF OthersState, ReportedIsDurable
<1>2. QED
  BY <1>1, InitRest, NextOthers, Discipline, PTL DEF Spec
=============================================================================
