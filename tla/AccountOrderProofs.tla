------------------------- MODULE AccountOrderProofs -------------------------
(***************************************************************************)
(* Proofs about AccountOrder for any set of accounts and any number of     *)
(* requests: type correctness, which says that the connection is held by   *)
(* the one request inside a transaction, and the refinement of             *)
(* AccountPositions.                                                       *)
(***************************************************************************)
EXTENDS AccountOrder, FiniteSetTheorems, TLAPS

InTx == {"select", "first", "second", "commit"}

\* What the transaction of r has read and written so far.
TxProgress(r) ==
    LET a == req[r].a
        b == req[r].b IN
    /\ At(r, "select") => work = table
    /\ At(r, "first") =>
         /\ {a, b} \subseteq DOMAIN table
         /\ req[r].pos1 = table[a]
         /\ req[r].pos2 = table[b]
         /\ work = table
    /\ At(r, "second") =>
         /\ {a, b} \subseteq DOMAIN table
         /\ req[r].pos1 = table[a]
         /\ work = [table EXCEPT ![a] = table[b]]
    /\ At(r, "commit") =>
         /\ {a, b} \subseteq DOMAIN table
         /\ work = Order!Exchanged(table, a, b)

TxInvariant == \A r \in Slots : TxProgress(r)

\* TypeOK is not inductive by itself: that a position is a number when it is read
\* is, but what the transaction commits is known from what it has read.
Invariant == TypeOK /\ TxInvariant
-----------------------------------------------------------------------------
LEMMA IdleTyped ==
    ASSUME NEW q, q = [Idle EXCEPT !.pc = "respond"]
    PROVE  Idle \in Request /\ q \in Request /\ Idle.pc = "idle" /\ q.pc = "respond"
<1>1. Idle \in Request /\ Idle.pc = "idle"
  BY DEF Idle, Request
<1>2. q.pc = "respond" /\ q \in Request
  BY <1>1 DEF Request
<1> QED
  BY <1>1, <1>2

\* A request goes on outside of a transaction and the database is left alone.
LEMMA RequestStep ==
    ASSUME Invariant, NEW r \in Slots, NEW q \in Request, req' = [req EXCEPT ![r] = q],
           req[r].pc \notin InTx, q.pc \notin InTx, UNCHANGED dbVars
    PROVE  Invariant'
<1>1. req'[r] = q /\ \A s \in Slots \ {r} : req'[s] = req[s]
  BY DEF Invariant, TypeOK
<1>2. TypeOK'
  BY <1>1 DEF Invariant, TypeOK, dbVars, InTx
<1>3. TxInvariant'
  BY <1>1 DEF Invariant, TxInvariant, TxProgress, At, dbVars, InTx
<1> QED
  BY <1>2, <1>3 DEF Invariant

\* A statement outside of a transaction: nobody is inside one.
LEMMA StatementStep ==
    ASSUME Invariant, NEW r \in Slots, NEW q \in Request, req' = [req EXCEPT ![r] = q],
           Free, conn' = conn, work' = work, q.pc \notin InTx,
           table' \in [DOMAIN table' -> Nat], DOMAIN table' \subseteq used',
           used \subseteq used', used' \subseteq Accounts
    PROVE  Invariant'
<1>1. req'[r] = q /\ \A s \in Slots \ {r} : req'[s] = req[s]
  BY DEF Invariant, TypeOK
<1>2. \A s \in Slots : req'[s].pc \notin InTx
  BY <1>1, NoneAssumption DEF Invariant, TypeOK, Free, InTx
<1>3. TypeOK'
  BY <1>1, <1>2, NoneAssumption DEF Invariant, TypeOK, Free, InTx
<1>4. TxInvariant'
  BY <1>2 DEF TxInvariant, TxProgress, At, InTx
<1> QED
  BY <1>3, <1>4 DEF Invariant

\* The transaction of r goes on.
LEMMA TxStep ==
    ASSUME Invariant, NEW r \in Slots, NEW q \in Request, req' = [req EXCEPT ![r] = q],
           conn \in {r, None}, conn' = r, q.pc \in InTx,
           UNCHANGED <<table, used>>, work' \in [DOMAIN work' -> Nat],
           DOMAIN work' \subseteq used, TxProgress(r)'
    PROVE  Invariant'
<1>1. req'[r] = q /\ \A s \in Slots \ {r} : req'[s] = req[s]
  BY DEF Invariant, TypeOK
<1>2. \A s \in Slots \ {r} : req'[s].pc \notin InTx
  BY <1>1, NoneAssumption DEF Invariant, TypeOK, InTx
<1>3. TypeOK'
  BY <1>1, <1>2 DEF Invariant, TypeOK, InTx
<1>4. \A s \in Slots \ {r} : TxProgress(s)'
  BY <1>2 DEF TxProgress, At, InTx
<1> QED
  BY <1>3, <1>4 DEF Invariant, TxInvariant

\* The transaction of r ends.
LEMMA TxEnd ==
    ASSUME Invariant, NEW r \in Slots, NEW q \in Request, req' = [req EXCEPT ![r] = q],
           conn = r, conn' = None, q.pc \notin InTx, work' = [a \in {} |-> 0],
           used' = used, table' \in [DOMAIN table' -> Nat], DOMAIN table' \subseteq used
    PROVE  Invariant'
<1>1. req'[r] = q /\ \A s \in Slots \ {r} : req'[s] = req[s]
  BY DEF Invariant, TypeOK
<1>2. \A s \in Slots : req'[s].pc \notin InTx
  BY <1>1 DEF Invariant, TypeOK, InTx
<1>3. DOMAIN work' = {} /\ work' \in [DOMAIN work' -> Nat]
  OBVIOUS
<1>4. TypeOK'
  BY <1>1, <1>2, <1>3, NoneAssumption DEF Invariant, TypeOK, InTx
<1>5. TxInvariant'
  BY <1>2 DEF TxInvariant, TxProgress, At, InTx
<1> QED
  BY <1>4, <1>5 DEF Invariant
-----------------------------------------------------------------------------
LEMMA InitInvariant == Init => Invariant
<1> SUFFICES ASSUME Init PROVE Invariant
  OBVIOUS
<1>1. \A r \in Slots : req[r] = Idle /\ req[r].pc = "idle"
  BY DEF Init, Idle
<1>2. DOMAIN table = {} /\ table \in [DOMAIN table -> Nat]
  BY DEF Init
<1>3. DOMAIN work = {} /\ work \in [DOMAIN work -> Nat]
  BY DEF Init
<1>4. req \in [Slots -> Request]
  BY IdleTyped DEF Init
<1>5. TypeOK
  BY <1>1, <1>2, <1>3, <1>4, NoneAssumption DEF Init, TypeOK
<1>6. TxInvariant
  BY <1>1 DEF TxInvariant, TxProgress, At
<1> QED
  BY <1>5, <1>6 DEF Invariant
-----------------------------------------------------------------------------
\* What the record updates of the actions make of a request.
LEMMA AtPc ==
    ASSUME NEW q \in Request,
           NEW pc \in {"idle", "list", "insert", "update", "delete", "moveList", "begin",
                       "select", "first", "second", "commit", "render", "respond"},
           NEW p, p = [q EXCEPT !.pc = pc]
    PROVE  /\ p \in Request
           /\ p.pc = pc /\ p.a = q.a /\ p.b = q.b /\ p.pos1 = q.pos1 /\ p.pos2 = q.pos2
<1>1. p.pc = pc /\ p.a = q.a /\ p.b = q.b /\ p.pos1 = q.pos1 /\ p.pos2 = q.pos2
  BY DEF Request
<1>2. p \in Request
  BY DEF Request
<1> QED
  BY <1>1, <1>2

LEMMA RespondStep ==
    ASSUME Invariant, NEW r \in Slots, Respond(r), UNCHANGED dbVars, req[r].pc \notin InTx
    PROVE  Invariant'
<1> DEFINE q == [Idle EXCEPT !.pc = "respond"]
<1>1. q \in Request /\ q.pc = "respond"
  BY IdleTyped
<1>2. req' = [req EXCEPT ![r] = q]
  BY DEF Respond
<1> HIDE DEF q
<1> QED
  BY <1>1, <1>2, RequestStep DEF InTx

LEMMA RollbackStep ==
    ASSUME Invariant, NEW r \in Slots, Rollback(r), req[r].pc \in InTx
    PROVE  Invariant'
<1> DEFINE q == [Idle EXCEPT !.pc = "respond"]
<1>1. q \in Request /\ q.pc = "respond"
  BY IdleTyped
<1>2. req' = [req EXCEPT ![r] = q]
  BY DEF Rollback, Respond
<1>3. conn = r /\ table \in [DOMAIN table -> Nat] /\ DOMAIN table \subseteq used
  BY DEF Invariant, TypeOK, InTx
<1> HIDE DEF q
<1> QED
  BY <1>1, <1>2, <1>3, TxEnd DEF Rollback, InTx

\* A request goes on to pc with its fields as they are.
LEMMA GotoStep ==
    ASSUME Invariant, NEW r \in Slots,
           NEW pc \in {"list", "insert", "update", "delete", "moveList", "begin", "render"},
           Goto(r, pc), UNCHANGED dbVars, req[r].pc \notin InTx
    PROVE  Invariant'
<1> DEFINE q == [req[r] EXCEPT !.pc = pc]
<1>1. req[r] \in Request
  BY DEF Invariant, TypeOK
<1>2. q \in Request /\ q.pc = pc
  BY <1>1, AtPc
<1>3. req' = [req EXCEPT ![r] = q]
  BY DEF Goto
<1> HIDE DEF q
<1> QED
  BY <1>2, <1>3, RequestStep DEF InTx

LEMMA SubmitStep ==
    ASSUME Invariant, NEW r \in Slots, Submit(r)
    PROVE  Invariant'
<1>1. req[r].pc \notin InTx /\ UNCHANGED dbVars
  BY IdleTyped DEF Submit, InTx
<1>2. CASE Goto(r, "list")
  BY <1>1, <1>2, GotoStep
<1>3. CASE Goto(r, "update")
  BY <1>1, <1>3, GotoStep
<1>4. ASSUME NEW a \in used, req' = [req EXCEPT ![r] = [Idle EXCEPT !.pc = "delete", !.a = a]]
      PROVE  Invariant'
  <2> DEFINE q == [Idle EXCEPT !.pc = "delete", !.a = a]
  <2>1. q \in Request /\ q.pc = "delete"
    BY DEF Idle, Request, Invariant, TypeOK
  <2> HIDE DEF q
  <2> QED
    BY <1>1, <1>4, <2>1, RequestStep DEF InTx, q
<1>5. ASSUME NEW a \in used, NEW up \in BOOLEAN,
             req' = [req EXCEPT ![r] = [Idle EXCEPT !.pc = "moveList", !.a = a, !.up = up]]
      PROVE  Invariant'
  <2> DEFINE q == [Idle EXCEPT !.pc = "moveList", !.a = a, !.up = up]
  <2>1. q \in Request /\ q.pc = "moveList"
    BY DEF Idle, Request, Invariant, TypeOK
  <2> HIDE DEF q
  <2> QED
    BY <1>1, <1>5, <2>1, RequestStep DEF InTx, q
<1> QED
  BY <1>2, <1>3, <1>4, <1>5 DEF Submit
-----------------------------------------------------------------------------
\* The length of a list is a number because ids are given one at a time.
LEMMA CreateListStep ==
    ASSUME Invariant, IsFiniteSet(used), NEW r \in Slots, CreateList(r)
    PROVE  Invariant'
<1>1. Cardinality(DOMAIN table) \in Nat
  BY FS_Subset, FS_CardinalityType DEF Invariant, TypeOK
<1>2. PICK n \in Nat : req' = [req EXCEPT ![r].pc = "insert", ![r].pos1 = n]
  BY <1>1 DEF CreateList
<1> DEFINE q == [req[r] EXCEPT !.pc = "insert", !.pos1 = n]
<1>3. req[r] \in Request
  BY DEF Invariant, TypeOK
<1>4. q \in Request /\ q.pc = "insert"
  BY <1>3 DEF Request
<1>5. req' = [req EXCEPT ![r] = q]
  BY <1>2
<1> HIDE DEF q
<1> QED
  BY <1>4, <1>5, RequestStep DEF CreateList, At, InTx

LEMMA CreateInsertStep ==
    ASSUME Invariant, NEW r \in Slots, CreateInsert(r)
    PROVE  Invariant'
<1>1. PICK a \in Accounts \ used :
        /\ table' = [c \in DOMAIN table \cup {a} |-> IF c = a THEN req[r].pos1 ELSE table[c]]
        /\ used' = used \cup {a}
  BY DEF CreateInsert
<1> DEFINE q == [req[r] EXCEPT !.pc = "render"]
<1>2. req[r] \in Request
  BY DEF Invariant, TypeOK
<1>3. q \in Request /\ q.pc = "render"
  BY <1>2, AtPc
<1>4. req' = [req EXCEPT ![r] = q]
  BY DEF CreateInsert, Goto
<1>5. DOMAIN table' = DOMAIN table \cup {a} /\ table' \in [DOMAIN table' -> Nat]
  BY <1>1, <1>2 DEF Invariant, TypeOK, Request
<1> HIDE DEF q
<1> QED
  BY <1>1, <1>3, <1>4, <1>5, StatementStep DEF CreateInsert, Invariant, TypeOK, InTx

LEMMA DeleteWriteStep ==
    ASSUME Invariant, NEW r \in Slots, DeleteWrite(r)
    PROVE  Invariant'
<1> DEFINE q == [req[r] EXCEPT !.pc = "render"]
<1>1. q \in Request /\ q.pc = "render"
  BY AtPc DEF Invariant, TypeOK
<1>2. req' = [req EXCEPT ![r] = q]
  BY DEF DeleteWrite, Goto
<1>3. DOMAIN table' = DOMAIN table \ {req[r].a} /\ table' \in [DOMAIN table' -> Nat]
  BY DEF DeleteWrite, Invariant, TypeOK
<1> HIDE DEF q
<1> QED
  BY <1>1, <1>2, <1>3, StatementStep DEF DeleteWrite, Invariant, TypeOK, InTx

LEMMA MoveListStep ==
    ASSUME Invariant, NEW r \in Slots, MoveList(r)
    PROVE  Invariant'
<1>1. req[r].pc \notin InTx /\ UNCHANGED dbVars
  BY DEF MoveList, At, InTx
<1>2. CASE Respond(r)
  BY <1>1, <1>2, RespondStep
<1>3. CASE Goto(r, "render")
  BY <1>1, <1>3, GotoStep
<1>4. ASSUME NEW b \in DOMAIN table, req' = [req EXCEPT ![r].pc = "begin", ![r].b = b]
      PROVE  Invariant'
  <2> DEFINE q == [req[r] EXCEPT !.pc = "begin", !.b = b]
  <2>1. req[r] \in Request /\ b \in Accounts
    BY DEF Invariant, TypeOK
  <2>2. q \in Request /\ q.pc = "begin"
    BY <2>1 DEF Request
  <2>3. req' = [req EXCEPT ![r] = q]
    BY <1>4
  <2> HIDE DEF q
  <2> QED
    BY <1>1, <2>2, <2>3, RequestStep DEF InTx
<1>5. ASSUME NEW s \in Listings, NEW j \in DOMAIN s
      PROVE  s[j] \in DOMAIN table
  BY DEF Listings
<1> QED
  BY <1>2, <1>3, <1>4, <1>5 DEF MoveList

LEMMA BeginStep ==
    ASSUME Invariant, NEW r \in Slots, Begin(r)
    PROVE  Invariant'
<1> DEFINE q == [req[r] EXCEPT !.pc = "select"]
<1>1. q \in Request /\ q.pc = "select"
  BY AtPc DEF Invariant, TypeOK
<1>2. req' = [req EXCEPT ![r] = q]
  BY DEF Begin, Goto
<1>3. req'[r] = q
  BY <1>2 DEF Invariant, TypeOK
<1> HIDE DEF q
<1>4. TxProgress(r)'
  BY <1>1, <1>3 DEF Begin, TxProgress, At
<1> QED
  BY <1>1, <1>2, <1>4, TxStep DEF Begin, Free, Invariant, TypeOK, InTx

LEMMA TxSelectStep ==
    ASSUME Invariant, NEW r \in Slots, TxSelect(r)
    PROVE  Invariant'
<1>1. /\ req[r] \in Request /\ conn = r /\ work = table
      /\ {req[r].a, req[r].b} \subseteq DOMAIN table
      /\ table \in [DOMAIN table -> Nat]
  BY DEF TxSelect, At, Invariant, TypeOK, TxInvariant, TxProgress
<1> DEFINE q == [req[r] EXCEPT !.pc = "first", !.pos1 = work[req[r].a], !.pos2 = work[req[r].b]]
<1>2. /\ q.pc = "first" /\ q.a = req[r].a /\ q.b = req[r].b
      /\ q.pos1 = table[req[r].a] /\ q.pos2 = table[req[r].b]
  BY <1>1 DEF Request
<1>3. ASSUME NEW m \in Nat, NEW n \in Nat
      PROVE  [req[r] EXCEPT !.pc = "first", !.pos1 = m, !.pos2 = n] \in Request
  BY <1>1 DEF Request
<1>4. q \in Request
  BY <1>1, <1>3
<1>5. req' = [req EXCEPT ![r] = q]
  BY DEF TxSelect
<1> HIDE DEF q
<1>6. req'[r] = q
  BY <1>5 DEF Invariant, TypeOK
<1>7. TxProgress(r)'
  BY <1>1, <1>2, <1>6 DEF TxSelect, dbVars, TxProgress, At
<1> QED
  BY <1>1, <1>2, <1>4, <1>5, <1>7, TxStep DEF TxSelect, dbVars, Invariant, TypeOK, InTx

LEMMA TxFirstStep ==
    ASSUME Invariant, NEW r \in Slots, TxFirst(r)
    PROVE  Invariant'
<1>1. /\ req[r] \in Request /\ conn = r /\ work = table
      /\ {req[r].a, req[r].b} \subseteq DOMAIN table
      /\ req[r].pos1 = table[req[r].a] /\ req[r].pos2 = table[req[r].b]
      /\ table \in [DOMAIN table -> Nat]
  BY DEF TxFirst, At, Invariant, TypeOK, TxInvariant, TxProgress
<1> DEFINE q == [req[r] EXCEPT !.pc = "second"]
<1>2. q \in Request /\ q.pc = "second" /\ q.a = req[r].a /\ q.b = req[r].b /\ q.pos1 = req[r].pos1
  BY <1>1, AtPc
<1>3. req' = [req EXCEPT ![r] = q]
  BY DEF TxFirst, Goto
<1> HIDE DEF q
<1>4. req'[r] = q
  BY <1>3 DEF Invariant, TypeOK
<1>5. work' = [table EXCEPT ![req[r].a] = table[req[r].b]]
  BY <1>1 DEF TxFirst
<1>6. work' \in [DOMAIN work' -> Nat] /\ DOMAIN work' \subseteq used
  BY <1>1, <1>5 DEF Invariant, TypeOK
<1>7. TxProgress(r)'
  BY <1>1, <1>2, <1>4, <1>5 DEF TxFirst, TxProgress, At
<1> QED
  BY <1>1, <1>2, <1>3, <1>6, <1>7, TxStep DEF TxFirst, InTx

LEMMA TxSecondStep ==
    ASSUME Invariant, NEW r \in Slots, TxSecond(r)
    PROVE  Invariant'
<1>1. /\ req[r] \in Request /\ conn = r
      /\ {req[r].a, req[r].b} \subseteq DOMAIN table
      /\ req[r].pos1 = table[req[r].a]
      /\ work = [table EXCEPT ![req[r].a] = table[req[r].b]]
      /\ table \in [DOMAIN table -> Nat]
  BY DEF TxSecond, At, Invariant, TypeOK, TxInvariant, TxProgress
<1> DEFINE q == [req[r] EXCEPT !.pc = "commit"]
<1>2. q \in Request /\ q.pc = "commit" /\ q.a = req[r].a /\ q.b = req[r].b
  BY <1>1, AtPc
<1>3. req' = [req EXCEPT ![r] = q]
  BY DEF TxSecond, Goto
<1> HIDE DEF q
<1>4. req'[r] = q
  BY <1>3 DEF Invariant, TypeOK
<1>5. work' = Order!Exchanged(table, req[r].a, req[r].b)
  BY <1>1 DEF TxSecond, Order!Exchanged
<1>6. work' \in [DOMAIN work' -> Nat] /\ DOMAIN work' \subseteq used
  BY <1>1, <1>5 DEF Invariant, TypeOK, Order!Exchanged
<1>7. TxProgress(r)'
  BY <1>1, <1>2, <1>4, <1>5 DEF TxSecond, TxProgress, At
<1> QED
  BY <1>1, <1>2, <1>3, <1>6, <1>7, TxStep DEF TxSecond, InTx

LEMMA TxCommitStep ==
    ASSUME Invariant, NEW r \in Slots, TxCommit(r)
    PROVE  Invariant'
<1> DEFINE q == [req[r] EXCEPT !.pc = "render"]
<1>1. q \in Request /\ q.pc = "render"
  BY AtPc DEF Invariant, TypeOK
<1>2. req' = [req EXCEPT ![r] = q]
  BY DEF TxCommit, Goto
<1> HIDE DEF q
<1> QED
  BY <1>1, <1>2, TxEnd DEF TxCommit, At, Invariant, TypeOK, InTx

LEMMA FailStep ==
    ASSUME Invariant, NEW r \in Slots, Fail(r)
    PROVE  Invariant'
<1>1. CASE /\ req[r].pc \in {"insert", "update", "delete", "moveList", "begin"}
           /\ Respond(r)
           /\ UNCHANGED dbVars
  BY <1>1, RespondStep DEF InTx
<1>2. CASE req[r].pc \in {"select", "first", "second", "commit"} /\ Rollback(r)
  BY <1>2, RollbackStep DEF InTx
<1> QED
  BY <1>1, <1>2 DEF Fail

LEMMA ReturnStep ==
    ASSUME Invariant, NEW r \in Slots, Return(r)
    PROVE  Invariant'
<1>1. Idle \in Request /\ Idle.pc = "idle"
  BY IdleTyped
<1>2. req[r].pc \notin InTx /\ UNCHANGED dbVars /\ req' = [req EXCEPT ![r] = Idle]
  BY DEF Return, At, InTx
<1> QED
  BY <1>1, <1>2, RequestStep DEF InTx

LEMMA CrashStep ==
    ASSUME Invariant, Crash
    PROVE  Invariant'
<1>1. \A r \in Slots : req'[r] = Idle /\ req'[r].pc = "idle"
  BY IdleTyped DEF Crash
<1>2. DOMAIN work' = {} /\ work' \in [DOMAIN work' -> Nat]
  BY DEF Crash
<1>3. req' \in [Slots -> Request]
  BY IdleTyped DEF Crash
<1>4. TypeOK'
  BY <1>1, <1>2, <1>3, NoneAssumption DEF Crash, Invariant, TypeOK
<1>5. TxInvariant'
  BY <1>1 DEF TxInvariant, TxProgress, At
<1> QED
  BY <1>4, <1>5 DEF Invariant

\* The inductive step, action by action.
LEMMA NextInvariant ==
    ASSUME Invariant, IsFiniteSet(used), [Next]_vars
    PROVE  Invariant' /\ IsFiniteSet(used')
<1>1. CASE UNCHANGED vars
  BY <1>1 DEF vars, Invariant, TypeOK, TxInvariant, TxProgress, At
<1>2. CASE Crash
  BY <1>2, CrashStep DEF Crash
<1>3. ASSUME NEW r \in Slots, Submit(r)
      PROVE  Invariant' /\ IsFiniteSet(used')
  BY <1>3, SubmitStep DEF Submit, dbVars
<1>4. ASSUME NEW r \in Slots, Step(r)
      PROVE  Invariant'
  <2>1. CASE CreateList(r)
    BY <2>1, CreateListStep
  <2>2. CASE CreateInsert(r)
    BY <2>2, CreateInsertStep
  <2>3. CASE Update(r)
    BY <2>3, RespondStep DEF Update, At, InTx
  <2>4. CASE DeleteWrite(r)
    BY <2>4, DeleteWriteStep
  <2>5. CASE MoveList(r)
    BY <2>5, MoveListStep
  <2>6. CASE Begin(r)
    BY <2>6, BeginStep
  <2>7. CASE TxMissing(r)
    BY <2>7, RollbackStep DEF TxMissing, At, InTx
  <2>8. CASE TxSelect(r)
    BY <2>8, TxSelectStep
  <2>9. CASE TxFirst(r)
    BY <2>9, TxFirstStep
  <2>10. CASE TxSecond(r)
    BY <2>10, TxSecondStep
  <2>11. CASE TxCommit(r)
    BY <2>11, TxCommitStep
  <2>12. CASE Render(r)
    BY <2>12, RespondStep DEF Render, At, InTx
  <2>13. CASE Fail(r)
    BY <2>13, FailStep
  <2>14. CASE Return(r)
    BY <2>14, ReturnStep
  <2> QED
    BY <1>4, <2>1, <2>2, <2>3, <2>4, <2>5, <2>6, <2>7, <2>8, <2>9, <2>10, <2>11, <2>12, <2>13,
       <2>14 DEF Step
<1>5. ASSUME NEW r \in Slots, Step(r)
      PROVE  used' = used \/ \E a \in Accounts : used' = used \cup {a}
  BY <1>5 DEF Step, CreateList, CreateInsert, Update, DeleteWrite, MoveList, Begin, TxMissing,
              TxSelect, TxFirst, TxSecond, TxCommit, Render, Fail, Return, Rollback, dbVars
<1>6. ASSUME NEW r \in Slots, Step(r)
      PROVE  IsFiniteSet(used')
  BY <1>5, <1>6, FS_AddElement
<1> QED
  BY <1>1, <1>2, <1>3, <1>4, <1>6 DEF Next
-----------------------------------------------------------------------------
LEMMA InvariantHolds == Spec => [](Invariant /\ IsFiniteSet(used))
<1>1. Init => Invariant /\ IsFiniteSet(used)
  BY InitInvariant, FS_EmptySet DEF Init
<1>2. Invariant /\ IsFiniteSet(used) /\ [Next]_vars => (Invariant /\ IsFiniteSet(used))'
  BY NextInvariant
<1> QED
  BY <1>1, <1>2, PTL DEF Spec

\* The variables have their types and the connection is held by the one request
\* inside a transaction, for any accounts and any number of requests.
THEOREM TypeCorrect == Spec => []TypeOK
<1>1. Invariant => TypeOK
  BY DEF Invariant
<1> QED
  BY <1>1, InvariantHolds, PTL

\* What a request does to the committed rows is a step of AccountPositions or none.
LEMMA StepSimulates ==
    ASSUME Invariant, NEW r \in Slots, Step(r)
    PROVE  [Order!Next]_table
<1>1. CASE CreateInsert(r)
  <2>1. PICK a \in Accounts \ used :
          table' = [c \in DOMAIN table \cup {a} |-> IF c = a THEN req[r].pos1 ELSE table[c]]
    BY <1>1 DEF CreateInsert
  <2>2. a \notin DOMAIN table /\ table \in [DOMAIN table -> Nat] /\ req[r].pos1 \in Nat
    BY DEF Invariant, TypeOK, Request
  <2>3. DOMAIN table' = DOMAIN table \cup {a}
    BY <2>1
  <2>4. table' \in [DOMAIN table' -> Nat]
    BY <2>1, <2>2, <2>3
  <2>5. \A c \in DOMAIN table : table'[c] = table[c]
    BY <2>1, <2>2
  <2>6. Order!Add(a)
    BY <2>2, <2>3, <2>4, <2>5 DEF Order!Add
  <2> QED
    BY <2>6 DEF Order!Next
<1>2. CASE DeleteWrite(r)
  <2>1. table' = [c \in DOMAIN table \ {req[r].a} |-> table[c]]
    BY <1>2 DEF DeleteWrite
  <2>2. CASE req[r].a \in Accounts
    BY <2>1, <2>2 DEF Order!Next, Order!Remove
  <2>3. CASE req[r].a = None
    <3>1. DOMAIN table \ {None} = DOMAIN table /\ table \in [DOMAIN table -> Nat]
      BY NoneAssumption DEF Invariant, TypeOK
    <3> QED
      BY <2>1, <2>3, <3>1
  <2> QED
    BY <2>2, <2>3 DEF Invariant, TypeOK, Request
<1>3. CASE TxCommit(r)
  <2>1. /\ {req[r].a, req[r].b} \subseteq DOMAIN table
        /\ table' = Order!Exchanged(table, req[r].a, req[r].b)
    BY <1>3 DEF TxCommit, Invariant, TxInvariant, TxProgress, At
  <2>2. req[r].a \in Accounts /\ req[r].b \in Accounts
    BY <2>1 DEF Invariant, TypeOK
  <2>3. Order!Swap(req[r].a, req[r].b)
    BY <2>1 DEF Order!Swap
  <2> QED
    BY <2>2, <2>3 DEF Order!Next
<1>4. CASE \/ CreateList(r) \/ Update(r) \/ MoveList(r) \/ Begin(r) \/ TxMissing(r) \/ TxSelect(r)
           \/ TxFirst(r) \/ TxSecond(r) \/ Render(r) \/ Fail(r) \/ Return(r)
  <2>1. table' = table
    BY <1>4 DEF CreateList, Update, MoveList, Begin, TxMissing, TxSelect, TxFirst, TxSecond,
                Render, Fail, Return, Rollback, dbVars
  <2> QED
    BY <2>1
<1> QED
  BY <1>1, <1>2, <1>3, <1>4 DEF Step

\* The transaction makes a move one exchange of two positions with their values of
\* that instant, whatever other requests do, fail or lose in a crash.
THEOREM PositionsAreExchanged == Spec => ImplementsExchange
<1>1. Init => Order!Init
  BY DEF Init, Order!Init
<1>2. Invariant /\ [Next]_vars => [Order!Next]_table
  <2> SUFFICES ASSUME Invariant, [Next]_vars PROVE [Order!Next]_table
    OBVIOUS
  <2>1. CASE UNCHANGED vars
    BY <2>1 DEF vars
  <2>2. CASE Crash
    BY <2>2 DEF Crash
  <2>3. ASSUME NEW r \in Slots, Submit(r) PROVE [Order!Next]_table
    BY <2>3 DEF Submit, dbVars
  <2>4. ASSUME NEW r \in Slots, Step(r) PROVE [Order!Next]_table
    BY <2>4, StepSimulates
  <2> QED
    BY <2>1, <2>2, <2>3, <2>4 DEF Next
<1> QED
  BY <1>1, <1>2, InvariantHolds, PTL DEF Spec, ImplementsExchange, Order!Spec
=============================================================================
