---------------------------- MODULE AccountOrder ----------------------------
(***************************************************************************)
(* The handlers that change the order of a user's accounts                 *)
(* (internal/handlers/accounts.go) down to the statements they send        *)
(* through the pool of one connection (internal/db).  A statement outside  *)
(* of a transaction takes the connection and gives it back at once; the    *)
(* transaction of SwapAccountPositions keeps it from Begin to Commit or to *)
(* the deferred Rollback.  A crash loses what is not committed.            *)
(*                                                                         *)
(* UpdateAccount and UpdateBalance write other columns only and take one   *)
(* statement: they appear as the other requests that use the connection.   *)
(***************************************************************************)
EXTENDS Integers, FiniteSets

CONSTANTS Accounts,    \* ids of accounts, each given once
          Slots,       \* requests the server works on at the same time
          None,        \* no id, no holder, no value
          Ops,         \* operations exercised: create, update, delete, move
          DbMayFail    \* whether statements may fail

ASSUME NoneAssumption == None \notin Accounts \cup Slots

ASSUME FailAssumption == DbMayFail \in BOOLEAN

VARIABLES table,   \* committed rows: id -> position
          used,    \* ids given so far
          conn,    \* the slot whose transaction holds the connection, or None
          work,    \* the rows as that transaction sees them
          req      \* slot -> request

vars == <<table, used, conn, work, req>>
dbVars == <<table, used, conn, work>>

Idle == [pc |-> "idle", a |-> None, b |-> None, pos1 |-> 0, pos2 |-> 0, up |-> FALSE]

Request == [pc   : {"idle", "list", "insert", "update", "delete", "moveList", "begin",
                    "select", "first", "second", "commit", "render", "respond"},
            a    : Accounts \cup {None},
            b    : Accounts \cup {None},
            pos1 : Nat,
            pos2 : Nat,
            up   : BOOLEAN]

\* The holder of the connection is the one request inside a transaction.
TypeOK ==
    /\ used \subseteq Accounts
    /\ DOMAIN table \subseteq used
    /\ table \in [DOMAIN table -> Nat]
    /\ conn \in Slots \cup {None}
    /\ DOMAIN work \subseteq used
    /\ work \in [DOMAIN work -> Nat]
    /\ req \in [Slots -> Request]
    /\ \A r \in Slots :
         req[r].pc \in {"select", "first", "second", "commit"} <=> conn = r

Init ==
    /\ table = [a \in {} |-> 0]
    /\ used = {}
    /\ conn = None
    /\ work = [a \in {} |-> 0]
    /\ req = [r \in Slots |-> Idle]
-----------------------------------------------------------------------------
At(r, pc) == req[r].pc = pc

\* A statement outside of a transaction waits for the connection.
Free == conn = None

Goto(r, pc) == req' = [req EXCEPT ![r].pc = pc]

Respond(r) == req' = [req EXCEPT ![r] = [Idle EXCEPT !.pc = "respond"]]

\* ORDER BY position: rows with equal positions come in any order.
Listings ==
    {s \in [1..Cardinality(DOMAIN table) -> DOMAIN table] :
        \A i, j \in DOMAIN s : i < j => s[i] # s[j] /\ table[s[i]] <= table[s[j]]}

Submit(r) ==
    /\ req[r] = Idle
    /\ \/ "create" \in Ops /\ Goto(r, "list")
       \/ "update" \in Ops /\ Goto(r, "update")
       \/ /\ "delete" \in Ops
          /\ \E a \in used : req' = [req EXCEPT ![r] = [Idle EXCEPT !.pc = "delete", !.a = a]]
       \/ /\ "move" \in Ops
          /\ \E a \in used, up \in BOOLEAN :
               req' = [req EXCEPT ![r] = [Idle EXCEPT !.pc = "moveList", !.a = a, !.up = up]]
    /\ UNCHANGED dbVars

\* CreateAccount: the position is the length of a list read before, 0 when that
\* read fails (its error is ignored).
CreateList(r) ==
    /\ At(r, "list")
    /\ Free
    /\ \E n \in {Cardinality(DOMAIN table)} \cup (IF DbMayFail THEN {0} ELSE {}) :
         req' = [req EXCEPT ![r].pc = "insert", ![r].pos1 = n]
    /\ UNCHANGED dbVars

CreateInsert(r) ==
    /\ At(r, "insert")
    /\ Free
    /\ \E a \in Accounts \ used :
         /\ table' = [c \in DOMAIN table \cup {a} |-> IF c = a THEN req[r].pos1 ELSE table[c]]
         /\ used' = used \cup {a}
    /\ Goto(r, "render")
    /\ UNCHANGED <<conn, work>>

Update(r) ==
    /\ At(r, "update")
    /\ Free
    /\ Respond(r)
    /\ UNCHANGED dbVars

DeleteWrite(r) ==
    /\ At(r, "delete")
    /\ Free
    /\ table' = [c \in DOMAIN table \ {req[r].a} |-> table[c]]
    /\ Goto(r, "render")
    /\ UNCHANGED <<used, conn, work>>

\* MoveAccount: the neighbour is chosen in a list read before the transaction.
MoveList(r) ==
    /\ At(r, "moveList")
    /\ Free
    /\ \/ req[r].a \notin DOMAIN table /\ Respond(r)
       \/ \E s \in Listings, i \in 1..Cardinality(DOMAIN table) :
            LET j == IF req[r].up THEN i - 1 ELSE i + 1 IN
            /\ s[i] = req[r].a
            /\ IF j \in DOMAIN s
                 THEN req' = [req EXCEPT ![r].pc = "begin", ![r].b = s[j]]
                 ELSE Goto(r, "render")
    /\ UNCHANGED dbVars

Begin(r) ==
    /\ At(r, "begin")
    /\ Free
    /\ conn' = r
    /\ work' = table
    /\ Goto(r, "select")
    /\ UNCHANGED <<table, used>>

\* Mistake: the return on an error leaves the transaction open.
RollbackForgotten(r) ==
    /\ Respond(r)
    /\ UNCHANGED <<table, used, conn, work>>

\* The transaction ends without a commit: the connection is given back.
Rollback(r) ==
    /\ conn' = None
    /\ work' = [a \in {} |-> 0]
    /\ Respond(r)
    /\ UNCHANGED <<table, used>>

\* Either row may have been deleted since the list was read.
TxMissing(r) ==
    /\ At(r, "select")
    /\ ~({req[r].a, req[r].b} \subseteq DOMAIN work)
    /\ Rollback(r)

TxSelect(r) ==
    /\ At(r, "select")
    /\ {req[r].a, req[r].b} \subseteq DOMAIN work
    /\ req' = [req EXCEPT ![r].pc = "first", ![r].pos1 = work[req[r].a],
                          ![r].pos2 = work[req[r].b]]
    /\ UNCHANGED dbVars

\* Mistake: the first UPDATE is sent outside of the transaction.
TxFirstCommitted(r) ==
    /\ At(r, "first")
    /\ work' = [work EXCEPT ![req[r].a] = req[r].pos2]
    /\ table' = [table EXCEPT ![req[r].a] = req[r].pos2]
    /\ Goto(r, "second")
    /\ UNCHANGED <<used, conn>>

TxFirst(r) ==
    /\ At(r, "first")
    /\ work' = [work EXCEPT ![req[r].a] = req[r].pos2]
    /\ Goto(r, "second")
    /\ UNCHANGED <<table, used, conn>>

\* Mistake: the second row gets the position it had.
TxSecondSame(r) ==
    /\ At(r, "second")
    /\ work' = [work EXCEPT ![req[r].b] = req[r].pos2]
    /\ Goto(r, "commit")
    /\ UNCHANGED <<table, used, conn>>

TxSecond(r) ==
    /\ At(r, "second")
    /\ work' = [work EXCEPT ![req[r].b] = req[r].pos1]
    /\ Goto(r, "commit")
    /\ UNCHANGED <<table, used, conn>>

TxCommit(r) ==
    /\ At(r, "commit")
    /\ table' = work
    /\ conn' = None
    /\ work' = [a \in {} |-> 0]
    /\ Goto(r, "render")
    /\ UNCHANGED used

\* renderAccountsList reads the list again and ignores its errors.
Render(r) ==
    /\ At(r, "render")
    /\ Free
    /\ Respond(r)
    /\ UNCHANGED dbVars

\* A statement fails: the handler answers with an error.
Fail(r) ==
    /\ DbMayFail
    /\ \/ /\ req[r].pc \in {"insert", "update", "delete", "moveList", "begin"}
          /\ Free
          /\ Respond(r)
          /\ UNCHANGED dbVars
       \/ /\ req[r].pc \in {"select", "first", "second", "commit"}
          /\ Rollback(r)

Return(r) ==
    /\ At(r, "respond")
    /\ req' = [req EXCEPT ![r] = Idle]
    /\ UNCHANGED dbVars

Crash ==
    /\ \E r \in Slots : req[r] # Idle
    /\ conn' = None
    /\ work' = [a \in {} |-> 0]
    /\ req' = [r \in Slots |-> Idle]
    /\ UNCHANGED <<table, used>>

\* What the goroutine of a request does next.
Step(r) ==
    \/ CreateList(r) \/ CreateInsert(r)
    \/ Update(r)
    \/ DeleteWrite(r)
    \/ MoveList(r) \/ Begin(r) \/ TxMissing(r) \/ TxSelect(r)
    \/ TxFirst(r) \/ TxSecond(r) \/ TxCommit(r)
    \/ Render(r) \/ Fail(r) \/ Return(r)

Next == (\E r \in Slots : Submit(r) \/ Step(r)) \/ Crash

\* database/sql hands a free connection to a waiting request picked at random, so
\* none waits for ever while others get it.
Fairness == \A r \in Slots : SF_vars(Step(r))

Spec == Init /\ [][Next]_vars

FairSpec == Spec /\ Fairness
-----------------------------------------------------------------------------
\* The transaction makes MoveAccount an exchange of two positions, at once, with
\* the values of that instant, whatever is created and deleted meanwhile and
\* wherever a statement fails or the process dies.
Order == INSTANCE AccountPositions WITH position <- table

ImplementsExchange == Order!Spec

\* Every request comes to an end: no path of SwapAccountPositions keeps the only
\* connection of the pool.
RequestsEnd == \A r \in Slots : (req[r].pc # "idle") ~> (req[r].pc = "idle")
=============================================================================
