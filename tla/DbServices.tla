----------------------------- MODULE DbServices -----------------------------
(***************************************************************************)
(* The services of the repository that keep their data in a relational     *)
(* database, some of them with a Redis cache beside it:                    *)
(*   "dcuser"   UserController and UserService of distributed_calc;        *)
(*   "mybatis"  UserService of use-mybatis-spring;                         *)
(*   "app"      AppService of use-spring/mix-javaxml-jdbc;                 *)
(*   "jdbc"     UseCommit of use-jdbc/jdbc-commit;                         *)
(*   "account"  AccountService of use-mybatis-redis-spring;                *)
(*   "trade"    TradeService of use-mybatis-redis-spring;                  *)
(*   "balance"  BalanceService behind db_utils_wrapper of py/aop-db;       *)
(*   "sync"     sync() over DbUtils.batch_insert of py/mul_datasource_db.  *)
(* Every one of them writes a row of a main table and a row of a side      *)
(* table that belongs to it (user and authority, account_info and          *)
(* account_passwd, user and player), or that its caller gives with it (the *)
(* level of "mybatis"), or rows of one table.  Requests run on several     *)
(* threads, one statement a step.  A write, a commit or a cache            *)
(* operation may fail, MaxFaults times in a behaviour; a commit that fails *)
(* may or may not have happened.                                           *)
(*                                                                         *)
(* The database is external: a transaction sees its own writes, a          *)
(* statement waits for a row or a unique name another transaction has      *)
(* written, a closed connection rolls back.                                *)
(***************************************************************************)
EXTENDS Naturals, Sequences, FiniteSets, Functions, TLC

CONSTANTS Threads,    \* the request threads
          Names,      \* user names, phones or record ids: the unique column
          MaxId,      \* bound: ids AUTO_INCREMENT hands out
          MaxFaults,  \* bound: failures of the database or of Redis
          Users,      \* bound: rows the product source holds for sync()
          Batch,      \* rows a batch of batch_insert
          Kinds       \* the services the run is about

VARIABLES svc,      \* the service of this behaviour
          pc,       \* per thread: the next step of its request, or "idle"
          req,      \* per thread: [op, name, to, id, level]
          main,     \* committed rows of the main table: id -> row
          side,     \* committed rows of the side table: id -> value
          tx,       \* per thread: its uncommitted writes
          cache,    \* ids of accounts or trade records cached in Redis
          nextId,   \* the next AUTO_INCREMENT value
          faults,   \* failures left
          answer    \* per thread: what its last request returned

vars == <<svc, pc, req, main, side, tx, cache, nextId, faults, answer>>
store == <<main, side>>

NoTx == [add |-> <<>>, addS |-> <<>>, del |-> {}, delS |-> {}]
NoReq == [op |-> "none", name |-> "none", to |-> "none", id |-> 0, level |-> 0]

(***************************************************************************)
(* The database.                                                           *)
(***************************************************************************)
Minus(f, S) == Restrict(f, DOMAIN f \ S)
Seen(t)  == Minus(tx[t].add @@ main, tx[t].del)
SeenS(t) == Minus(tx[t].addS @@ side, tx[t].delS)
Touched(t) == DOMAIN tx[t].add \cup tx[t].del \cup DOMAIN tx[t].addS \cup tx[t].delS
NamesOf(t) == {tx[t].add[i].name : i \in DOMAIN tx[t].add}
                \cup {main[i].name : i \in tx[t].del \cap DOMAIN main}

IdFree(t, i) == \A u \in Threads \ {t} : i \notin Touched(u)
NameFree(t, n) == \A u \in Threads \ {t} : n \notin NamesOf(u)
Taken(t, n) == \E i \in DOMAIN Seen(t) : Seen(t)[i].name = n
Row(n) == [name |-> n, pwd |-> "old", status |-> "normal"]

\* The request of t ends with answer a; what it had not committed is undone.
Ends(t, a) == /\ pc' = [pc EXCEPT ![t] = "idle"]
              /\ answer' = [answer EXCEPT ![t] = a]
              /\ tx' = [tx EXCEPT ![t] = NoTx]
              /\ req' = [req EXCEPT ![t] = NoReq]

Goes(t, l) == /\ pc' = [pc EXCEPT ![t] = l]
              /\ UNCHANGED <<answer, req>>

\* A statement of t that raises an exception, with nothing it wrote left.
Raises(t, a) == /\ faults > 0
                /\ faults' = faults - 1
                /\ Ends(t, a)
                /\ UNCHANGED <<svc, store, cache, nextId>>

\* insert into the main table: the unique name may be taken already.
InsertMain(t, to, dup) ==
    LET n == req[t].name IN
    /\ NameFree(t, n)
    /\ nextId <= MaxId
    /\ IF Taken(t, n)
       THEN Ends(t, dup) /\ UNCHANGED <<svc, store, cache, nextId, faults>>
       ELSE /\ tx' = [tx EXCEPT ![t].add = @ @@ (nextId :> Row(n))]
            /\ req' = [req EXCEPT ![t].id = nextId]
            /\ nextId' = nextId + 1
            /\ pc' = [pc EXCEPT ![t] = to]
            /\ UNCHANGED <<svc, store, cache, faults, answer>>

\* A statement outside of a transaction is done: the request goes on at `to`,
\* or ends with that answer.
Returns(t, to) == IF to \in {"ok", "failed"} THEN Ends(t, to) ELSE Goes(t, to) /\ UNCHANGED tx

\* A statement that raises an exception the code catches.
Caught(t, to) == /\ faults > 0
                 /\ faults' = faults - 1
                 /\ Returns(t, to)
                 /\ UNCHANGED <<svc, store, cache, nextId>>

\* insert into the side table the row that belongs to the main row.
InsertSide(t, to) ==
    /\ IdFree(t, req[t].id)
    /\ tx' = [tx EXCEPT ![t].addS = @ @@ (req[t].id :> 1)]
    /\ Goes(t, to)
    /\ UNCHANGED <<svc, store, cache, nextId, faults>>

Apply(t) == main' = Seen(t) /\ side' = SeenS(t)

\* commit, after which the request goes on to `to` or ends with "ok".  A
\* commit that raises has happened or has not: the caller cannot tell.
Commit(t, to, failed) ==
    \/ /\ Apply(t)
       /\ IF to = "idle" THEN Ends(t, "ok")
          ELSE Goes(t, to) /\ tx' = [tx EXCEPT ![t] = NoTx]
       /\ UNCHANGED <<svc, cache, nextId, faults>>
    \/ Raises(t, failed)
    \/ /\ faults > 0 /\ faults' = faults - 1
       /\ Apply(t) /\ Ends(t, failed)
       /\ UNCHANGED <<svc, cache, nextId>>

(***************************************************************************)
(* distributed_calc, dc-user.  A request of the controller is one HTTP     *)
(* call; UserService.addUser and delUser run in a transaction, everything  *)
(* else commits statement by statement.                                    *)
(***************************************************************************)
Found(n) == {i \in DOMAIN main : main[i].name = n}

\* A SELECT by name: ends with `none` when no row has it.
Query(t, to, none) ==
    /\ IF Found(req[t].name) = {}
       THEN Ends(t, none)
       ELSE /\ \E i \in Found(req[t].name) : req' = [req EXCEPT ![t].id = i]
            /\ pc' = [pc EXCEPT ![t] = to]
            /\ UNCHANGED <<answer, tx>>
    /\ UNCHANGED <<svc, store, cache, nextId, faults>>

\* The controller refuses a name it finds; the name may still be added by
\* another request before this one adds it.
UserController_addUser(t) ==
    /\ pc[t] = "add_query"
    /\ IF Found(req[t].name) # {}
       THEN Ends(t, "duplicate")
       ELSE Goes(t, "add_user") /\ UNCHANGED tx
    /\ UNCHANGED <<svc, store, cache, nextId, faults>>

\* Mutant of UserService_addUser: without @Transactional, every statement its own commit.
AddUserUnwrapped(t) ==
    \/ /\ pc[t] = "add_user"
       /\ nextId <= MaxId
       /\ Found(req[t].name) = {}
       /\ main' = main @@ (nextId :> Row(req[t].name))
       /\ req' = [req EXCEPT ![t].id = nextId]
       /\ nextId' = nextId + 1
       /\ pc' = [pc EXCEPT ![t] = "add_authority"]
       /\ UNCHANGED <<svc, side, tx, cache, faults, answer>>
    \/ pc[t] = "add_authority" /\ (InsertSide(t, "add_commit") \/ Raises(t, "failed"))
    \/ pc[t] = "add_commit" /\ Commit(t, "idle", "failed")

UserService_addUser(t) ==
    \/ /\ pc[t] = "add_user"
       /\ IF req[t].to = "invalid"
          THEN Ends(t, "invalid") /\ UNCHANGED <<svc, store, cache, nextId, faults>>
          ELSE InsertMain(t, "add_authority", "failed") \/ Raises(t, "failed")
    \/ pc[t] = "add_authority" /\ (InsertSide(t, "add_commit") \/ Raises(t, "failed"))
    \/ pc[t] = "add_commit" /\ Commit(t, "idle", "failed")

\* A delete by id inside the transaction: it must remove exactly one row.
DeleteMain(t, to) ==
    /\ IdFree(t, req[t].id)
    /\ IF req[t].id \in DOMAIN Seen(t)
       THEN tx' = [tx EXCEPT ![t].del = @ \cup {req[t].id}] /\ Goes(t, to)
       ELSE Ends(t, "failed")
    /\ UNCHANGED <<svc, store, cache, nextId, faults>>

DeleteSide(t, to) ==
    /\ IdFree(t, req[t].id)
    /\ IF req[t].id \in DOMAIN SeenS(t)
       THEN tx' = [tx EXCEPT ![t].delS = @ \cup {req[t].id}] /\ Goes(t, to)
       ELSE Ends(t, "failed")
    /\ UNCHANGED <<svc, store, cache, nextId, faults>>

UserService_delUser(t) ==
    \/ pc[t] = "del_query" /\ Query(t, "del_user", "invalid")
    \/ pc[t] = "del_user" /\ (DeleteMain(t, "del_authority") \/ Raises(t, "failed"))
    \/ pc[t] = "del_authority" /\ (DeleteSide(t, "del_commit") \/ Raises(t, "failed"))
    \/ pc[t] = "del_commit" /\ Commit(t, "idle", "failed")

\* updateUser(): one UPDATE of the rows that are there to their new values,
\* committed at once.  A taken name (an invalid one is answered in the same
\* way), a row that is gone and a statement that raises are all caught and
\* answered: the controller goes on at `bad`.
UserService_updateUser(t, rows, name, ok, bad) ==
    \/ /\ \A i \in DOMAIN rows : IdFree(t, i)
       /\ NameFree(t, name)
       /\ IF rows # <<>> /\ Found(name) \subseteq DOMAIN rows
          THEN main' = rows @@ main /\ Returns(t, ok)
          ELSE Returns(t, bad) /\ UNCHANGED main
       /\ UNCHANGED <<svc, side, cache, nextId, faults>>
    \/ Caught(t, bad)

\* updateAuthority(): a row that is gone and a statement that raises are
\* answered by a value at which the controller does not look.
UserService_updateAuthority(t, a) ==
    \/ /\ IdFree(t, req[t].id)
       /\ side' = IF req[t].id \in DOMAIN side THEN [side EXCEPT ![req[t].id] = 2] ELSE side
       /\ Ends(t, a)
       /\ UNCHANGED <<svc, main, cache, nextId, faults>>
    \/ Raises(t, a)

\* The controller's answer to what updateUser() returned.
Answers(t, a) == Ends(t, a) /\ UNCHANGED <<svc, store, cache, nextId, faults>>

\* /update/info: the user found, then the row, then, whatever became of the
\* row, the authority, if the request has a new one.
UserController_updateUserInfo(t) ==
    \/ pc[t] = "info_query" /\ Query(t, "info_user", "not found")
    \/ /\ pc[t] = "info_user"
       /\ UserService_updateUser(t, [i \in {req[t].id} \cap DOMAIN main |->
                                       [main[i] EXCEPT !.name = req[t].to]],
                                 req[t].to, "info_ok", "info_bad")
    \/ pc[t] = "info_ok" /\ (UserService_updateAuthority(t, "ok") \/ Answers(t, "ok"))
    \/ pc[t] = "info_bad" /\ (UserService_updateAuthority(t, "failed") \/ Answers(t, "failed"))

\* /freeze: the row of a name, updated in one statement.
UserController_freezeUser(t) ==
    /\ pc[t] = "freeze"
    /\ UserService_updateUser(t, [i \in Found(req[t].name) |-> [main[i] EXCEPT !.status = "freeze"]],
                              req[t].name, "ok", "failed")

\* /update/password: checked in one statement, written in another, both by
\* the name of the request.
UserController_updatePassword(t) ==
    \/ /\ pc[t] = "pwd_check"
       /\ IF \E i \in Found(req[t].name) : main[i].pwd = "old"
          THEN IF req[t].to = "invalid" THEN Ends(t, "length")
               ELSE Goes(t, "pwd_set") /\ UNCHANGED tx
          ELSE Ends(t, IF Found(req[t].name) = {} THEN "invalid" ELSE "password")
       /\ UNCHANGED <<svc, store, cache, nextId, faults>>
    \/ /\ pc[t] = "pwd_set"
       /\ \A i \in Found(req[t].name) : IdFree(t, i)
       /\ main' = [i \in DOMAIN main |->
                      IF i \in Found(req[t].name) THEN [main[i] EXCEPT !.pwd = "new"] ELSE main[i]]
       /\ Ends(t, IF Found(req[t].name) = {} THEN "failed" ELSE "ok")
       /\ UNCHANGED <<svc, side, cache, nextId, faults>>

\* /query/info: the user, then its authority, in two statements.
UserController_queryUser(t) ==
    \/ pc[t] = "q_user" /\ Query(t, "q_authority", "not found")
    \/ /\ pc[t] = "q_authority"
       /\ Ends(t, IF req[t].id \in DOMAIN side THEN "ok" ELSE "authority not found")
       /\ UNCHANGED <<svc, store, cache, nextId, faults>>

(***************************************************************************)
(* The two-table inserts of use-mybatis-spring and mix-javaxml-jdbc.       *)
(***************************************************************************)
\* The level is inserted under the id its caller has given it, which need not
\* be the one the user gets and may be taken: then the user goes as well.
addLevel(t, to) ==
    LET l == req[t].level IN
    /\ \A u \in Threads \ {t} : l \notin DOMAIN tx[u].addS
    /\ IF l \in DOMAIN SeenS(t) THEN Ends(t, "failed")
       ELSE tx' = [tx EXCEPT ![t].addS = @ @@ (l :> 1)] /\ Goes(t, to)
    /\ UNCHANGED <<svc, store, cache, nextId, faults>>

UserService_addUserLevel(t) ==
    \/ pc[t] = "lvl_user" /\ (InsertMain(t, "lvl_level", "failed") \/ Raises(t, "failed"))
    \/ pc[t] = "lvl_level" /\ (addLevel(t, "lvl_commit") \/ Raises(t, "failed"))
    \/ pc[t] = "lvl_commit" /\ Commit(t, "idle", "failed")

AppService_createUserPlayer(t) ==
    \/ pc[t] = "app_user" /\ (InsertMain(t, "app_player", "failed") \/ Raises(t, "failed"))
    \/ pc[t] = "app_player" /\ (InsertSide(t, "app_commit") \/ Raises(t, "failed"))
    \/ pc[t] = "app_commit" /\ Commit(t, "idle", "failed")

(***************************************************************************)
(* UseCommit: one program, autocommit off: insert, query, delete.  A       *)
(* failure ends it (System.exit, or a NullPointerException for a user that *)
(* is not found) and the closed connection rolls back what is left.        *)
(***************************************************************************)
insertUser(t) ==
    \/ pc[t] = "ins_user" /\ (InsertMain(t, "ins_player", "failed") \/ Raises(t, "failed"))
    \/ pc[t] = "ins_player" /\ (InsertSide(t, "ins_commit") \/ Raises(t, "failed"))
    \/ pc[t] = "ins_commit" /\ Commit(t, "qry", "failed")

queryUser(t) == pc[t] = "qry" /\ (Query(t, "rm_user", "null user") \/ Raises(t, "null user"))

\* The counts of the deletes are printed, not checked.
deleteUser(t) ==
    \/ /\ pc[t] = "rm_user"
       /\ \/ /\ IdFree(t, req[t].id)
             /\ tx' = [tx EXCEPT ![t].del = @ \cup {req[t].id}]
             /\ Goes(t, "rm_player")
             /\ UNCHANGED <<svc, store, cache, nextId, faults>>
          \/ Raises(t, "failed")
    \/ /\ pc[t] = "rm_player"
       /\ \/ /\ tx' = [tx EXCEPT ![t].delS = @ \cup {req[t].id}]
             /\ Goes(t, "rm_commit")
             /\ UNCHANGED <<svc, store, cache, nextId, faults>>
          \/ Raises(t, "failed")
    \/ pc[t] = "rm_commit" /\ Commit(t, "idle", "failed")

(***************************************************************************)
(* use-mybatis-redis-spring.  The cache manager is transaction aware:      *)
(* @CachePut writes the cache once the transaction has committed.  The     *)
(* hash of trade records is written by the RedisTemplate at once.          *)
(***************************************************************************)
\* A put that raises may have reached Redis.
PutRaises(t, k) == /\ faults > 0 /\ faults' = faults - 1
                   /\ cache' \in {cache, cache \cup {k}}
                   /\ Ends(t, "failed")
                   /\ UNCHANGED <<svc, store, nextId>>

CachePut(t, k) ==
    \/ /\ cache' = cache \cup {k}
       /\ Ends(t, "ok")
       /\ UNCHANGED <<svc, store, nextId, faults>>
    \/ PutRaises(t, k)

\* Mutant of AccountService_CreateAccount: the cache written inside the transaction, before its commit.
PutBeforeCommit(t) ==
    \/ pc[t] = "acc_info" /\ (InsertMain(t, "acc_passwd", "failed") \/ Raises(t, "failed"))
    \/ pc[t] = "acc_passwd" /\ (InsertSide(t, "acc_put") \/ Raises(t, "failed"))
    \/ /\ pc[t] = "acc_put"
       /\ cache' = cache \cup {req[t].id}
       /\ Goes(t, "acc_commit")
       /\ UNCHANGED <<svc, store, tx, nextId, faults>>
    \/ pc[t] = "acc_commit" /\ Commit(t, "idle", "failed")

AccountService_CreateAccount(t) ==
    \/ pc[t] = "acc_info" /\ (InsertMain(t, "acc_passwd", "failed") \/ Raises(t, "failed"))
    \/ pc[t] = "acc_passwd" /\ (InsertSide(t, "acc_commit") \/ Raises(t, "failed"))
    \/ pc[t] = "acc_commit" /\ Commit(t, "acc_put", "failed")
    \/ pc[t] = "acc_put" /\ CachePut(t, req[t].id)

\* get, and on a miss the database and a set: by hand or by @Cacheable, whose
\* cache manager raises for a null it is not to keep.
GetCached(t, got, db, set, none) ==
    \/ /\ pc[t] = got
       /\ IF req[t].id \in cache THEN Ends(t, "ok") ELSE Goes(t, db) /\ UNCHANGED tx
       /\ UNCHANGED <<svc, store, cache, nextId, faults>>
    \/ /\ pc[t] = db
       /\ IF req[t].id \in DOMAIN main THEN Goes(t, set) /\ UNCHANGED tx ELSE Ends(t, none)
       /\ UNCHANGED <<svc, store, cache, nextId, faults>>
    \/ pc[t] = set /\ CachePut(t, req[t].id)

getAccountByIdFromCacheManual(t) == GetCached(t, "man_get", "man_db", "man_set", "null")
getAccountByIdFromCacheAuto(t) == GetCached(t, "auto_get", "auto_db", "auto_put", "failed")

\* The record, then its cache entry, under the record's own id (the unique
\* column), then the commit.
TradeService_NewTradeRecord(t) ==
    \/ pc[t] = "trd_insert" /\ (InsertMain(t, "trd_put", "failed") \/ Raises(t, "failed"))
    \/ /\ pc[t] = "trd_put"
       /\ \/ /\ cache' = cache \cup {req[t].name}
             /\ Goes(t, "trd_commit")
             /\ UNCHANGED <<svc, store, tx, nextId, faults>>
          \/ PutRaises(t, req[t].name)
    \/ pc[t] = "trd_commit" /\ Commit(t, "idle", "failed")

(***************************************************************************)
(* py/aop-db: db_utils_wrapper runs the method, commits, and on any        *)
(* exception rolls back; it returns what the method returned.  The one     *)
(* connection is shared, so only one request runs at a time.               *)
(***************************************************************************)
Alone(t) == \A u \in Threads \ {t} : pc[u] = "idle"

\* insert_balance: the balances in chunks of max_insert_once, one statement
\* each (a chunk is one name here), all in the wrapper's transaction.
insert_balance(t) ==
    LET rest == Names \ NamesOf(t) IN
    \/ /\ pc[t] = "bal_insert"
       /\ Alone(t)
       /\ \/ /\ rest # {}
             /\ nextId <= MaxId
             /\ \E n \in rest :
                  IF Taken(t, n)
                  THEN Ends(t, "none") /\ UNCHANGED nextId
                  ELSE /\ tx' = [tx EXCEPT ![t].add = @ @@ (nextId :> Row(n))]
                       /\ nextId' = nextId + 1
                       /\ UNCHANGED <<pc, req, answer>>
             /\ UNCHANGED <<svc, store, cache, faults>>
          \/ rest # {} /\ Raises(t, "none")
          \/ rest = {} /\ Goes(t, "wrap_commit")
             /\ UNCHANGED <<svc, store, tx, cache, nextId, faults>>

del_balance_by_id(t) ==
    /\ pc[t] = "bal_del"
    /\ Alone(t)
    /\ \/ /\ tx' = [tx EXCEPT ![t].del = Found(req[t].name)]
          /\ Goes(t, "wrap_commit")
          /\ UNCHANGED <<svc, store, cache, nextId, faults>>
       \/ Raises(t, "none")

\* The method's result is kept in `ret` before the commit, and returned even
\* when the commit raises and is rolled back.
db_utils_wrapper(t) == pc[t] = "wrap_commit" /\ Commit(t, "idle", "ok")

(***************************************************************************)
(* py/mul_datasource_db: sync() reads every user of the product source and *)
(* upserts them into the backup (the side table here) with batch_insert,   *)
(* which commits every batch by itself; an exception leaves the batches    *)
(* before it in place.                                                     *)
(***************************************************************************)
sync(t) ==
    /\ pc[t] = "syn_query"
    /\ \/ Goes(t, "syn_batch") /\ UNCHANGED <<svc, store, tx, cache, nextId, faults>>
       \/ Raises(t, "failed")

batch_insert(t) ==
    LET done == req[t].id
        upto == IF done + Batch > Cardinality(DOMAIN main) THEN Cardinality(DOMAIN main)
                ELSE done + Batch
    IN
    \/ /\ pc[t] = "syn_batch"
       /\ done = Cardinality(DOMAIN main)
       /\ Ends(t, "ok")
       /\ UNCHANGED <<svc, store, cache, nextId, faults>>
    \/ /\ pc[t] = "syn_batch"
       /\ done < Cardinality(DOMAIN main)
       /\ \/ /\ \A i \in (done + 1) .. upto : IdFree(t, i)
             /\ tx' = [tx EXCEPT ![t].addS = [i \in (done + 1) .. upto |-> 1]]
             /\ req' = [req EXCEPT ![t].id = upto]
             /\ pc' = [pc EXCEPT ![t] = "syn_commit"]
             /\ UNCHANGED <<svc, store, cache, nextId, faults, answer>>
          \/ Raises(t, "failed")
    \/ pc[t] = "syn_commit" /\ Commit(t, "syn_batch", "failed")

(***************************************************************************)
(* Requests.                                                               *)
(***************************************************************************)
Entry == [dcuser  |-> {"add_query", "del_query", "info_query", "freeze", "pwd_check", "q_user"},
          mybatis |-> {"lvl_user"},
          app     |-> {"app_user"},
          jdbc    |-> {"ins_user"},
          account |-> {"acc_info", "man_get", "auto_get"},
          trade   |-> {"trd_insert"},
          balance |-> {"bal_insert", "bal_del"},
          sync    |-> {"syn_query"}]

\* What a request names: only the renaming and the validated ones use `to`,
\* only the cached reads ask for an id, only a level is given one.
Asks(e, n, to, i, l) ==
    /\ to = n \/ e = "info_query" \/ (to = "invalid" /\ e \in {"add_query", "pwd_check"})
    /\ to = "invalid" => e \in {"add_query", "pwd_check"}
    /\ (i # 0) <=> e \in {"man_get", "auto_get"}
    /\ (l # 0) <=> e = "lvl_user"

Request(t) ==
    /\ pc[t] = "idle"
    /\ svc = "balance" => Alone(t)
    /\ \E e \in Entry[svc], n \in Names, to \in Names \cup {"invalid"}, i, l \in 0 .. MaxId :
         /\ Asks(e, n, to, i, l)
         /\ pc' = [pc EXCEPT ![t] = e]
         /\ req' = [req EXCEPT ![t] = [op |-> e, name |-> n, to |-> to, id |-> i, level |-> l]]
    /\ answer' = [answer EXCEPT ![t] = "pending"]
    /\ UNCHANGED <<svc, store, tx, cache, nextId, faults>>

Init ==
    /\ svc \in Kinds
    /\ pc = [t \in Threads |-> "idle"]
    /\ req = [t \in Threads |-> NoReq]
    /\ main = IF svc = "sync" THEN [i \in 1 .. Users |-> Row("synced")] ELSE <<>>
    /\ side = <<>>
    /\ tx = [t \in Threads |-> NoTx]
    /\ cache = {}
    /\ nextId = 1
    /\ faults = MaxFaults
    /\ answer = [t \in Threads |-> "none"]

Handle(t) ==
    \/ UserController_addUser(t) \/ UserService_addUser(t) \/ UserService_delUser(t)
    \/ UserController_updateUserInfo(t) \/ UserController_freezeUser(t)
    \/ UserController_updatePassword(t) \/ UserController_queryUser(t)
    \/ UserService_addUserLevel(t) \/ AppService_createUserPlayer(t)
    \/ insertUser(t) \/ queryUser(t) \/ deleteUser(t)
    \/ AccountService_CreateAccount(t)
    \/ getAccountByIdFromCacheManual(t) \/ getAccountByIdFromCacheAuto(t)
    \/ TradeService_NewTradeRecord(t)
    \/ insert_balance(t) \/ del_balance_by_id(t) \/ db_utils_wrapper(t)
    \/ sync(t) \/ batch_insert(t)

Next == \E t \in Threads : Request(t) \/ Handle(t)

Spec == Init /\ [][Next]_vars

-----------------------------------------------------------------------------
\* In every committed state a user has its authority (player, password) row
\* and the other way round, whatever the interleaving of requests and wherever
\* a statement or a commit fails: addUser, delUser, CreateAccount,
\* createUserPlayer and insertUser write both or none.  A level of
\* use-mybatis-spring is not tied to its user by an id; there are as many
\* levels as users, since addUser commits one of each or neither.
Paired ==
    /\ svc \in {"dcuser", "app", "jdbc", "account"} => DOMAIN main = DOMAIN side
    /\ svc = "mybatis" => Cardinality(DOMAIN main) = Cardinality(DOMAIN side)

\* The cache of accounts never holds an account the database does not have,
\* since CachePut runs after the commit; the cache of trade records never
\* misses one the database has, since NewTradeRecord puts before it commits.
CacheAgrees == /\ svc = "account" => cache \subseteq DOMAIN main
               /\ svc = "trade" => {main[i].name : i \in DOMAIN main} \subseteq cache

\* batch_insert leaves a prefix of whole batches behind when it raises, and
\* sync answers normally only when the backup has every user.
BatchPrefix ==
    svc = "sync" =>
        /\ \E k \in 0 .. Users : /\ DOMAIN side = 1 .. k
                                 /\ k % Batch = 0 \/ k = Users
        /\ (\E t \in Threads : answer[t] = "ok") => DOMAIN side = DOMAIN main

\* What ConcurrencyCreateTradeRecordTest asserts once its threads have
\* joined: assertEquals(cntDB, cntCache).
CountsAgree == svc = "trade" /\ (\A t \in Threads : pc[t] = "idle")
                  => Cardinality(DOMAIN main) = Cardinality(cache)
=============================================================================
