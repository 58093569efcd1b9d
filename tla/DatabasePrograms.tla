-------------------------- MODULE DatabasePrograms --------------------------
(***************************************************************************)
(* The programs that talk to a database through a C, C++ or Java client:   *)
(* SQLite, ODBC, Redis, the MariaDB connector for C++ and JDBC.  A         *)
(* statement lives in its connection, a result in its statement.  What a   *)
(* unique_ptr or a try-with-resources closes is released on every way out  *)
(* of its block, an exception's included.                                  *)
(***************************************************************************)
EXTENDS ProgramText

\* A call that may throw out of a block that owns rs.
db_throws(u, rs) == Try(u, Puts(rs) \o <<Fail>>)

(***************************************************************************)
(* use_sqlite: init_sqlite() failing is not looked at; a database that     *)
(* cannot be opened leaves its handle to the exit.                         *)
(***************************************************************************)
sqlite_init == <<Try({}, <<Fail>>), Get("sqlite", {}, <<Fail>>)>>
sqlite_exec == <<Alt(<< <<Get("err_msg", {"db"}, <<>>),
                         If("err_msg", <<Do({"err_msg"}), Put("err_msg")>>, <<>>)>>,
                        <<Do({"db"})>> >>)>>
sqlite_callback == <<Loop(<<Do({"row"})>>)>>
sqlite_program(work) ==
    Program(<<Call(sqlite_init, <<>>), New("db", {}), Try({"db"}, <<Do({"db"}), Exit>>)>>
              \o work
              \o <<Put("db"), PutIf("sqlite")>>,
            {}, {"db", "sqlite"})

sqlite_open_db == sqlite_program(<<>>)
sqlite_create_table == sqlite_exec
sqlite_create_table_main == sqlite_program(sqlite_create_table)
sqlite_insert_datas == sqlite_exec
sqlite_insert_main == sqlite_program(sqlite_insert_datas)
sqlite_rows == <<Set("row")>> \o sqlite_callback \o <<Unset("row")>>
sqlite_query == <<Loop(sqlite_rows)>> \o sqlite_exec
sqlite_query_main == sqlite_program(sqlite_query)
sqlite_update == sqlite_exec
sqlite_update_main == sqlite_program(sqlite_update)
sqlite_delete == sqlite_exec
sqlite_delete_main == sqlite_program(sqlite_delete)

(***************************************************************************)
(* use_odbc: that a handle is allocated is not looked at.  The query and   *)
(* the insert free their connection without disconnecting it, which        *)
(* SQLFreeHandle() refuses, and then also the environment.                 *)
(***************************************************************************)
odbc_env == <<New("env", {}), Do({"env"})>>
odbc_connect == odbc_env \o <<NewIn("dbc", {"env"}, {}), GetIn("connection", {"dbc"}, {}, <<Fail>>)>>
odbc_extract_error(h) == <<Do({h}), Loop(<<Do({h})>>)>>
odbc_list_drivers == Program(odbc_env \o <<Loop(<<Do({"env"})>>)>>, {"env"}, {})
odbc_list_datasources == Program(odbc_env \o <<Loop(<<Do({"env"})>>)>>, {"env"}, {})
odbc_connect_main ==
    Program(<<Call(odbc_connect, <<>>),
              If("connection", <<Do({"dbc", "connection"}), Put("connection")>>,
                 odbc_extract_error("dbc")),
              Put("dbc"), Put("env")>>,
            {}, {})
odbc_refused == <<Do({"dbc"}), Do({"env"})>>
odbc_query_main ==
    Program(<<Call(odbc_connect, <<Exit>>), NewIn("stmt", {"connection"}, {}),
              Try({"stmt"}, <<Exit>>), Try({"stmt"}, <<Exit>>), Do({"stmt"}),
              Loop(<<Loop(<<Do({"stmt"})>>)>>), Put("stmt")>>
              \o odbc_refused,
            {"env", "dbc", "connection"}, {"stmt"})
odbc_insert_main ==
    Program(<<Call(odbc_connect, <<Exit>>), NewIn("stmt", {"connection"}, {}),
              Try({"stmt"}, <<Exit>>), Try({"stmt"}, <<Exit>>), Try({"stmt"}, <<Exit>>),
              Try({"stmt"}, odbc_extract_error("stmt")), Put("stmt")>>
              \o odbc_refused,
            {"env", "dbc", "connection"}, {"stmt"})

(***************************************************************************)
(* use_hiredis: every command frees its reply, also one that says error.   *)
(***************************************************************************)
redis_connect == <<Get("ctx", {}, <<Exit>>), Try({"ctx"}, <<Put("ctx"), Exit>>)>>
redis_command == <<Call(<<GetIn("reply", {"ctx"}, {}, <<Fail>>), Try({"reply"}, <<Fail>>),
                          Do({"reply"})>>, <<>>),
                   PutIf("reply")>>
redis_auth == redis_command
redis_ping == redis_command
redis_set_key == redis_command
redis_get_key == redis_command
redis_program(commands) == Program(redis_connect \o commands \o <<Put("ctx")>>, {}, {})
redis_hello == redis_program(<<>>)
redis_auth_main == redis_program(redis_auth)
redis_ping_main == redis_program(redis_auth \o redis_ping)
redis_key_main == redis_program(redis_auth \o redis_ping \o redis_set_key
                                  \o redis_get_key \o redis_get_key)

(***************************************************************************)
(* use_mariadb_connector_cpp                                               *)
(***************************************************************************)
mcpp_parse_args == <<Set("args"), Loop(<<Do({"args"})>>), Do({"args"})>>
mcpp_insert_parse_args == mcpp_parse_args
mcpp_commit_parse_args == mcpp_parse_args
mcpp_retrieve_parse_args == mcpp_parse_args

\* ping(): what it threw on is gone before the connection is made anew.
mcpp_statement(work) ==
    Call(<<GetIn("stmt", {"conn"}, {}, <<Fail>>)>> \o work \o <<Put("stmt")>>, <<>>)
mcpp_ping ==
    <<Call(<<GetIn("stmt", {"conn"}, {}, <<Fail>>),
             GetIn("res", {"stmt"}, {}, <<Put("stmt"), Fail>>),
             Put("res"), Put("stmt")>>,
           <<Try({"conn"}, <<Fail>>)>>)>>

mcpp_open == <<Maybe(<<Do({"args"})>>), Get("conn", {"args"}, <<Fail>>)>>
mcpp_main(parse, run) == Program(parse \o <<Call(run, <<Exit>>)>>, {}, {})

mcpp_connect_run == mcpp_open \o <<Call(mcpp_ping, <<>>), Put("conn")>>
mcpp_connect == mcpp_main(mcpp_parse_args, mcpp_connect_run)

mcpp_CreateTable == <<mcpp_statement(<<db_throws({"stmt"}, <<"stmt">>),
                                       db_throws({"stmt"}, <<"stmt">>)>>)>>
mcpp_GetLastInsertId ==
    <<Call(<<GetIn("id_stmt", {"conn"}, {}, <<Fail>>),
             GetIn("res", {"id_stmt"}, {}, <<Put("id_stmt"), Fail>>),
             Loop(<<db_throws({"res"}, <<"res", "id_stmt">>)>>),
             Put("res"), Put("id_stmt")>>, <<>>)>>
mcpp_InsertRows ==
    <<mcpp_statement(<<Loop(<<db_throws({"stmt"}, <<"stmt">>)>> \o mcpp_GetLastInsertId)>>)>>
mcpp_insert_run == mcpp_open \o mcpp_CreateTable \o mcpp_InsertRows \o <<Put("conn")>>
mcpp_insert == mcpp_main(mcpp_insert_parse_args, mcpp_insert_run)

mcpp_commit_CreateTable == mcpp_CreateTable

\* An exception leaves automatic commits as they were set here.
mcpp_InsertRowsManualCommit ==
    <<Call(<<Try({"conn"}, <<Fail>>), GetIn("stmt", {"conn"}, {}, <<Fail>>),
             Loop(<<db_throws({"stmt"}, <<"stmt">>), Maybe(<<db_throws({"conn"}, <<"stmt">>)>>)>>),
             Maybe(<<db_throws({"conn"}, <<"stmt">>)>>),
             db_throws({"conn"}, <<"stmt">>), Put("stmt")>>, <<>>)>>
mcpp_commit_run == mcpp_open \o mcpp_commit_CreateTable
                     \o mcpp_InsertRowsManualCommit \o mcpp_InsertRowsManualCommit
                     \o <<Put("conn")>>
mcpp_commit == mcpp_main(mcpp_commit_parse_args, mcpp_commit_run)

\* Query() has no catch of its own: the exception takes the connection along.
mcpp_Query ==
    LET out(rs) == Puts(rs) \o <<Fail>>
    IN <<GetIn("stmt", {"conn"}, {}, <<Fail>>), Maybe(<<db_throws({"stmt"}, <<"stmt">>)>>),
         GetIn("res", {"stmt"}, {}, out(<<"stmt">>)),
         Loop(<<Try({"res"}, out(<<"res", "stmt">>))>>),
         Put("res"), Put("stmt")>>
mcpp_retrieve_run ==
    LET one == Call(mcpp_Query, <<Put("conn"), Fail>>)
    IN mcpp_open \o <<one, one, one, Put("conn")>>
mcpp_retrieve == mcpp_main(mcpp_retrieve_parse_args, mcpp_retrieve_run)

(***************************************************************************)
(* use-jdbc: the user that queryUser() may not find is used all the same.  *)
(***************************************************************************)
jdbc_main(work) ==
    Program(<<Try({}, <<Quit>>), Get("conn", {}, <<Quit>>)>> \o work \o <<Put("conn")>>,
            {}, {"conn"})
jdbc_two(bind, first, second, end, thrown) ==
    <<Call(<<GetIn(first, {"conn"}, {}, <<Fail>>),
             GetIn(second, {"conn"}, {}, <<Put(first), Fail>>)>>
             \o bind \o <<db_throws({first}, <<second, first>>)>>
             \o bind \o <<db_throws({second}, <<second, first>>)>>
             \o end \o <<Put(second), Put(first)>>, thrown)>>

jdbc_start_insertUser ==
    <<Call(<<GetIn("stmt", {"conn"}, {}, <<Fail>>), db_throws({"stmt"}, <<"stmt">>),
             db_throws({"stmt"}, <<"stmt">>), Put("stmt")>>, <<>>)>>
jdbc_start_queryUser ==
    <<Call(<<GetIn("stmt", {"conn"}, {}, <<Fail>>),
             GetIn("resultSet", {"stmt"}, {}, <<Put("stmt"), Fail>>),
             Loop(<<Set("user"), db_throws({"resultSet"}, <<"resultSet", "stmt">>)>>),
             Put("resultSet"), Put("stmt")>>, <<>>)>>
jdbc_start_deleteUser ==
    <<Call(<<GetIn("stmt", {"conn"}, {}, <<Fail>>), Blind({"user"}), db_throws({"stmt"}, <<"stmt">>),
             Blind({"user"}), db_throws({"stmt"}, <<"stmt">>), Put("stmt")>>, <<>>)>>
jdbc_start == jdbc_main(jdbc_start_insertUser \o jdbc_start_queryUser \o jdbc_start_deleteUser)

jdbc_pre_insertUser == jdbc_two(<<>>, "userStmt", "playerStmt", <<>>, <<>>)
jdbc_pre_queryUser == jdbc_start_queryUser
jdbc_pre_deleteUser == jdbc_two(<<Blind({"user"})>>, "userStmt", "playerStmt", <<>>, <<>>)
jdbc_prestatement ==
    jdbc_main(jdbc_pre_insertUser \o <<Maybe(<<Exit>>)>>
                \o jdbc_pre_queryUser \o <<If("user", <<>>, <<Blind({"user"})>>)>>
                \o jdbc_pre_deleteUser)

jdbc_committed(bind) ==
    jdbc_two(bind, "userStmt", "playerStmt", <<db_throws({"conn"}, <<"playerStmt", "userStmt">>)>>,
             <<Try({"conn"}, <<>>)>>)
jdbc_commit_insertUser == jdbc_committed(<<>>)
jdbc_commit_queryUser == jdbc_start_queryUser
jdbc_commit_deleteUser == jdbc_committed(<<Blind({"user"})>>)
jdbc_commit ==
    jdbc_main(<<Try({"conn"}, <<Put("conn"), Quit>>)>>
                \o jdbc_commit_insertUser \o <<Maybe(<<Exit>>)>>
                \o jdbc_commit_queryUser \o <<If("user", <<>>, <<Blind({"user"})>>)>>
                \o jdbc_commit_deleteUser)

\* use-db-conn-pool: the pool is never closed, nor is the reader of its
\* properties.
pool_properties == <<Alt(<< <<Get("reader", {}, <<Fail>>)>>, <<New("reader", {})>> >>),
                     Try({"reader"}, <<Fail>>)>>
pool_getDcbpProperties == pool_properties
pool_getDruidProperties == pool_properties
pool_main(props) ==
    Program(<<Call(props, <<Exit>>),
              Call(<<Get("dataSource", {}, <<Fail>>), Get("conn", {"dataSource"}, <<Fail>>),
                     Put("conn")>>, <<>>)>>,
            {"reader", "dataSource"}, {})
pool_dbcp == pool_main(pool_getDcbpProperties)
pool_druid == pool_main(pool_getDruidProperties)

DatabasePrograms ==
    [sqlite_open_db |-> sqlite_open_db, sqlite_create_table |-> sqlite_create_table_main,
     sqlite_insert |-> sqlite_insert_main, sqlite_query |-> sqlite_query_main,
     sqlite_update |-> sqlite_update_main, sqlite_delete |-> sqlite_delete_main,
     odbc_list_drivers |-> odbc_list_drivers, odbc_list_datasources |-> odbc_list_datasources,
     odbc_connect |-> odbc_connect_main, odbc_query |-> odbc_query_main,
     odbc_insert |-> odbc_insert_main,
     redis_hello |-> redis_hello, redis_auth |-> redis_auth_main, redis_ping |-> redis_ping_main,
     redis_key |-> redis_key_main,
     mcpp_connect |-> mcpp_connect, mcpp_insert |-> mcpp_insert, mcpp_commit |-> mcpp_commit,
     mcpp_retrieve |-> mcpp_retrieve,
     jdbc_start |-> jdbc_start, jdbc_prestatement |-> jdbc_prestatement,
     jdbc_commit |-> jdbc_commit, pool_dbcp |-> pool_dbcp, pool_druid |-> pool_druid]
=============================================================================
