--------------------------- MODULE MysqlPrograms ---------------------------
(***************************************************************************)
(* The programs of use_mysqlclient and use_mariadb_connector_c, which      *)
(* share their text but for the options of one program: connect, run       *)
(* statements, read results, close.  A result and a prepared statement     *)
(* live in their connection, a connection in the client library.           *)
(***************************************************************************)
EXTENDS ProgramText

\* getopt_long() until it says -1, then the defaults of host and port.
my_parse_args == <<Set("args"), Loop(<<Do({"args"})>>), Do({"args"})>>

\* exit_with_error(): the connection is closed, the library is not ended.
my_exit_with_error(con) == <<Do({con}), Put(con), Exit>>
my_exec_sql(con) == <<Try({con}, my_exit_with_error(con))>>

\* mysql_init() and mysql_real_connect().  Where there is no connection,
\* mysql_error() is called with the null pointer for the log.
my_no_con(con) == <<Blind({con}), Exit>>
my_connect(con) == <<GetIn(con, {"library"}, {}, my_no_con(con)),
                     Try({con, "args"}, <<Put(con), Exit>>)>>

my_start(con) == my_parse_args \o <<New("library", {})>> \o my_connect(con)

\* Mutant of my_stop: mysql_library_end() is forgotten.
LibraryKept(con) == <<Put(con)>>

my_stop(con) == <<Put(con), Put("library")>>

\* The rows of a result are printed one by one, then it is freed; after
\* mysql_use_result() the connection's error state is looked at as well.
my_process_store_result(con, res) ==
    <<GetIn(res, {con}, {}, my_exit_with_error(con)), Loop(<<Do({res})>>), Put(res)>>
my_process_use_result(con, res) ==
    <<GetIn(res, {con}, {}, my_exit_with_error(con)), Loop(<<Do({res})>>), Do({con}), Put(res)>>

mysql_create_db ==
    Program(my_start("con") \o <<Try({"con"}, <<Put("con"), Exit>>)>> \o my_stop("con"),
            {}, {"library"})

mysql_create_table ==
    Program(my_start("con") \o <<Loop(my_exec_sql("con"))>> \o my_stop("con"),
            {}, {"library"})

mysql_retrieve_data ==
    Program(my_start("con")
              \o my_exec_sql("con") \o my_process_store_result("con", "result")
              \o my_exec_sql("con") \o my_process_use_result("con", "result")
              \o my_stop("con"),
            {}, {"library"})

mysql_inserted_row_id ==
    Program(my_start("con") \o <<Loop(my_exec_sql("con")), Do({"con"})>> \o my_stop("con"),
            {}, {"library"})

\* As retrieve_data, with the field headers read from the result first.
my_headers(res) == <<Loop(<<Do({res})>>)>>
mysql_col_headers ==
    Program(my_start("con")
              \o my_exec_sql("con")
              \o <<GetIn("result", {"con"}, {}, my_exit_with_error("con"))>>
              \o my_headers("result") \o <<Loop(<<Do({"result"})>>), Put("result")>>
              \o my_exec_sql("con")
              \o <<GetIn("result", {"con"}, {}, my_exit_with_error("con"))>>
              \o my_headers("result") \o <<Loop(<<Do({"result"})>>), Do({"con"}), Put("result")>>
              \o my_stop("con"),
            {}, {"library"})

\* mysql_options() failing is logged and the program goes on.
mysql_options ==
    Program(my_parse_args
              \o <<New("library", {}), GetIn("con", {"library"}, {}, my_no_con("con")),
                   Try({"con", "args"}, <<>>), Try({"con", "args"}, <<>>),
                   Try({"con", "args"}, <<Put("con"), Exit>>),
                   Loop(my_exec_sql("con"))>>
              \o my_stop("con"),
            {}, {"library"})

\* The connector of MariaDB takes a plugin directory besides.
mariadb_options ==
    Program(my_parse_args
              \o <<New("library", {}), GetIn("con", {"library"}, {}, my_no_con("con")),
                   Try({"con", "args"}, <<>>), Try({"con", "args"}, <<>>),
                   Maybe(<<Try({"con", "args"}, <<>>)>>),
                   Try({"con", "args"}, <<Put("con"), Exit>>),
                   Loop(my_exec_sql("con"))>>
              \o my_stop("con"),
            {}, {"library"})

\* Every thread has a connection of its own; a failure in one ends the
\* process with the others' open.  Two of the eight threads are modelled.
my_thread_routine(con, res) ==
    my_connect(con)
      \o my_exec_sql(con) \o my_process_store_result(con, res)
      \o my_exec_sql(con) \o my_process_use_result(con, res)
      \o <<Put(con)>>

mysql_mul_thread ==
    Program(my_parse_args
              \o <<New("library", {}),
                   Spawn("t1", my_thread_routine("con1", "result1")),
                   Spawn("t2", my_thread_routine("con2", "result2")),
                   Join("t1"), Join("t2"), Put("library")>>,
            {}, {"library", "con1", "con2", "result1", "result2"})

\* A prepared statement: a failure to prepare or to execute it exits with
\* statement and connection open.
mysql_stmt_prepare ==
    Program(my_start("con") \o my_exec_sql("con") \o my_exec_sql("con")
              \o <<GetIn("stmt", {"con"}, {}, my_exit_with_error("con")),
                   Try({"stmt"}, <<Exit>>), Do({"stmt"}),
                   Loop(<<Try({"stmt"}, <<Exit>>)>>),
                   Put("stmt")>>
              \o my_stop("con"),
            {}, {"library", "con", "stmt"})

(***************************************************************************)
(* example10_dao_mapper: the mappers close their statement on every path.  *)
(***************************************************************************)
CLOSE_STMT == <<Put("stmt"), Fail>>
PREPARE_STMT == <<GetIn("stmt", {"con"}, {}, <<Fail>>), Try({"stmt"}, CLOSE_STMT)>>

user_mapper_insert ==
    PREPARE_STMT
      \o <<Try({"stmt"}, CLOSE_STMT),
           Loop(<<Try({"stmt"}, CLOSE_STMT)>>),
           Do({"stmt"}), Put("stmt"), Return>>

user_mapper_query_by_name ==
    PREPARE_STMT
      \o <<Try({"stmt"}, CLOSE_STMT), Try({"stmt"}, CLOSE_STMT),
           Try({"stmt"}, CLOSE_STMT), Try({"stmt"}, CLOSE_STMT),
           Maybe(<<Get("users", {}, CLOSE_STMT), Loop(<<Do({"stmt", "users"})>>)>>),
           Put("stmt"), Return>>

mysql_dao_mapper ==
    Program(my_start("con") \o my_exec_sql("con") \o my_exec_sql("con")
              \o <<Call(user_mapper_insert, <<Exit>>),
                   Call(user_mapper_query_by_name, <<Exit>>),
                   If("users", <<Loop(<<Do({"users"})>>), Put("users")>>, <<>>)>>
              \o my_stop("con"),
            {}, {"library", "con"})

\* The same programs against the MariaDB connector.
mariadb_create_db == mysql_create_db
mariadb_create_table == mysql_create_table
mariadb_retrieve_data == mysql_retrieve_data
mariadb_inserted_row_id == mysql_inserted_row_id
mariadb_col_headers == mysql_col_headers
mariadb_mul_thread == mysql_mul_thread
mariadb_stmt_prepare == mysql_stmt_prepare
mariadb_dao_mapper == mysql_dao_mapper
mariadb_user_mapper_insert == user_mapper_insert
mariadb_user_mapper_query_by_name == user_mapper_query_by_name

MysqlPrograms ==
    [mysql_create_db |-> mysql_create_db, mysql_create_table |-> mysql_create_table,
     mysql_retrieve_data |-> mysql_retrieve_data,
     mysql_inserted_row_id |-> mysql_inserted_row_id,
     mysql_col_headers |-> mysql_col_headers, mysql_options |-> mysql_options,
     mariadb_options |-> mariadb_options, mysql_mul_thread |-> mysql_mul_thread,
     mysql_stmt_prepare |-> mysql_stmt_prepare, mysql_dao_mapper |-> mysql_dao_mapper,
     mariadb_create_db |-> mariadb_create_db, mariadb_create_table |-> mariadb_create_table,
     mariadb_retrieve_data |-> mariadb_retrieve_data,
     mariadb_inserted_row_id |-> mariadb_inserted_row_id,
     mariadb_col_headers |-> mariadb_col_headers, mariadb_mul_thread |-> mariadb_mul_thread,
     mariadb_stmt_prepare |-> mariadb_stmt_prepare, mariadb_dao_mapper |-> mariadb_dao_mapper]
=============================================================================
