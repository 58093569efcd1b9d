---------------------------- MODULE MCPrograms ------------------------------
(***************************************************************************)
(* The programs that own no loop of their own: the example programs of     *)
(* Examples, the database services, the menus and panels of the ncurses    *)
(* programs, the TCP sessions of pfpa, and the number theory functions.  A *)
(* behaviour is about one of these parts while the others rest in one of   *)
(* their initial states.                                                   *)
(***************************************************************************)
EXTENDS Examples, MysqlPrograms, SslPrograms, NcursesPrograms, LibeventPrograms, DatabasePrograms,
        LibraryPrograms, SystemPrograms, TLC

AllPrograms == MysqlPrograms @@ SslPrograms @@ NcursesPrograms @@ LibeventPrograms @@ DatabasePrograms
                 @@ LibraryPrograms @@ SystemPrograms

CONSTANTS DbThreads, Names, MaxId, MaxFaults, Users, Batch, DbKinds,
          Items, NPanels, LINES, COLS, MaxKeys,
          SeqSpace, MaxLen, MaxSent, MaxConn,
          MaxNum, MaxSquare

VARIABLES part,
          svc, db_pc, req, main_rows, side_rows, tx, cache, nextId, faults, answer,
          app, keys, done, sel, drawn, deck, top, hide, geo, data, new_geo, mode, dangling,
          phase, conns, next_seq, sent, fin, heard, acked, session, warned, freed_use, odd, off,
          fn, arg_a, arg_b, arg_c, num_pc, num_a, num_b, r_list, q_list, eqs, low, high, res

dbVars == <<svc, db_pc, req, main_rows, side_rows, tx, cache, nextId, faults, answer>>
winVars == <<app, keys, done, sel, drawn, deck, top, hide, geo, data, new_geo, mode, dangling>>
tcpVars == <<phase, conns, next_seq, sent, fin, heard, acked, session, warned, freed_use, odd, off>>
numVars == <<fn, arg_a, arg_b, arg_c, num_pc, num_a, num_b, r_list, q_list, eqs, low, high, res>>

Db == INSTANCE DbServices WITH
  Threads <- DbThreads, Kinds <- DbKinds, pc <- db_pc, main <- main_rows, side <- side_rows

Win == INSTANCE Screens WITH new <- new_geo

Tcp == INSTANCE PfpaTcp WITH next <- next_seq

Num == INSTANCE Numbers WITH
  a0 <- arg_a, b0 <- arg_b, c0 <- arg_c, pc <- num_pc, a <- num_a, b <- num_b

PartsInit ==
    /\ part \in {"examples", "db", "screens", "pfpa", "numbers"}
    /\ part = "examples" \/ prog = CHOOSE p \in DOMAIN Programs : TRUE
    /\ part = "db" \/ svc = CHOOSE s \in DbKinds : TRUE
    /\ part = "screens" \/ app = CHOOSE a \in Win!Apps : TRUE
    /\ part = "numbers" \/ (fn = "is_square" /\ arg_a = 0)
    /\ Init /\ Db!Init /\ Win!Init /\ Tcp!Init /\ Num!Init

PartsNext ==
    /\ \/ part = "examples" /\ Next /\ UNCHANGED <<dbVars, winVars, tcpVars, numVars>>
       \/ part = "db" /\ Db!Next /\ UNCHANGED <<vars, winVars, tcpVars, numVars>>
       \/ part = "screens" /\ Win!Next /\ UNCHANGED <<vars, dbVars, tcpVars, numVars>>
       \/ part = "pfpa" /\ Tcp!Next /\ UNCHANGED <<vars, dbVars, winVars, numVars>>
       \/ part = "numbers" /\ Num!Next /\ UNCHANGED <<vars, dbVars, winVars, tcpVars>>
    /\ UNCHANGED part

PartsSpec == PartsInit /\ [][PartsNext]_<<part, vars, dbVars, winVars, tcpVars, numVars>>

\* Request threads and names are interchangeable.
DbSymmetry == Permutations(DbThreads) \cup Permutations(Names)

-----------------------------------------------------------------------------
\* The programs release what they acquired once and innermost first, and
\* a program that ends has released everything but what its text names: see
\* ReleasedOnce, OwnersOutlive and CleanEnd of Examples.
EndsClean == ReleasedOnce /\ OwnersOutlive /\ CleanEnd

\* The rows of a user in two tables are written both or not at all, by every
\* service that keeps two, even where (levels) no id ties them; batch_insert
\* leaves whole batches behind, and sync answers for all of them.
TablesAgree == Db!Paired /\ Db!BatchPrefix

\* What the caches may hold of the database while requests interleave.
CacheAgrees == Db!CacheAgrees

\* The item under the mouse is the item chosen, and the panels are where the
\* programs' own records say: see ClickHits and DeckAgrees of Screens.
ScreensAgree == Win!ClickHits /\ Win!DeckAgrees

\* The number theory functions return what they are named for, and the
\* coefficients they keep are those of the remainders: see NumbersRight,
\* Bezout and SolvesUnlessNone of Numbers.
NumbersRight == Num!NumbersRight /\ Num!Bezout /\ Num!SolvesUnlessNone

\* The sessions of pfpa follow the connections of the capture: the sequence
\* number expected is the one that comes, no freed session is written, the two
\* sessions go together, and none is left when both ends have closed.  Of the
\* exceptions that SeqExpected, NoUseAfterFree, SessionsEnd and RemovedTogether
\* of PfpaTcp name, the readme sets aside a repeated FIN only; a FIN with data,
\* FINs that cross, the missed lookup and the sessions they leave behind are
\* shortcomings of the code, confined to what those formulas say.
SessionsFollow == /\ [](Tcp!NoUseAfterFree /\ Tcp!SessionsEnd)
                  /\ Tcp!SeqExpected /\ Tcp!RemovedTogether
=============================================================================
