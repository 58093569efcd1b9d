--------------------------- MODULE SystemPrograms ---------------------------
(***************************************************************************)
(* The programs that try the operating system: shared memory on Unix and   *)
(* Windows, huge pages, boot records, the cost of sharing a cache line,    *)
(* the time stamp counter; and the command lines of the packet analyser    *)
(* and of the servers of tcp_custom_protocol, around the parts that        *)
(* PfpaTcp and WorkerServer describe.                                      *)
(***************************************************************************)
EXTENDS Naturals, ProgramText

\* A call whose failure ends the process.
OrExit(u) == Try(u, <<Exit>>)

(***************************************************************************)
(* Shared memory.  The segment "shm" outlives the process that made it:    *)
(* the writers and readers leave it, rm_* removes it, try_* does both.     *)
(***************************************************************************)
shm_open_existing == <<Get("shm_fd", {}, <<Exit>>), New("shm", {})>>

\* Made with the wanted size, or else opened; reopened does the rest then.
shm_open_or_create(reopened) ==
    <<Get("shm_fd", {}, <<>>),
      If("shm_fd", <<New("shm", {}), OrExit({"shm_fd"})>>, shm_open_existing \o reopened)>>
shm_map(use) ==
    <<Get("ptr", {"shm_fd"}, <<Exit>>)>> \o use \o <<OrExit({"ptr"}), Put("ptr"), Put("shm_fd")>>
shm_unlink == <<OrExit({"shm"}), Put("shm")>>

rm_shm_mmap == shm_open_existing \o shm_unlink
shm_mmap_reader == shm_open_existing \o <<OrExit({"shm_fd"})>> \o shm_map(<<Do({"ptr"})>>)
shm_mmap_writer == shm_open_or_create(<<OrExit({"shm_fd"})>>) \o shm_map(<<Do({"ptr"}), Loop(<<Do({"ptr"})>>)>>)
try_shm_mmap == shm_open_or_create(<<>>) \o shm_map(<<>>) \o shm_unlink

ftok == <<OrExit({}), Set("shm_key")>>
shmget_existing == <<Get("shm", {"shm_key"}, <<Exit>>)>>
shmget_stat == <<OrExit({"shm"})>>
shmget_or_create == <<Get("shm", {"shm_key"}, shmget_existing \o shmget_stat)>>
shmat(use) == <<GetIn("ptr", {"shm"}, {}, <<Exit>>)>> \o use \o <<OrExit({"ptr"}), Put("ptr")>>

rm_shmget == ftok \o shmget_existing \o shm_unlink
shmget_reader == ftok \o shmget_existing \o shmget_stat \o shmat(<<Do({"ptr"})>>)
shmget_writer == ftok \o shmget_or_create \o shmat(<<Do({"ptr"})>>)
try_shmget == ftok \o shmget_or_create \o shmat(<<>>) \o shm_unlink

OpenFileMapping == <<Get("hMapFile", {}, <<Exit>>)>>
CreateFileMapping == <<Get("hMapFile", {}, OpenFileMapping)>>
MapViewOfFile(use) ==
    <<Get("ptr", {"hMapFile"}, <<Exit>>)>> \o use \o <<OrExit({"ptr"}), Put("ptr"), Put("hMapFile")>>
win_shm_reader == OpenFileMapping \o MapViewOfFile(<<Do({"ptr"})>>)
win_shm_writer == CreateFileMapping \o MapViewOfFile(<<Do({"ptr"})>>)
win_try_shm == CreateFileMapping \o MapViewOfFile(<<>>)

(***************************************************************************)
(* Huge pages.  Any use_hugepage but 0 ends in munmap; for 3, and for a    *)
(* number that is none of the four, the memory came from aligned_alloc.    *)
(***************************************************************************)
huge_parse_args ==
    <<Loop(<<Alt(<< <<Quit>>, <<Set("use_hugepage")>>, <<Unset("use_hugepage")>>, <<>> >>)>>)>>
alloc_datas_hugetlb_mmap == <<Get("map", {}, <<Fail>>), Set("datas")>>
alloc_datas_hugetlbfs ==
    <<Maybe(<<Fail>>), Get("s_fd", {}, <<Fail>>), Get("map", {"s_fd"}, <<Put("s_fd"), Fail>>), Set("datas")>>
huge_aligned == <<Get("heap", {}, <<Fail>>), Set("datas")>>
alloc_datas ==
    <<If("use_hugepage",
         <<Alt(<< <<Call(alloc_datas_hugetlb_mmap, <<>>)>>,
                  <<Call(alloc_datas_hugetlbfs, <<>>)>>,
                  <<Call(huge_aligned \o <<Try({"heap"}, <<Put("heap"), Unset("datas")>>)>>, <<>>)>>,
                  <<Call(huge_aligned, <<>>)>> >>)>>,
         <<Call(huge_aligned, <<>>)>>),
      If("datas", <<Maybe(<<Try({"datas"}, <<>>)>>)>>, <<Fail>>)>>
huge_main ==
    huge_parse_args \o
    <<Call(alloc_datas, <<Exit>>), Loop(<<Do({"datas"})>>), Loop(<<Do({"datas"})>>), Loop(<<Do({"datas"})>>),
      If("use_hugepage", <<Blind({"map"}), OrExit({}), PutIf("map"), PutIf("s_fd")>>, <<Put("heap")>>)>>
hugepage_test == Program(huge_main, {"heap"}, {"map", "s_fd"})

(***************************************************************************)
(* Boot records.                                                           *)
(***************************************************************************)
read_mbr ==
    <<Call(<<Get("fd", {}, <<Fail>>)>> \o [i \in 1..5 |-> Try({"fd"}, <<Fail>>)], <<PutIf("fd"), Fail>>),
      Put("fd"), Set("mbr")>>
read_mbr_main == <<Maybe(<<Exit>>), Call(read_mbr, <<Exit>>), Loop(<<Do({"mbr"})>>), Do({"mbr"})>>
blkid_main ==
    <<Maybe(<<Exit>>), Get("probe", {}, <<Exit>>), OrExit({"probe"}), Set("partlist"),
      OrExit({"partlist"}), Do({"probe", "partlist"}), Put("probe")>>

(***************************************************************************)
(* Cache lines.  A thread spins until it may start.  In case 2 nobody sets *)
(* the numbers that the threads add.                                       *)
(***************************************************************************)
spin == Forever(<<If("ready", <<Break>>, <<>>)>>)
sharing1_increase == <<Try({"th_datas"}, <<>>), spin, Loop(<<Do({"th_datas", "datas"})>>), Do({"th_datas"})>>
sharing2_increase ==
    <<Try({"th_datas"}, <<>>), spin, Loop(<<Do({"th_datas", "datas"}), Blind({"increase"})>>), Do({"th_datas"})>>
sharing_run(increase) ==
    <<New("th_arr", {}), Spawn("th1", increase), Spawn("th2", increase), Set("ready"),
      Join("th1"), Join("th2"), Put("th_arr")>>
sharing1_run == sharing_run(sharing1_increase)
sharing2_run == sharing_run(sharing2_increase)
sharing1_main ==
    <<Maybe(<<Exit>>), New("datas", {}), New("th_datas", {"datas"}), Call(sharing1_run, <<>>),
      Do({"th_datas"}), Put("th_datas"), Put("datas")>>
sharing2_main ==
    <<Maybe(<<Exit>>), Set("datas"), Set("th_datas"), Call(sharing2_run, <<>>), Do({"th_datas"})>>

read_cpu_hz == <<Get("file", {}, <<Fail>>), Loop(<<Do({"file"}), Maybe(<<Set("mhz"), Break>>)>>), Put("file"),
                 If("mhz", <<>>, <<Fail>>)>>
is_constant_tsc == <<Get("file", {}, <<Fail>>), Loop(<<Do({"file"}), Maybe(<<Set("find"), Break>>)>>), Put("file"),
                     If("find", <<>>, <<Fail>>)>>
rdtsc_main == <<Call(is_constant_tsc, <<Exit>>), Call(read_cpu_hz, <<Exit>>), Do({"mhz"})>>

(***************************************************************************)
(* The packet analyser.  A filter without a colon leaves its port unset;   *)
(* a capture that cannot be opened leaves the output file open.            *)
(***************************************************************************)
pfpa_filter == <<NewIn("tuple", {"ctx"}, {}), Maybe(<<Set("port")>>), Do({"tuple"}), Blind({"port"})>>

\* One filter at most: of several, each is an entry of its own in ctx.  The
\* usage is printed, for -h too, before the process exits with all it holds.
pfpa_parse_args(match) ==
    <<Maybe(pfpa_filter),
      Loop(<<Alt(<< <<Exit>>, <<Set("input")>>, <<Set("output")>>, <<Fail>> >> \o match)>>),
      If("input", <<>>, <<Fail>>), If("output", <<>>, <<Fail>>)>>
hello_offline_capture ==
    <<Get("fp", {"output"}, <<Return>>), Get("handle", {"input"}, <<Return>>),
      Loop(<<Do({"handle", "ctx", "fp"})>>), Put("handle"), Put("fp")>>
pfpa_main(parse, prepare, capture) ==
    <<OrExit({}), New("ctx", {}), Call(parse, <<Exit>>)>> \o prepare
      \o <<Call(capture, <<>>), PutIf("tuple"), Put("ctx")>>
tgw_parse_args == pfpa_parse_args(<< <<Set("match_host")>>, <<Set("match_port")>> >>)
str_parse_args == pfpa_parse_args(<<>>)
hello_parse_args == pfpa_parse_args(<<>>)
tgw_offline_capture == hello_offline_capture
str_offline_capture == hello_offline_capture
tgw_main == pfpa_main(tgw_parse_args, <<If("match_host", <<Do({"match_host"})>>, <<>>)>>,
                      tgw_offline_capture)
str_main == pfpa_main(str_parse_args, <<>>, str_offline_capture)
hello_main == pfpa_main(hello_parse_args, <<>>, hello_offline_capture)
pfpa_app(main) == Program(main, {"fp"}, {"ctx", "tuple"})

(***************************************************************************)
(* tcp_custom_protocol: the codec of a dispatcher is never deleted, nor    *)
(* are the loop and the handle of the worker.                              *)
(***************************************************************************)
parse_sys_args ==
    <<Loop(<<Alt(<< <<Quit>>, <<Set("host")>>, <<Set("port")>>, <<>> >>)>>),
      If("host", <<>>, <<Exit>>), If("port", <<>>, <<Exit>>)>>
setTotalMessage == <<Get("callbacks", {}, <<Fail>>)>>
appendCodec == <<Do({"dispatcher", "codec"})>>

\* A callback beyond the table is refused.
registerCallback == <<If("callbacks", <<Do({"callbacks"})>>, <<Fail>>)>>
initDispatcher ==
    <<New("codec", {}), Call(setTotalMessage, <<>>)>> \o appendCodec
      \o [i \in 1..3 |-> Call(registerCallback, <<>>)]
client_initDispatcher == initDispatcher
worker_initDispatcher == initDispatcher
with_dispatcher(init, body) ==
    <<New("dispatcher", {}), Call(init, <<>>), Call(body, <<>>)>>
      \o <<PutIf("callbacks"), Put("dispatcher")>>

\* Nothing tells these loops to exit.
evloop_runs(use) == Forever(<<Do({"evloop", "handle", "dispatcher"} \cup use)>>)
run_tcp_client ==
    with_dispatcher(client_initDispatcher,
                    <<New("evloop", {}), New("handle", {"dispatcher", "evloop"}),
                      Do({"host", "port", "handle"}), evloop_runs({}), Put("handle"), Put("evloop")>>)
run_tcp_server ==
    with_dispatcher(initDispatcher,
                    <<New("handle", {"dispatcher"}), New("evloop", {"handle"}),
                      Get("listen_ctx", {"host", "port"}, <<>>),
                      If("listen_ctx", <<Do({"evloop", "listen_ctx"}), evloop_runs({"listen_ctx"})>>, <<>>),
                      Put("evloop"), Put("handle")>>)

\* The worker gets connections, and so messages to dispatch, from the listener.
worker_thread ==
    <<Forever(<<Do({"worker_evloop", "worker_handle"}), If("listen_ctx", <<Do({"dispatcher"})>>, <<>>)>>)>>
worker_run_tcp_server ==
    with_dispatcher(worker_initDispatcher,
                    <<New("worker_handle", {"dispatcher"}), New("worker_evloop", {"worker_handle"}),
                      Spawn("worker", worker_thread),
                      New("handle", {"dispatcher", "worker_evloop"}), New("evloop", {"handle"}),
                      Get("listen_ctx", {"host", "port"}, <<>>),
                      If("listen_ctx", <<Do({"evloop", "listen_ctx"}), evloop_runs({"listen_ctx"})>>, <<>>),
                      Put("evloop"), Put("handle")>>)
custom_protocol(args, run) == <<OrExit({}), OrExit({})>> \o args \o <<Call(run, <<>>)>>
client_parse_sys_args == parse_sys_args
worker_parse_sys_args == parse_sys_args
client_main == custom_protocol(client_parse_sys_args, run_tcp_client)
server_main == custom_protocol(parse_sys_args, run_tcp_server)
worker_main == custom_protocol(worker_parse_sys_args, worker_run_tcp_server)

SystemPrograms ==
    LET shm(text) == Program(text, {"shm"}, {"shm_fd", "ptr"})
        win(text) == Program(text, {}, {"hMapFile", "ptr"})
        tidy(text) == Program(text, {}, {})
    IN [rm_shm_mmap |-> Program(rm_shm_mmap, {"shm_fd"}, {"shm"}), rm_shmget |-> Program(rm_shmget, {}, {"shm"}),
        shm_mmap_reader |-> shm(shm_mmap_reader), shm_mmap_writer |-> shm(shm_mmap_writer),
        try_shm_mmap |-> Program(try_shm_mmap, {}, {"shm", "shm_fd", "ptr"}),
        shmget_reader |-> shm(shmget_reader), shmget_writer |-> shm(shmget_writer),
        try_shmget |-> Program(try_shmget, {}, {"shm", "ptr"}),
        win_shm_reader |-> win(win_shm_reader), win_shm_writer |-> win(win_shm_writer),
        win_try_shm |-> win(win_try_shm),
        hugepage_test |-> hugepage_test,
        read_mbr |-> tidy(read_mbr_main), blkid |-> Program(blkid_main, {}, {"probe"}),
        sharing1 |-> tidy(sharing1_main), sharing2 |-> tidy(sharing2_main),
        rdtsc |-> tidy(rdtsc_main),
        tgw |-> pfpa_app(tgw_main), str |-> pfpa_app(str_main), hello |-> pfpa_app(hello_main),
        tcp_client |-> Program(client_main, {"codec"}, {}),
        tcp_server |-> Program(server_main, {"codec", "listen_ctx"}, {}),
        tcp_server_worker |->
            Program(worker_main, {"codec", "listen_ctx", "worker_handle", "worker_evloop"}, {})]
=============================================================================
