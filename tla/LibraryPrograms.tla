-------------------------- MODULE LibraryPrograms ---------------------------
(***************************************************************************)
(* The C programs that try one library each: libyaml, libxml2, zlib,       *)
(* miniz, libpcap, ANSI escape codes and getopt.                           *)
(***************************************************************************)
EXTENDS ProgramText

\* An argument that has to be there: the program exits without it.
lib_needs_args == Maybe(<<Exit>>)

(***************************************************************************)
(* libyaml.  The stack of open brackets holds copies of "{" and "[" that   *)
(* nobody frees: pop and destroy are called without a free function.       *)
(***************************************************************************)
yaml_open(work) ==
    <<Get("parser", {}, <<Return>>),
      Call(<<Get("fp", {}, <<Fail>>), Do({"parser", "fp"})>> \o work, <<>>),
      Put("parser"), PutIf("fp")>>
yaml_main(work) == <<lib_needs_args, Call(yaml_open(work), <<>>)>>
yaml_case1 == Program(yaml_main(<<>>), {}, {})

STACK_PUSH == <<New("data", {}), Do({"stack", "data"}), Set("top")>>

\* After a pop the stack may or may not be empty.
yaml_pop == <<Do({"stack"}), Maybe(<<Unset("top")>>)>>

\* A block that ends looks at the top of the stack, if there is one; a flow
\* sequence that ends pops without looking.
on_token ==
    <<Do({"stack", "token"}),
      Alt(<< <<>>,
             <<Set("status")>>,
             STACK_PUSH,
             STACK_PUSH \o <<Set("status")>>,
             yaml_pop,
             <<If("top", <<Do({"data"})>> \o yaml_pop, <<>>)>>,
             <<Do({"status", "token"})>> >>)>>
yaml_scan(on_item, item) ==
    <<New("stack", {}), Set("status"),
      Loop(<<Get(item, {"parser"}, <<Break>>)>> \o on_item \o <<Put(item), Maybe(<<Break>>)>>),
      Put("stack")>>
yaml2_run_parser == yaml_scan(on_token, "token")
yaml2_parse_yaml_file == yaml_main(<<Call(yaml2_run_parser, <<>>)>>)
yaml_case2 == Program(yaml2_parse_yaml_file, {"data"}, {"data"})

on_event ==
    <<Do({"stack", "event"}),
      Alt(<< <<>>,
             <<Do({"status"})>> \o STACK_PUSH \o <<Set("status")>>,
             yaml_pop,
             <<Do({"event"})>>,
             <<If("top", <<Do({"data", "status", "event"}), Maybe(<<Set("status")>>)>>,
                         <<Do({"event"}), Set("status")>>)>> >>)>>
yaml3_run_parser == yaml_scan(on_event, "event")
yaml3_parse_yaml_file == yaml_main(<<Call(yaml3_run_parser, <<>>)>>)
yaml_case3 == Program(yaml3_parse_yaml_file, {"data"}, {"data"})

(***************************************************************************)
(* libxml2.                                                                *)
(***************************************************************************)
xml_string(s) == <<NewIn(s, {"doc"}, {}), Do({s}), Put(s)>>

\* The root element, which must be a <story>.
xml_root == <<Try({"doc"}, <<Fail>>), Do({"doc"}), Maybe(<<Fail>>)>>

parse_storyinfo == <<Loop(<<Maybe(xml_string("key"))>>)>>
xml1_parse_doc ==
    <<Get("doc", {}, <<Return>>),
      Call(xml_root \o <<Loop(<<Maybe(<<Call(parse_storyinfo, <<>>)>>)>>)>>, <<>>),
      PutIf("doc")>>
xml_case1 == Program(<<lib_needs_args, Call(xml1_parse_doc, <<>>)>>, {}, {})

get_doc == <<Get("doc", {}, <<Fail>>)>>

\* Mutant of get_nodeset: the context is freed before the expression is evaluated.
ContextFreedFirst ==
    <<GetIn("context", {"doc"}, {}, <<Fail>>), Put("context"), Get("result", {"context"}, <<>>),
      If("result", <<>>, <<Fail>>), Maybe(<<Put("result"), Fail>>)>>

get_nodeset ==
    <<GetIn("context", {"doc"}, {}, <<Fail>>), Get("result", {"context"}, <<>>), Put("context"),
      If("result", <<>>, <<Fail>>), Maybe(<<Put("result"), Fail>>)>>
xml2_main ==
    <<lib_needs_args, Call(get_doc, <<Exit>>), Call(get_nodeset, <<>>),
      If("result", <<Loop(<<Do({"result"})>> \o xml_string("keyword")), Put("result")>>, <<>>),
      Put("doc")>>
xml_case2 == Program(xml2_main, {}, {})

xml_saved(parse) == <<lib_needs_args, Call(parse, <<>>), If("doc", <<Do({"doc"}), Put("doc")>>, <<>>)>>
xml3_parse_doc ==
    <<Get("doc", {}, <<Fail>>),
      Call(xml_root \o <<Loop(<<Maybe(<<Do({"doc"})>>)>>)>>, <<PutIf("doc"), Fail>>)>>
xml_case3 == Program(xml_saved(xml3_parse_doc), {}, {})
xml4_parse_doc ==
    <<Get("doc", {}, <<Fail>>), Call(xml_root \o <<Do({"doc"}), Do({"doc"})>>, <<PutIf("doc"), Fail>>)>>
xml_case4 == Program(xml_saved(xml4_parse_doc), {}, {})

\* A document that cannot be parsed is noticed by its missing root only, for
\* which xmlDocGetRootElement() is called all the same.
get_reference == <<Loop(<<Maybe(xml_string("uri"))>>)>>
xml5_parse_doc ==
    <<Get("doc", {}, <<>>),
      Call(<<Blind({"doc"}), If("doc", xml_root, <<Fail>>), Call(get_reference, <<>>)>>, <<>>),
      PutIf("doc")>>
xml_case5 == Program(<<lib_needs_args, Call(xml5_parse_doc, <<>>)>>, {}, {})

(***************************************************************************)
(* zlib.                                                                   *)
(***************************************************************************)
zlib_round(pack, unpack) ==
    <<New("compr", {}), New("uncompr", {}),
      Call(pack, <<Exit>>), Call(unpack, <<Exit>>), Do({"compr", "uncompr"}),
      Put("compr"), Put("uncompr")>>
zlib_one == zlib_round(<<Try({"compr"}, <<Fail>>)>>, <<Try({"compr", "uncompr"}, <<Fail>>)>>)
compress_uncompress == Program(zlib_one, {}, {"compr", "uncompr"})

zlib_ends(u) == Try(u \cup {"strm"}, <<Put("strm"), Fail>>)
do_compress ==
    <<Get("strm", {}, <<Fail>>), zlib_ends({"compr"}), zlib_ends({}), zlib_ends({"compr"}),
      Put("strm")>>
do_uncompress == <<Get("strm", {"compr"}, <<Fail>>), zlib_ends({"compr", "uncompr"}), Put("strm")>>
deflate_inflate == Program(zlib_round(do_compress, do_uncompress), {}, {"compr", "uncompr"})

\* The files of a copy through gzip: both are closed, on every path.
gz_copy(body) ==
    <<Call(<<Get("input_fp", {}, <<Fail>>), Get("output_fp", {}, <<Fail>>), body>>,
           <<PutIf("input_fp"), PutIf("output_fp"), Fail>>),
      Put("input_fp"), Put("output_fp")>>
gz_file_size == <<Get("fp", {}, <<Fail>>), Do({"fp"}), Put("fp")>>
compress_one_file ==
    gz_copy(Loop(<<Do({"input_fp"}), Try({"output_fp"}, <<Fail>>)>>)) \o <<Call(gz_file_size, <<>>)>>
decompress_one_file == gz_copy(Loop(<<Do({"input_fp"}), Do({"output_fp"})>>))
gz_main == <<lib_needs_args, Alt(<< <<Call(compress_one_file, <<Exit>>)>>,
                                   <<Call(decompress_one_file, <<Exit>>)>>, <<>> >>)>>
gz == Program(gz_main, {}, {})

(***************************************************************************)
(* miniz.  The archive that could not be written is removed again; the one *)
(* that could not be finalised is reported as completed.                   *)
(***************************************************************************)
zip_fails == <<Set("has_err"), Fail>>
zip_add ==
    <<Get("fp", {}, zip_fails), Do({"fp"}), Get("buf", {}, zip_fails), Try({"fp", "buf"}, zip_fails),
      Try({"zipfile", "buf"}, zip_fails), Put("buf"), Put("fp")>>
run_zip ==
    <<Get("zipfile", {}, <<Exit>>), Set("output"),
      Call(<<Loop(zip_add), Try({"zipfile"}, <<Fail>>), Set("finalized")>>, <<>>),
      Put("zipfile"), PutIf("buf"), PutIf("fp"),
      If("has_err", <<Unset("output")>>, <<Do({"output"}), Blind({"finalized"})>>)>>
zip_main(work) == <<Try({}, <<Exit>>), lib_needs_args, Call(work, <<>>)>>
case01_zip == Program(zip_main(run_zip), {}, {})

run_unzip ==
    <<Get("zipfile", {}, <<Exit>>), Do({"zipfile"}),
      Loop(<<Do({"zipfile"}), Get("p", {"zipfile"}, <<Continue>>),
             Get("fp", {}, <<>>), If("fp", <<Do({"p", "fp"}), Put("fp")>>, <<>>), Put("p")>>),
      Put("zipfile")>>
case02_unzip == Program(zip_main(run_unzip), {}, {})
handle_callback == <<Do({"handle"}), Maybe(<<Set("percent")>>), Do({"percent"})>>
run_unzip_stream ==
    <<Get("zipfile", {}, <<Exit>>), Do({"zipfile"}),
      Loop(<<Do({"zipfile"}), Set("handle"), Set("percent"), Loop(handle_callback),
             Try({"zipfile", "handle"}, <<Continue>>), Do({"handle"})>>),
      Put("zipfile")>>
case03_unzip_stream == Program(zip_main(run_unzip_stream), {}, {})

(***************************************************************************)
(* libpcap.  A device is picked from the list by its name and captured     *)
(* from while the list is there.                                           *)
(***************************************************************************)
pcap_parse_sys_args ==
    <<Loop(<<Alt(<< <<Set("device_arg")>>, <<Exit>>, <<>> >>)>>), If("device_arg", <<>>, <<Exit>>)>>
parse_sys_args_ch04 == pcap_parse_sys_args
parse_sys_args_ch05 == pcap_parse_sys_args
parse_sys_args_ch06 == pcap_parse_sys_args
parse_sys_args_ch07 == pcap_parse_sys_args

pcap_devices == <<Get("device_list", {}, <<Exit>>)>>
pcap_find(args, capture) ==
    args \o pcap_devices
      \o <<Loop(<<Do({"device_list", "device_arg"}), Maybe(<<Set("device"), Break>>)>>),
           If("device", <<Call(capture, <<>>)>>, <<>>), PutIf("device_list")>>

ch01_main == pcap_devices \o <<Loop(<<Do({"device_list"})>>), PutIf("device_list")>>
find_device == Program(ch01_main, {}, {})

output_inet_dev_info == <<Try({"device_list"}, <<Return>>), Try({"device_list"}, <<>>), Do({})>>
output_inet6_dev_info == output_inet_dev_info
output_dev_info ==
    <<Loop(<<Do({"device_list"}), Maybe(<<Continue>>), Maybe(<<Continue>>),
             Alt(<< <<Call(output_inet_dev_info, <<>>)>>, <<Call(output_inet6_dev_info, <<>>)>>,
                    <<>> >>)>>)>>
ch02_main == pcap_devices \o <<Loop(<<Call(output_dev_info, <<>>)>>), PutIf("device_list")>>
get_device_info == Program(ch02_main, {}, {})

\* No packet within the time-out: the handle stays open.
ch03_live_capture ==
    <<Get("handle", {"device_list", "device"}, <<Return>>), Try({"handle"}, <<Return>>),
      Do({"handle"}), Put("handle")>>
ch03_main == pcap_find(pcap_parse_sys_args, ch03_live_capture)
live_capture == Program(ch03_main, {"handle"}, {})

pcap_loop(handler) == <<Loop(handler), Put("handle")>>
ch04_my_packet_handler == <<Do({"handle"})>>
ch04_live_capture ==
    <<Get("handle", {"device_list", "device"}, <<Return>>)>> \o pcap_loop(ch04_my_packet_handler)
ch04_main == pcap_find(parse_sys_args_ch04, ch04_live_capture)
process_packets == Program(ch04_main, {}, {})
ch05_my_packet_handler == <<Do({"handle"}), Alt(<< <<>>, <<>>, <<>>, <<>>, <<>> >>)>>
ch05_live_capture ==
    <<Get("handle", {"device_list", "device"}, <<Return>>)>> \o pcap_loop(ch05_my_packet_handler)
ch05_main == pcap_find(parse_sys_args_ch05, ch05_live_capture)
detect_packet_type == Program(ch05_main, {}, {})

\* A packet that was not captured whole is left alone.
ipv4_packet_handler ==
    <<Do({"handle"}), Maybe(<<Return>>), Alt(<< <<Do({"handle"})>>, <<>>, <<>> >>)>>
packet_handle == <<Do({"handle"}), Alt(<< <<Call(ipv4_packet_handler, <<>>)>>, <<>>, <<>> >>)>>
ipv4_packet_handler_ch07 == ipv4_packet_handler
packet_handle_ch07 == <<Do({"handle"}), Alt(<< <<Call(ipv4_packet_handler_ch07, <<>>)>>, <<>>, <<>> >>)>>
ch06_live_capture ==
    <<Get("handle", {"device_list", "device"}, <<Exit>>)>> \o pcap_loop(packet_handle)
ch06_main == pcap_find(parse_sys_args_ch06, ch06_live_capture)
data_payload == Program(ch06_main, {}, {"device_list"})
offline_capture == <<Get("handle", {"device_arg"}, <<Exit>>)>> \o pcap_loop(packet_handle_ch07)
pcap_file == Program(parse_sys_args_ch07 \o <<Call(offline_capture, <<>>)>>, {}, {})

(***************************************************************************)
(* ANSI escape codes.  The alternate buffer and the hidden cursor are the  *)
(* terminal's, not the process's: cleanup() gives them back at exit, from  *)
(* the handler of SIGINT and SIGTERM too.  A signal that comes before the  *)
(* handlers are installed leaves the terminal as it is.                    *)
(***************************************************************************)
ansi_on_win_resize == <<Set("win_size")>>
ansi06_on_win_resize == ansi_on_win_resize
ansi07_on_win_resize == ansi_on_win_resize
ansi_frame(render) == render \o <<Maybe(<<Do({})>>)>>
ansi04_message_loop ==
    <<Forever(<<Alt(<< ansi_frame(<<Do({"win_size"})>>), ansi_on_win_resize >>)>>)>>
ansi04_main == ansi_on_win_resize \o <<Do({"win_size"}), Call(ansi04_message_loop, <<>>)>>
win_resize == Program(ansi04_main, {}, {})

ansi_cleanup == <<Put("alter_buf"), PutIf("cursor_off")>>
ansi06_cleanup == ansi_cleanup
ansi07_cleanup == ansi_cleanup
cleanup_die(cleanup) == cleanup \o <<Exit>>
ansi_enter(cleanup) ==
    <<New("alter_buf", {}), Maybe(<<Exit>>), Maybe(cleanup_die(cleanup)),
      NewIn("cursor_off", {}, {"alter_buf"})>>
ansi05_main == ansi_enter(ansi_cleanup) \o <<Maybe(cleanup_die(ansi_cleanup))>> \o ansi_cleanup
alternate_buffer == Program(ansi05_main, {}, {"alter_buf"})

ansi06_on_render == <<Do({"win_size", "alter_buf"})>>
ansi06_message_loop ==
    <<Forever(<<Alt(<< ansi_frame(ansi06_on_render), ansi06_on_win_resize,
                       cleanup_die(ansi06_cleanup) >>)>>)>>
ansi06_main == ansi_enter(ansi06_cleanup) \o ansi06_on_win_resize \o <<Call(ansi06_message_loop, <<>>)>>
show_msg == Program(ansi06_main, {}, {"alter_buf"})

\* The message keeps its colour until it meets a border.
ansi07_on_update ==
    <<Do({"g_msg"}), Maybe(<<Return>>), Do({"win_size"}), Maybe(<<Set("color")>>),
      Maybe(<<Set("color")>>)>>
ansi07_on_render == <<Do({"g_msg", "win_size", "alter_buf"})>>
ansi07_message_loop ==
    <<Forever(<<Alt(<< ansi_frame(<<Call(ansi07_on_update, <<>>)>> \o ansi07_on_render),
                       ansi07_on_win_resize, cleanup_die(ansi07_cleanup) >>)>>)>>
ansi07_main ==
    ansi_enter(ansi07_cleanup) \o ansi07_on_win_resize
      \o <<Do({"win_size"}), Set("g_msg"), Call(ansi07_message_loop, <<>>)>>
animation_msg == Program(ansi07_main, {}, {"alter_buf"})

(***************************************************************************)
(* getopt.  optarg is set by an option that takes an argument, may be set  *)
(* by one that can do without, and is none otherwise.                      *)
(***************************************************************************)
opt_flag == <<Unset("optarg")>>
opt_arg == <<Set("optarg"), Do({"optarg"})>>
opt_may == <<Alt(<< <<Set("optarg")>>, <<Unset("optarg")>> >>),
             If("optarg", <<Do({"optarg"})>>, <<>>)>>
getopt(cases) == <<Loop(<<Alt(cases)>>)>>

sample1_main == getopt(<< opt_flag, opt_flag, opt_flag >>)
sample2_main == getopt(<< opt_arg, opt_arg, opt_flag >>)
sample3_main == getopt(<< opt_arg, opt_arg, opt_flag, opt_flag, opt_flag >>)
sample4_main == sample3_main \o <<Maybe(<<Loop(<<Do({})>>)>>)>>
sample5_main == getopt(<< opt_arg, opt_arg, opt_flag, opt_flag, opt_flag, opt_arg >>)
sample6_main == getopt(<< opt_may, opt_arg, opt_flag, opt_flag, opt_flag, opt_arg >>)
sample7_main == getopt(<< opt_may, opt_arg, opt_flag, opt_flag, opt_arg, opt_may, opt_flag, opt_flag >>)
sample8_main == getopt(<< opt_may, opt_arg, opt_arg, opt_flag, opt_arg, opt_flag, opt_arg, opt_may,
                          opt_flag, opt_flag >>)

LibraryPrograms ==
    [yaml_case1 |-> yaml_case1, yaml_case2 |-> yaml_case2, yaml_case3 |-> yaml_case3,
     xml_case1 |-> xml_case1, xml_case2 |-> xml_case2, xml_case3 |-> xml_case3,
     xml_case4 |-> xml_case4, xml_case5 |-> xml_case5,
     compress_uncompress |-> compress_uncompress, deflate_inflate |-> deflate_inflate, gz |-> gz,
     case01_zip |-> case01_zip, case02_unzip |-> case02_unzip, case03_unzip_stream |-> case03_unzip_stream,
     find_device |-> find_device, get_device_info |-> get_device_info, live_capture |-> live_capture,
     process_packets |-> process_packets, detect_packet_type |-> detect_packet_type,
     data_payload |-> data_payload, pcap_file |-> pcap_file,
     win_resize |-> win_resize, alternate_buffer |-> alternate_buffer, show_msg |-> show_msg,
     animation_msg |-> animation_msg,
     getopt1 |-> Program(sample1_main, {}, {}), getopt2 |-> Program(sample2_main, {}, {}),
     getopt3 |-> Program(sample3_main, {}, {}), getopt4 |-> Program(sample4_main, {}, {}),
     getopt5 |-> Program(sample5_main, {}, {}), getopt6 |-> Program(sample6_main, {}, {}),
     getopt7 |-> Program(sample7_main, {}, {}), getopt8 |-> Program(sample8_main, {}, {})]
=============================================================================
