-------------------------- MODULE NcursesPrograms --------------------------
(***************************************************************************)
(* The programs of use_ncurses that draw and wait for a key.  Curses mode  *)
(* is the value "curses": every drawing call needs it, endwin() ends it    *)
(* and leaves the windows there are.  Module Screens models the programs   *)
(* whose menus and panels carry state from key to key.                     *)
(***************************************************************************)
EXTENDS ProgramText

initscr == <<Set("curses")>>
endwin == <<Unset("curses")>>
draw == Do({"curses"})
getch == Do({"curses"})

ncurses_hello == Program(initscr \o <<draw, getch>> \o endwin, {}, {})

ncurses_init_func ==
    Program(initscr \o <<draw, getch, Alt(<< <<draw>>, <<draw, draw, draw>> >>), draw, getch>>
              \o endwin, {}, {})

ncurses_simple_printw ==
    Program(initscr \o <<draw, Forever(<<draw, draw, draw, getch, Maybe(<<Break>>)>>)>> \o endwin,
            {}, {})

ncurses_simple_scanw ==
    Program(initscr \o <<draw, Set("str"), Do({"curses", "str"}), getch>> \o endwin, {}, {})

\* The file stays open until the screen is left.
ncurses_simple_attr ==
    Program(<<Maybe(<<Exit>>), Get("fp", {}, <<Exit>>)>> \o initscr
              \o <<Loop(<<Do({"fp"}), Maybe(<<draw, getch, draw>>), Alt(<< <<draw, draw>>, <<draw>> >>),
                          draw, Maybe(<<draw>>)>>),
                   getch>>
              \o endwin \o <<Put("fp")>>,
            {}, {})

ncurses_use_chgat ==
    Program(initscr \o <<Set("pair"), draw, Do({"curses", "pair"}), draw, getch>> \o endwin, {}, {})

\* The window is deleted and made again at its new place for every arrow
\* key; the last one is left.
create_newwin == <<New("my_win", {"curses"}), Do({"my_win", "curses"})>>
destroy_win == <<Do({"my_win", "curses"}), Put("my_win")>>
ncurses_win_border ==
    Program(initscr \o <<draw>> \o create_newwin
              \o <<Loop(<<getch, Maybe(destroy_win \o create_newwin)>>)>> \o endwin,
            {"my_win"}, {})

\* create_box(): drawn when the flag is set, overwritten with blanks if not.
create_box(flag) == IF flag THEN <<Do({"curses", "win"}), draw>>
                            ELSE <<Loop(<<Do({"curses", "win"})>>), draw>>
ncurses_more_border ==
    Program(initscr \o <<Set("win"), draw>> \o create_box(TRUE)
              \o <<Loop(<<getch, Maybe(create_box(FALSE) \o <<Set("win")>> \o create_box(TRUE))>>)>>
              \o endwin,
            {}, {})

ncurses_simple_color ==
    Program(initscr \o <<Maybe(endwin \o <<Exit>>), Maybe(<<draw>>), Set("pair"),
                         Do({"curses", "pair"}), draw, getch>> \o endwin,
            {}, {})

\* A shell runs between endwin() and the return to curses mode.
ncurses_tmp_leave ==
    Program(initscr \o <<draw, getch, Set("tty_modes")>> \o endwin
              \o <<Do({}), Do({"tty_modes"})>> \o initscr \o <<draw, draw, getch>> \o endwin,
            {}, {})

ncurses_acs_var == Program(initscr \o <<draw, draw, getch>> \o endwin, {}, {})

\* Panels live on their windows; neither is deleted.
ncurses_panel_basic ==
    Program(initscr
              \o <<New("w0", {"curses"}), New("w1", {"curses"}), New("w2", {"curses"}),
                   Do({"w0", "w1", "w2"}),
                   NewIn("p0", {"w0"}, {}), NewIn("p1", {"w1"}, {}), NewIn("p2", {"w2"}, {}),
                   Do({"curses", "p0", "p1", "p2"}), getch>>
              \o endwin,
            {"w0", "w1", "w2", "p0", "p1", "p2"}, {})

\* free_item() refuses an item that is connected to a menu, and the items
\* are freed before the menu: they stay, and so does their array.
ncurses_menu_basic ==
    Program(initscr
              \o <<New("my_items", {}), New("items", {"my_items"}),
                   NewIn("my_menu", {"items"}, {"my_items"}), Do({"curses", "my_menu"}),
                   Loop(<<getch, Maybe(<<Do({"my_menu"})>>)>>),
                   Do({"my_items", "items"}), Put("my_menu")>>
              \o endwin,
            {"my_items", "items"}, {})

ncurses_try ==
    Program(initscr
              \o <<draw,
                   Forever(<<getch, Alt(<< <<Set("to_exit")>>, <<>>,
                                           <<Maybe(<<Maybe(<<draw, draw>>)>>)>> >>),
                             If("to_exit", <<Break>>, <<>>)>>)>>
              \o endwin,
            {}, {})

NcursesPrograms ==
    [ncurses_hello |-> ncurses_hello, ncurses_init_func |-> ncurses_init_func,
     ncurses_simple_printw |-> ncurses_simple_printw, ncurses_simple_scanw |-> ncurses_simple_scanw,
     ncurses_simple_attr |-> ncurses_simple_attr, ncurses_use_chgat |-> ncurses_use_chgat,
     ncurses_win_border |-> ncurses_win_border, ncurses_more_border |-> ncurses_more_border,
     ncurses_simple_color |-> ncurses_simple_color, ncurses_tmp_leave |-> ncurses_tmp_leave,
     ncurses_acs_var |-> ncurses_acs_var, ncurses_panel_basic |-> ncurses_panel_basic,
     ncurses_menu_basic |-> ncurses_menu_basic, ncurses_try |-> ncurses_try]
=============================================================================
