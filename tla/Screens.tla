------------------------------- MODULE Screens -------------------------------
(***************************************************************************)
(* The interactive programs of use_ncurses: a menu driven by the keys, two *)
(* driven by the mouse, and three stacks of panels that are browsed, moved *)
(* and resized, or hidden and shown.  A step is one key or click, with all *)
(* that the program's loop does for it.                                    *)
(*                                                                         *)
(* What ncurses does is external: newwin() fails for a negative size or    *)
(* place and takes 0 for "to the edge", move_panel() refuses to leave the  *)
(* screen, top_panel() and hide_panel() change the deck.                   *)
(***************************************************************************)
EXTENDS Integers, FiniteSets, SequencesExt

CONSTANTS Items,      \* n_choices, n_item
          NPanels,    \* 3 in the programs
          LINES, COLS, \* the screen
          MaxKeys     \* bound on the keys pressed

Apps == {"simple_key", "menu_with_mouse", "play_menu", "browsing", "move_resize", "hide_show"}
Panels == 1 .. NPanels
None == -1

VARIABLES app, keys, done,
          sel,      \* highlight, choice or selected
          drawn,    \* history: the item drawn where the last click was, or None
          deck,     \* the panels shown, the top one last
          top,      \* top, stack_top
          hide,     \* PANEL_DATA.hide
          geo,      \* the windows of the panels
          data,     \* PANEL_DATA: what the program thinks they are
          new,      \* newx, newy, neww, newh
          mode,     \* "none", "size" or "move"
          dangling  \* the panels whose window was deleted under them

vars == <<app, keys, done, sel, drawn, deck, top, hide, geo, data, new, mode, dangling>>

menuVars == <<sel, drawn>>
panelVars == <<deck, top, hide, geo, data, new, mode, dangling>>

\* Where the menus are drawn: the window's corner, the rows of its items and
\* the columns their text takes (TextLen wide).
TextLen == 2
MenuWidth == 4
MenuHeight == IF app = "play_menu" THEN Items + 2 ELSE Items + 4
starty == (LINES - MenuHeight) \div 2
startx == (COLS - MenuWidth) \div 2
print_menu(i, y, x) == y = starty + 2 + (i - 1) /\ x \in startx + 2 .. startx + 1 + TextLen
show_menu(i, y, x) == y = starty + 1 + i /\ x \in startx + 2 .. startx + 1 + TextLen
OnText(i, y, x) == IF app = "play_menu" THEN show_menu(i, y, x) ELSE print_menu(i, y, x)

ItemIds == IF app = "play_menu" THEN 0 .. Items - 1 ELSE 1 .. Items

-----------------------------------------------------------------------------
(* simple_key.c: keys move the highlight around; Enter chooses and ends.    *)
simple_key ==
    /\ app = "simple_key"
    /\ \/ sel' = (IF sel = 1 THEN Items ELSE sel - 1) /\ done' = FALSE
       \/ sel' = (IF sel = Items THEN 1 ELSE sel + 1) /\ done' = FALSE
       \/ sel' = sel /\ done' = TRUE
       \/ sel' = sel /\ done' = FALSE
    /\ UNCHANGED <<drawn, panelVars>>

Clicked(y, x) ==
    drawn' = IF \E i \in ItemIds : OnText(i, y, x)
               THEN CHOOSE i \in ItemIds : OnText(i, y, x) ELSE None

\* Mutant of report_choice: the row is not the one of the mouse plus one.
NotBelow(my, mx) ==
    LET hit == {c \in 0 .. Items - 1 : my = starty + 2 + c
                                         /\ mx >= startx + 2 /\ mx <= startx + 2 + TextLen}
    IN IF hit = {} THEN sel
       ELSE IF hit = {Items - 1} THEN None ELSE (CHOOSE c \in hit : TRUE) + 1

\* report_choice(): with the mouse one to the right and below; a click next
\* to every item leaves the choice, one on the last item (Exit) makes it -1,
\* which ends the program.
report_choice(my, mx) ==
    LET hit == {c \in 0 .. Items - 1 : my = starty + 3 + c
                                         /\ mx >= startx + 2 /\ mx <= startx + 2 + TextLen}
    IN IF hit = {} THEN sel
       ELSE IF hit = {Items - 1} THEN None ELSE (CHOOSE c \in hit : TRUE) + 1

menu_with_mouse ==
    /\ app = "menu_with_mouse"
    /\ \/ \E y \in 0 .. LINES - 1, x \in 0 .. COLS - 1 :
             /\ sel' = report_choice(y + 1, x + 1)
             /\ done' = (sel' = None)
             /\ Clicked(y, x)
       \/ done' = TRUE /\ UNCHANGED menuVars
       \/ done' = FALSE /\ UNCHANGED menuVars
    /\ UNCHANGED panelVars

\* play_menu.c: nothing is selected at first, after a click outside, and
\* never by the keys.
PlaySelect(y, x) ==
    LET rx == x - startx - 1
        ry == y - starty - 1
    IN IF ry < 0 \/ ry >= Items THEN None
       ELSE IF rx >= 0 /\ rx <= MenuWidth THEN ry ELSE None

play_menu ==
    /\ app = "play_menu"
    /\ \/ /\ sel' = (IF sel \in {None, 0} THEN (IF sel = None THEN 0 ELSE Items - 1) ELSE sel - 1)
          /\ done' = FALSE /\ drawn' = None
       \/ /\ sel' = (IF sel = None \/ sel + 1 >= Items THEN 0 ELSE sel + 1)
          /\ done' = FALSE /\ drawn' = None
       \/ \E y \in 0 .. LINES - 1, x \in 0 .. COLS - 1 :
             sel' = PlaySelect(y, x) /\ Clicked(y, x) /\ done' = FALSE
       \/ done' \in BOOLEAN /\ UNCHANGED menuVars
    /\ UNCHANGED panelVars

-----------------------------------------------------------------------------
(* The panels.                                                              *)
Raise(p) == deck' = Append(SelectSeq(deck, LAMBDA q : q # p), p)

\* init_wins(): each window further down and to the right; set_user_ptrs()
\* copies the place and size of each and joins the panels to a ring, of which
\* Tab raises the next one.
init_wins == [p \in Panels |-> [x |-> p - 1, y |-> p - 1, w |-> 2, h |-> 1]]
set_user_ptrs(g) == [p \in Panels |-> [x |-> g[p].x, y |-> g[p].y, w |-> g[p].w, h |-> g[p].h]]
NextPanel(p) == IF p = NPanels THEN 1 ELSE p + 1
panel_browsing ==
    /\ app = "browsing"
    /\ \/ top' = NextPanel(top) /\ Raise(top')
       \/ UNCHANGED <<top, deck>>
    /\ done' = FALSE
    /\ UNCHANGED <<hide, geo, data, new, mode, dangling, menuVars>>

panel_hide_show ==
    /\ app = "hide_show"
    /\ \/ \E p \in Panels :
             /\ hide' = [hide EXCEPT ![p] = ~@]
             /\ IF hide[p] THEN Raise(p) ELSE deck' = SelectSeq(deck, LAMBDA q : q # p)
       \/ UNCHANGED <<hide, deck>>
    /\ done' = FALSE
    /\ UNCHANGED <<top, geo, data, new, mode, dangling, menuVars>>

OnScreen(g) == /\ g.x >= 0 /\ g.y >= 0 /\ g.w > 0 /\ g.h > 0
               /\ g.x + g.w <= COLS /\ g.y + g.h <= LINES

\* my_move_panel(): the panel's data take the new place whether or not
\* move_panel() could go there.
my_move_panel(n) ==
    LET at == [geo[top] EXCEPT !.x = n.x, !.y = n.y]
    IN /\ geo' = IF OnScreen(at) THEN [geo EXCEPT ![top] = at] ELSE geo
       /\ data' = [data EXCEPT ![top].x = n.x, ![top].y = n.y]
       /\ UNCHANGED dangling

\* newwin(): NULL, or a window; 0 means up to the edge of the screen.
newwin(n) == [n EXCEPT !.w = IF @ = 0 THEN COLS - n.x ELSE @,
                       !.h = IF @ = 0 THEN LINES - n.y ELSE @]

\* my_resize_panel(): nothing for a place above or left of the screen; the
\* old window is deleted even if there is no new one to replace it.
my_resize_panel(n) ==
    IF n.x < 0 \/ n.y < 0 THEN UNCHANGED <<geo, data, dangling>>
    ELSE /\ IF n.w < 0 \/ n.h < 0
              THEN dangling' = dangling \cup {top} /\ UNCHANGED geo
              ELSE geo' = [geo EXCEPT ![top] = newwin(n)] /\ UNCHANGED dangling
         /\ data' = [data EXCEPT ![top] = n]

\* The four arrow keys: how each of them moves, and how it resizes.
Moved(n, key) == CASE key = "left" -> [n EXCEPT !.x = @ - 1] [] key = "right" -> [n EXCEPT !.x = @ + 1]
                   [] key = "up" -> [n EXCEPT !.y = @ - 1] [] key = "down" -> [n EXCEPT !.y = @ + 1]
Sized(n, key) == CASE key = "left" -> [Moved(n, key) EXCEPT !.w = @ + 1]
                   [] key = "right" -> [Moved(n, key) EXCEPT !.w = @ - 1]
                   [] key = "up" -> [Moved(n, key) EXCEPT !.h = @ + 1]
                   [] key = "down" -> [Moved(n, key) EXCEPT !.h = @ - 1]

ArrowKey ==
    /\ \E key \in {"left", "right", "up", "down"} :
          \/ mode = "size" /\ new' = Sized(new, key) /\ my_resize_panel(new')
          \/ mode = "move" /\ new' = Moved(new, key) /\ my_move_panel(new')
          \/ mode = "none" /\ UNCHANGED <<new, geo, data, dangling>>
    /\ UNCHANGED <<deck, top, mode>>

panel_move_resize ==
    /\ app = "move_resize"
    /\ \/ /\ top' = NextPanel(top) /\ Raise(top') /\ new' = data[top']
          /\ UNCHANGED <<geo, data, mode, dangling>>
       \/ mode' \in {"size", "move", "none"} /\ UNCHANGED <<deck, top, geo, data, new, dangling>>
       \/ ArrowKey
    /\ done' = FALSE
    /\ UNCHANGED <<hide, menuVars>>

\* F1.
KEY_F1 == /\ app \in {"browsing", "hide_show", "move_resize"}
          /\ done' = TRUE
          /\ UNCHANGED <<menuVars, panelVars>>

-----------------------------------------------------------------------------
Init == /\ app \in Apps /\ keys = 0 /\ done = FALSE
        /\ sel = (IF app = "play_menu" THEN None ELSE 1)
        /\ drawn = None
        /\ deck = [p \in Panels |-> p]
        /\ top = NPanels
        /\ hide = [p \in Panels |-> FALSE]
        /\ geo = init_wins
        /\ data = set_user_ptrs(geo)
        /\ new = geo[NPanels]
        /\ mode = "none"
        /\ dangling = {}

\* Drawing a panel whose window is deleted is undefined: nothing is said of
\* the program after that.
Next == /\ ~done /\ dangling = {} /\ keys < MaxKeys
        /\ keys' = keys + 1
        /\ \/ simple_key \/ menu_with_mouse \/ play_menu
           \/ panel_browsing \/ panel_hide_show \/ panel_move_resize \/ KEY_F1
        /\ UNCHANGED app

Spec == Init /\ [][Next]_vars

-----------------------------------------------------------------------------
\* What the menus show is one of their items, and the item drawn under the
\* last click is the one selected (or, for Exit, the program ends):
\* report_choice() and play_menu.c undo the offsets with which print_menu()
\* and show_menu() draw.
ClickHits ==
    /\ \/ sel \in ItemIds
       \/ sel = None /\ (app = "play_menu" \/ (app = "menu_with_mouse" /\ done))
    /\ drawn # None => sel = (IF app = "menu_with_mouse" /\ drawn = Items THEN None ELSE drawn)

\* The programs' own record of their panels agrees with the deck: the panel
\* thought to be on top is on top, the ones shown are those not flagged as
\* hidden, and a place and size kept for a panel that fits on the screen is
\* where its window is, whatever moves and resizes were refused before; the
\* window is there unless it was sized below nothing.
DeckAgrees ==
    /\ app \in {"browsing", "move_resize"} => Last(deck) = top
    /\ ToSet(deck) = {p \in Panels : ~hide[p]} /\ Len(deck) = Cardinality(ToSet(deck))
    /\ \A p \in Panels : OnScreen(data[p]) => data[p] = geo[p] /\ p \notin dangling
=============================================================================
