---------------------------- MODULE MCMenuScroll ------------------------------
(* An instance of MenuScroll for TLC. *)
EXTENDS MenuScroll

\* Menus with one row, and main menus with a second row of one or two entries.
MCRows == {<< 1, 1 >>, << 2, 2 >>, << 5, 5 >>, << 8, 8 >>, << 1, 3 >>, << 4, 5 >>, << 7, 9 >>}

\* No default entry, the first, one in the middle, and one beyond every menu.
MCDefaults == {-1, 0, 2, 6, 12}
===============================================================================
