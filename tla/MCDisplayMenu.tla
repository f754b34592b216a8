---------------------------- MODULE MCDisplayMenu ----------------------------
(* DisplayMenu with short times in the same order as in the code, settings  *)
(* of two values (two presses in menu 4 instead of four).                   *)
EXTENDS DisplayMenu
MCLimit == <<1, 1, 2, 2, 1>>
MCInitial == <<0, 0, 1, 0, 0>>
MCCurrents == {-9999, -1073, -100, -7, 0, 5, 42, 99, 100, 305, 999, 1000, 2050, 9999}
MCThresholds == {0, 9, 10, 99, 100, 105, 200, 999, 1000, 1009, 2047}
=============================================================================
