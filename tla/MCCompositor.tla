---------------------------- MODULE MCCompositor ----------------------------
(***************************************************************************)
(* A small desktop for Compositor: the buttons of the top bar are points.  *)
(***************************************************************************)
EXTENDS Compositor

MCPowerBtn == {[x |-> 3, y |-> 0]}
MCTermBtn == {[x |-> 0, y |-> 0]}
MCModeBtn == {[x |-> 1, y |-> 0], [x |-> 2, y |-> 0]}

(* The buttons and, below the top bar, enough points to hit every part of  *)
(* a window and to drag it against both edges.                             *)
MCPoints ==
    MCPowerBtn \cup MCTermBtn \cup MCModeBtn
      \cup {[x |-> 0, y |-> 1], [x |-> 2, y |-> 1], [x |-> 3, y |-> 1], [x |-> 2, y |-> 2]}
=============================================================================
