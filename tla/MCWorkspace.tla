---------------------------- MODULE MCWorkspace ----------------------------
(* The store of tabs and panes: two sessions, two files and a commit, one  *)
(* folder. The page starts with nothing stored, or with the folder tab of  *)
(* an earlier window: a terminal and two file panes beside it.             *)
EXTENDS Workspace
CONSTANTS s1, s2, fa, g, d, p

Pane(tabs) == [id |-> None, tabs |-> tabs, active |-> 1]
Tab(id, root, slots, l3) == [id |-> id, root |-> root, slots |-> slots, focused |-> 1, l3 |-> l3]
Bag(vs, active) == [views |-> vs, active |-> active, run |-> 1]
MCBags ==
  {Bag(<<>>, 0),
   Bag(<<Tab(1, Home, <<>>, "L"), Tab(2, p, <<SessionSlot(s1), Pane(<<fa, d>>), Pane(<<g>>)>>, "R")>>, 2)}
=============================================================================
