------------------------------ MODULE MCServer ------------------------------
(***************************************************************************)
(* An instance of Server for TLC.                                          *)
(***************************************************************************)
EXTENDS Server, TLC

CONSTANT notjson

\* Two names, a priority of 0, and no mixture of two forms among them.
Forms == {[name |-> "a", priority |-> 0, netjson |-> "x"],
          [name |-> "b", priority |-> 50, netjson |-> "y"],
          [name |-> "b", priority |-> 70, netjson |-> notjson]}
=============================================================================
