-------------------------------- MODULE MCPlugins --------------------------------
(***************************************************************************)
(* A small instance of Plugins: main has handlers for WRITE and READ, one  *)
(* library has another READ, one has TRIM.                                 *)
(***************************************************************************)
EXTENDS Plugins

CONSTANTS w1, Read_, Write_, Trim_, readSo, trimSo, text

MCWorkers == {w1}
MCKeys == {Read_, Write_, Trim_}
MCMainKeys == <<Write_, Read_>>
MCFiles == {readSo, trimSo, text}
MCLibraries == {readSo, trimSo}
MCKeyOf == [f \in {readSo, trimSo} |-> IF f = readSo THEN Read_ ELSE Trim_]
================================================================================
