------------------------------ MODULE MCUnpack ------------------------------
(***************************************************************************)
(* Small instances of Unpack: one component name, two DEX files that both  *)
(* contain it and dump to images of equal size, so that only the number    *)
(* keeps their file names apart.                                           *)
(***************************************************************************)
EXTENDS Unpack, TLC

CONSTANT n1

MCStrings   == [d \in Dexes |-> {n1}]
MCImageSize == [x \in Dexes \X Levels |-> IF x[2] = 3 THEN 1 ELSE 0]

Config(n, m, w) == [name |-> n, method |-> m, mode |-> w]

\* A file of spaces, and one of each method with and without a mode.
AllConfigs ==
    {Config(NoName, "", "")} \cup
    {Config(n1, m, "") : m \in Methods} \cup
    {Config(n1, m, "white") : m \in {"force-dump", "force-rebuild"}}

LevelThree == {Config(n1, "force-rebuild", "white")}

\* One file for every level.
EachLevel == {Config(n1, "", ""), Config(n1, "force-dump", "")} \cup LevelThree
=============================================================================
