------------------------------ MODULE MCVfsRead -------------------------------
(* A user who may become root, with a plain name, a hidden one, one that   *)
(* begins like root, and paths with a slash to give to mv.                 *)
EXTENDS VfsRead

At(anchor, comps) == [anchor |-> anchor, comps |-> comps]

MCWords == {"", "/", "~", ".", "..", "home", "root", "a", ".h", "rootx", "x"}

MCTopDirs == <<"home">>

MCHidden == {".", "..", ".h"}
MCGlued  == [w \in {"rootx"} |-> "x"]

MCPaths == {At("", <<"..">>), At("", <<"a">>), At("~", <<".h">>), At("", <<"..", "rootx">>)}
MCNewPaths == {At("", <<"a">>), At("~", <<".h">>), At("", <<"..", "rootx">>)}
=============================================================================
