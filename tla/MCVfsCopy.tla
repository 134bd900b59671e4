----------------------------- MODULE MCVfsCopy -----------------------------
(* A directory a with a file and a directory in it, and a destination b    *)
(* that is missing, a file or a directory; every node may be left out, the *)
(* file may have contents, or a name with a slash, the user may be inside  *)
(* a, and may have moved it into itself.                                   *)
EXTENDS VfsCopy

At(anchor, comps) == [anchor |-> anchor, comps |-> comps]

MCWords == {"", "/", "~", ".", "..", "home", "root", "a", "b"}

MCTopDirs == <<"home">>

Run(op, comps) == [op |-> op, p |-> At("", comps), q |-> At("", <<>>)]

MCScript ==
  <<Run("mkdir", <<"a">>), Run("touch", <<"a", "b">>), Run("echo", <<"a", "b">>),
    Run("mkdir", <<"a", "a">>), Run("touch", <<"b">>), Run("mkdir", <<"b">>),
    [Run("mv", <<"a", "b">>) EXCEPT !.q = At("", <<"b", "b">>)],
    Run("touch", <<"a", "a", "b">>), Run("cd", <<"a">>), Run("sudo", <<>>),
    [Run("mv", <<".">>) EXCEPT !.q = At("", <<"a">>)]>>

MCPaths == {}
MCSources == {At("", <<"a">>), At("", <<".">>), At("~", <<"a">>)}
MCDests == {At("", <<"a">>), At("", <<"b">>), At("", <<"..">>)}
=============================================================================
