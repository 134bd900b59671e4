------------------------------- MODULE MCVfs -------------------------------
(* Instances of Vfs for TLC: the paths that users type.                    *)
EXTENDS Vfs

At(anchor, comps) == [anchor |-> anchor, comps |-> comps]

MCWords == {"", "/", "~", "..", "home", "root", "a", "b"}

MCTopDirs == <<"home">>

(* A user without sudo, who gets no further than /home/root: two names, so *)
(* that a file and a directory can stand side by side, and paths that lead *)
(* up, down and into a directory's own subtree.                            *)
UserPaths == {At("~", <<>>), At("", <<"..">>), At("", <<"a">>), At("", <<"b">>),
              At("", <<"..", "a">>), At("", <<"a", "a">>)}
UserNewPaths == {At("", <<"a">>), At("", <<"b">>), At("", <<"..", "a">>)}

(* A user who switches sudo on and off and reaches /home and / as well.    *)
SudoerPaths == {At("~", <<>>), At("", <<"..">>), At("", <<"a">>),
                At("", <<"..", "a">>), At("/", <<>>)}
SudoerNewPaths == {At("", <<"a">>), At("", <<"..", "a">>)}
=============================================================================
