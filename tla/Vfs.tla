-------------------------------- MODULE Vfs ---------------------------------
(***************************************************************************)
(* The file tree of src/impl/x86_64/vfs.c.                                 *)
(*                                                                         *)
(* A node is an identifier, standing for the memory of a struct Node; the  *)
(* sibling chain that starts at first_child is the sequence kids[n].  Every*)
(* operation is called from the keyboard interrupt, with interrupts off,   *)
(* so one call is one step.  An operation that returns an error changes    *)
(* nothing and is not a step.                                              *)
(*                                                                         *)
(* A name is a tuple of strings: <<"a">> for the name a, <<>> for the empty*)
(* one, and for a name that contains slashes (mv stores its destination    *)
(* argument as the name) the pieces between them.  The contents of a file  *)
(* are abstracted to their length, counted in pieces written.              *)
(***************************************************************************)
EXTENDS Integers, Sequences, SequencesExt

CONSTANTS MaxNodes,     \* bound: nodes that fit into memory
          MaxData,      \* bound: pieces a file may hold
          MaySudo,      \* does the user ever type sudo?
          Words,        \* the strings that names and paths are made of
          TopDirs,      \* names of the directories init_filesystem creates in /
          Paths,        \* the paths that users type
          NewPaths      \* those of them that they give to something new

(* "" is a path relative to the current directory, "/" an absolute one and *)
(* "~" one that starts in /home/root.  A component "" stands between two   *)
(* slashes, or after the last one.                                         *)
Path == [anchor : {"", "/", "~"}, comps : Seq(Words)]

ASSUME VfsAssumption ==
  /\ MaxNodes \in Nat /\ MaxNodes > Len(TopDirs) + 1
  /\ MaxData \in Nat \ {0}
  /\ {"", "/", "~", "root"} \subseteq Words
  /\ TopDirs \in Seq(Words) /\ Len(TopDirs) > 0 /\ TopDirs[1] = "home"
  /\ MaySudo \in BOOLEAN
  /\ Paths \subseteq Path /\ NewPaths \subseteq Paths

Ids  == 1..MaxNodes
root == 1
NULL == 0
None == -1               \* node->data == NULL

VARIABLES nodes,         \* the nodes in allocated memory
          kids, parent, name, type, data,
          current_dir,
          sudo_mode,
          status         \* "ok", "hung" in an endless loop, or "fault"

tree == <<nodes, kids, parent, name, type, data>>
vars == <<nodes, kids, parent, name, type, data, current_dir, sudo_mode, status>>

-----------------------------------------------------------------------------
(* Looking things up.  ks is the kids function to look in.                 *)

Hits(ks, d, nm) == {i \in 1..Len(ks[d]) : name[ks[d][i]] = nm}

FindIn(ks, d, nm) ==
  LET hits == Hits(ks, d, nm)
  IN IF hits = {} THEN NULL
     ELSE ks[d][CHOOSE i \in hits : \A j \in hits : i <= j]

(* find_child                                                              *)
FindChild(d, nm) == FindIn(kids, d, nm)

(* /home/root, or NULL when one of the two is missing.                     *)
HomeRootIn(ks) ==
  LET home == FindIn(ks, root, <<"home">>)
  IN IF home = NULL THEN NULL ELSE FindIn(ks, home, <<"root">>)

HomeRoot == HomeRootIn(kids)

(* The nodes that the walk along parent pointers from n to root meets: the *)
(* smallest set with n in it and, but for root, the parents of its members.*)
Cells == Ids \cup {NULL}

UpClosed(S) == \A c \in S \ {root, NULL} : parent[c] \in S

Up(n) ==
  LET sets == {S \in SUBSET Cells : n \in S /\ UpClosed(S)}
  IN {m \in Cells : \A S \in sets : m \in S}

Meets(n, target) == target \in Up(n)

(* is_protected: 0 below /home/root, 1 elsewhere or without /home/root; it *)
(* never returns when the walk meets neither /home/root nor root.          *)
UnprotectedIn(ks, n) == HomeRootIn(ks) # NULL /\ Meets(n, HomeRootIn(ks))
Unprotected(n) == UnprotectedIn(kids, n)
Protected(n)   == ~Unprotected(n) /\ (HomeRoot = NULL \/ Meets(n, root))
Endless(n)     == ~Unprotected(n) /\ ~Protected(n)

(* One component of a path.                                                *)
Enter(n, comp) ==
  IF n = NULL THEN NULL
  ELSE IF comp = ".." THEN parent[n]
  ELSE IF comp \in {"", "."} THEN n
  ELSE FindChild(n, <<comp>>)

(* Without /home/root a path that starts with ~ starts at root.            *)
Start(anchor) ==
  IF anchor = "/" THEN root
  ELSE IF anchor = "" THEN current_dir
  ELSE IF HomeRoot = NULL THEN root
  ELSE HomeRoot

Follow(n, comps) ==
  LET to[k \in 0..Len(comps)] ==
        IF k = 0 THEN n ELSE Enter(to[k - 1], comps[k])
  IN to[Len(comps)]

(* resolve_path                                                            *)
Resolve(p) == Follow(Start(p.anchor), p.comps)

(* vfs_mkdir, vfs_touch and vfs_rm cut a path at its last slash.           *)
HasSlash(p) == p.anchor = "/" \/ (p.anchor = "~" /\ p.comps # <<>>) \/ Len(p.comps) > 1

DirPartHere(p) ==
  IF HasSlash(p) /\ p.comps = <<>> THEN root ELSE current_dir
DirPart(p) ==
  IF HasSlash(p) /\ p.comps # <<>> THEN Follow(Start(p.anchor), Front(p.comps))
  ELSE IF HasSlash(p) THEN root
  ELSE current_dir

Named(comp) == IF comp = "" THEN <<>> ELSE <<comp>>

NamePart(p) ==
  IF p.comps # <<>> THEN Named(Last(p.comps))
  ELSE IF p.anchor = "/" THEN <<>>
  ELSE <<p.anchor>>

(* The whole path as a name.                                               *)
WholeName(p) == IF p.anchor = "" THEN p.comps ELSE <<p.anchor>> \o p.comps

Insert(seq, x) == <<x>> \o seq

Has(seq, x) == \E i \in 1..Len(seq) : seq[i] = x

(* The sequence without x, at the place where the search finds it.         *)
Without(seq, x) ==
  IF Has(seq, x)
  THEN RemoveAt(seq, CHOOSE i \in 1..Len(seq) : seq[i] = x /\ \A j \in 1..(i - 1) : seq[j] # x)
  ELSE seq

Unlinked(n) == [kids EXCEPT ![parent[n]] = Without(@, n)]

(* Everything below n, n included: the smallest set with n in it and the   *)
(* children of its members.                                                *)
DownClosed(ks, S) == \A m \in S : \A i \in 1..Len(ks[m]) : ks[m][i] \in S

Below(ks, n) ==
  LET sets == {S \in SUBSET Ids : n \in S /\ DownClosed(ks, S)}
  IN {m \in Ids : \A S \in sets : m \in S}

-----------------------------------------------------------------------------
(* The directories of init_filesystem: root is node 1, the directories in  *)
(* it follow, home first, and /home/root comes last.                       *)
InitNodes == 1..(Len(TopDirs) + 2)

Init ==
  /\ nodes = InitNodes
  /\ kids = [n \in Ids |->
               IF n = root THEN [i \in 1..Len(TopDirs) |-> i + 1]
               ELSE IF n = 2 THEN <<Len(TopDirs) + 2>>
               ELSE <<>>]
  /\ parent = [n \in Ids |-> IF n = Len(TopDirs) + 2 THEN 2
                             ELSE IF n \in InitNodes THEN root ELSE NULL]
  /\ name = [n \in Ids |-> IF n = root THEN <<"/">>
                           ELSE IF n = Len(TopDirs) + 2 THEN <<"root">>
                           ELSE IF n \in InitNodes THEN <<TopDirs[n - 1]>>
                           ELSE <<>>]
  /\ type = [n \in Ids |-> "dir"]
  /\ data = [n \in Ids |-> None]
  /\ current_dir = Len(TopDirs) + 2
  /\ sudo_mode = FALSE
  /\ status = "ok"

Hang == /\ status' = "hung"
        /\ UNCHANGED <<tree, current_dir, sudo_mode>>

(* "if (is_protected(n) && !sudo_mode) return": act only when the test     *)
(* lets it, and never come back from a test that does not end.             *)
CheckedNot(n, act) == act
Checked(n, act) ==
  \/ Endless(n) /\ Hang
  \/ (Unprotected(n) \/ (Protected(n) /\ sudo_mode)) /\ act

(* The end of vfs_mkdir and vfs_touch: a new node, last in its directory.  *)
(* The lowest free identifier is as good as any.                           *)
CreateOwnParent(d, nm, t, len) ==
  \E n \in Ids \ nodes :
     /\ \A m \in Ids \ nodes : n <= m
     /\ nodes' = nodes \cup {n}
     /\ kids' = [kids EXCEPT ![d] = Append(@, n), ![n] = <<>>]
     /\ parent' = [parent EXCEPT ![n] = n]
     /\ name' = [name EXCEPT ![n] = nm]
     /\ type' = [type EXCEPT ![n] = t]
     /\ data' = [data EXCEPT ![n] = len]
     /\ UNCHANGED <<current_dir, sudo_mode, status>>
Create(d, nm, t, len) ==
  \E n \in Ids \ nodes :
     /\ \A m \in Ids \ nodes : n <= m
     /\ nodes' = nodes \cup {n}
     /\ kids' = [kids EXCEPT ![d] = Append(@, n), ![n] = <<>>]
     /\ parent' = [parent EXCEPT ![n] = d]
     /\ name' = [name EXCEPT ![n] = nm]
     /\ type' = [type EXCEPT ![n] = t]
     /\ data' = [data EXCEPT ![n] = len]
     /\ UNCHANGED <<current_dir, sudo_mode, status>>

(* The part of vfs_mkdir and vfs_touch that finds the directory.           *)
CreateAt(p, t, len) ==
  \E d \in nodes :
     /\ d = DirPart(p)
     /\ type[d] = "dir"
     /\ Checked(d, Create(d, NamePart(p), t, len))

Mkdir(p) == CreateAt(p, "dir", None)
Touch(p) == CreateAt(p, "file", None)

(* vfs_cd                                                                  *)
Cd(p) ==
  /\ \E d \in nodes :
        /\ d = Resolve(p)
        /\ type[d] = "dir"
        /\ current_dir' = d
  /\ UNCHANGED <<tree, sudo_mode, status>>

(* kfree of all nodes in dead; ks is what the chains look like then.       *)
Free(dead, ks) ==
  /\ nodes' = nodes \ dead
  /\ kids'   = [n \in Ids |-> IF n \in dead THEN <<>> ELSE ks[n]]
  /\ parent' = [n \in Ids |-> IF n \in dead THEN NULL ELSE parent[n]]
  /\ name'   = [n \in Ids |-> IF n \in dead THEN <<>> ELSE name[n]]
  /\ type'   = [n \in Ids |-> IF n \in dead THEN "dir" ELSE type[n]]
  /\ data'   = [n \in Ids |-> IF n \in dead THEN None ELSE data[n]]

(* vfs_rm                                                                  *)
Rm(p) ==
  \E d, n \in nodes :
     /\ d = DirPart(p)
     /\ n = FindChild(d, NamePart(p))
     /\ Checked(n, /\ type[n] = "file"
                   /\ Free({n}, Unlinked(n))
                   /\ UNCHANGED <<current_dir, sudo_mode, status>>)

(* vfs_rmdir                                                               *)
RmdirAllowedNonEmpty(n) == n # root /\ n # current_dir /\ type[n] = "dir"
RmdirAllowed(n) == n # root /\ n # current_dir /\ type[n] = "dir" /\ kids[n] = <<>>

Rmdir(p) ==
  \E n \in nodes :
     /\ n = Resolve(p)
     /\ RmdirAllowed(n)
     /\ Checked(n, /\ Free({n}, Unlinked(n))
                   /\ UNCHANGED <<current_dir, sudo_mode, status>>)

(* vfs_rm_recursive on a node that has been unlinked: what it frees.  The  *)
(* test of is_protected is made again, on the tree without the node, so    *)
(* that nothing is freed when /home/root itself was unlinked and nobody is *)
(* root.                                                                   *)
FreedBy(ks, n) ==
  IF sudo_mode \/ UnprotectedIn(ks, n) THEN Below(ks, n) ELSE {}

(* The current directory moves to root when it is about to disappear.      *)
LeaveNot(n) == current_dir' = current_dir
Leave(n) ==
  current_dir' = IF Meets(current_dir, n) THEN root ELSE current_dir

(* vfs_rm_r on anything but root.  The loop that looks for the current     *)
(* directory below n ends at n or at root.                                 *)
RmR(p) ==
  \E n \in nodes :
     /\ n = Resolve(p)
     /\ n # root /\ n # current_dir
     /\ Checked(n, \/ /\ ~Meets(current_dir, n) /\ ~Meets(current_dir, root)
                      /\ Hang
                   \/ /\ Meets(current_dir, n) \/ Meets(current_dir, root)
                      /\ Leave(n)
                      /\ Free(FreedBy(Unlinked(n), n), Unlinked(n))
                      /\ UNCHANGED <<sudo_mode, status>>)

(* vfs_rm_r on root, with --no-preserve-root: everything below goes.       *)
RmAll(p) ==
  /\ Resolve(p) = root
  /\ current_dir # root
  /\ Checked(root, /\ current_dir' = root
                   /\ Free(Below(kids, root) \ {root}, [kids EXCEPT ![root] = <<>>])
                   /\ UNCHANGED <<sudo_mode, status>>)

(* vfs_mv into a directory: first in its new directory.                    *)
MoveInto(n, d) ==
  /\ kids' = [Unlinked(n) EXCEPT ![d] = Insert(@, n)]
  /\ parent' = [parent EXCEPT ![n] = d]
  /\ UNCHANGED <<nodes, name, type, data, current_dir, sudo_mode, status>>

(* vfs_mv to anything else: the node stays where it is, first of its       *)
(* siblings, and is called what the destination path says.                 *)
Rename(n, nm) ==
  /\ kids' = [Unlinked(n) EXCEPT ![parent[n]] = Insert(@, n)]
  /\ name' = [name EXCEPT ![n] = nm]
  /\ UNCHANGED <<nodes, parent, type, data, current_dir, sudo_mode, status>>

Mv(src, dst) ==
  \E n \in nodes :
     /\ n = Resolve(src)
     /\ n # root
     /\ Checked(n, \/ \E d \in nodes : /\ d = Resolve(dst)
                                       /\ type[d] = "dir"
                                       /\ Checked(d, MoveInto(n, d))
                   \/ /\ \A d \in nodes : d = Resolve(dst) => type[d] # "dir"
                      /\ Rename(n, WholeName(dst)))

(* vfs_write of one piece, replacing the file's data or appending to it;   *)
(* a file that does not exist is created.                                  *)
WriteTo(n, append) ==
  /\ type[n] = "file"
  /\ Checked(n, /\ data' = [data EXCEPT ![n] = IF append /\ @ # None THEN @ + 1 ELSE 1]
                /\ data'[n] <= MaxData
                /\ UNCHANGED <<nodes, kids, parent, name, type, current_dir, sudo_mode, status>>)

Write(p, append) ==
  \/ Resolve(p) = NULL /\ CreateAt(p, "file", 1)
  \/ \E n \in nodes : n = Resolve(p) /\ WriteTo(n, append)

(* vfs_cp: always a new node, even where a file of that name exists.       *)
Cp(src, dst) ==
  \E n \in nodes :
     /\ n = Resolve(src)
     /\ type[n] = "file"
     /\ \/ \E d \in nodes : /\ d = Resolve(dst)
                            /\ type[d] = "dir"
                            /\ Checked(d, Create(d, name[n], "file", data[n]))
        \/ /\ \A d \in nodes : d = Resolve(dst) => type[d] # "dir"
           /\ CreateAt(dst, "file", data[n])

(* resolve_path of a path with ~ when /home is missing reads the children  *)
(* of a null pointer.  Page 0 is mapped, so that depending on what lies    *)
(* there the search fails, as in Start, or follows a wild pointer.         *)
Fault ==
  /\ \E p \in Paths : p.anchor = "~"
  /\ FindChild(root, <<"home">>) = NULL
  /\ status' = "fault"
  /\ UNCHANGED <<tree, current_dir, sudo_mode>>

(* sudo switches sudo_mode on, the end of the minute switches it off.      *)
Sudo ==
  /\ MaySudo
  /\ sudo_mode' = ~sudo_mode
  /\ UNCHANGED <<tree, current_dir, status>>

Call ==
  \/ \E p \in NewPaths : Mkdir(p) \/ Touch(p)
  \/ \E p \in Paths : Cd(p) \/ Rm(p) \/ Rmdir(p) \/ RmR(p) \/ RmAll(p)
  \/ \E p \in NewPaths, append \in BOOLEAN : Write(p, append)
  \/ \E src, dst \in Paths : Mv(src, dst) \/ Cp(src, dst)
  \/ Fault
  \/ Sudo

Next == status = "ok" /\ Call

Spec == Init /\ [][Next]_vars

-----------------------------------------------------------------------------
(* Every variable has the values it is meant to have.                      *)
TypeOK ==
  /\ nodes \subseteq Ids /\ root \in nodes
  /\ kids \in [Ids -> Seq(Ids)]
  /\ parent \in [Ids -> Ids \cup {NULL}]
  /\ name \in [Ids -> Seq(Words)]
  /\ type \in [Ids -> {"dir", "file"}]
  /\ data \in [Ids -> {None} \cup 1..MaxData]
  /\ current_dir \in Ids
  /\ sudo_mode \in BOOLEAN
  /\ status \in {"ok", "hung", "fault"}

(* The two directions of the tree agree: whatever has been created, moved, *)
(* renamed and removed, a sibling chain holds allocated nodes only, each   *)
(* once, whose parent pointer leads back to the directory the chain belongs*)
(* to; a file and a piece of free memory have no chain; root is on no      *)
(* chain.  The functions of vfs.c follow both directions without a test.   *)
NoTwice(seq) == \A i, j \in 1..Len(seq) : seq[i] = seq[j] => i = j

TreeShape ==
  /\ root \in nodes /\ type[root] = "dir" /\ parent[root] = root
  /\ \A n \in Ids :
        /\ NoTwice(kids[n])
        /\ \A i \in 1..Len(kids[n]) : /\ n \in nodes
                                      /\ type[n] = "dir"
                                      /\ kids[n][i] \in nodes \ {root}
                                      /\ parent[kids[n][i]] = n

(* The current directory is never pulled away from under the user: it and  *)
(* every directory that a sequence of ".." leads to are allocated, and each*)
(* is still among the children of the next one.  rm, rmdir and rm -r of    *)
(* another directory keep it so; vfs_pwd and resolve_path rely on it.      *)
CurrentDirIsLinked ==
  /\ type[current_dir] = "dir"
  /\ \A n \in Up(current_dir) :
        n \in nodes /\ (n = root \/ Has(kids[parent[n]], n))

(* What every function of vfs.c takes for granted when it follows a        *)
(* pointer; none of the three is kept without the others.                  *)
TreeIsSound == TypeOK /\ TreeShape /\ CurrentDirIsLinked

(* A command that never returns (the keyboard interrupt with it, and the   *)
(* whole machine) needs a current directory that has been moved out of the *)
(* tree: as long as ".." leads from it to /, is_protected and the search   *)
(* for the current directory in vfs_rm_r end.                              *)
HangNeedsLostDirectory == status = "hung" => ~Meets(current_dir, root)

(* Without sudo, a command leaves what is protected alone: a node of the   *)
(* tree outside /home/root is neither freed nor moved, renamed or written, *)
(* and its children stay the same and in the same order, but for /home/root*)
(* itself, which its owner may rename, move or remove.                     *)
PrivilegeStep ==
  \A n \in Below(kids, root) :
     ~sudo_mode /\ Protected(n) =>
       /\ n \in nodes'
       /\ <<name[n], type[n], data[n], parent[n]>>' = <<name[n], type[n], data[n], parent[n]>>
       /\ Without(kids'[n], HomeRoot) = Without(kids[n], HomeRoot)

PrivilegeIsNeeded == [][PrivilegeStep]_vars

(* A node that drops out of the tree is freed, with two exceptions: the    *)
(* user removed /home/root without sudo, which unlinks it and frees none   *)
(* of it, or moved a directory into itself, which turns the subtree into a *)
(* cycle of its own.                                                       *)
EndsInCycle(n) == Up(n) \cap {root, NULL} = {}

LossStep ==
  \A n \in (Below(kids, root) \cap nodes') \ Below(kids', root) :
     \/ ~sudo_mode /\ Unprotected(n) /\ HomeRoot' # HomeRoot
     \/ EndsInCycle(n)'

LostOnlyByHomeOrCycle == [][LossStep]_vars
=============================================================================
