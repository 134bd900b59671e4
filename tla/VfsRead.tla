------------------------------- MODULE VfsRead --------------------------------
(***************************************************************************)
(* The functions of src/impl/x86_64/vfs.c, and the commands around them,   *)
(* that read the file tree and change nothing: vfs_pwd and the prompt,     *)
(* vfs_ls, ls_recursive and vfs_cat, as operators on a state of Vfs.  What *)
(* the other functions do to the tree is right only if these show it so.   *)
(***************************************************************************)
EXTENDS Vfs

CONSTANTS MaxCommands, \* bound: commands before one looks
          Hidden,      \* the words that begin with a dot
          Glued        \* from a word that begins with "root" to what follows there

ASSUME VfsReadAssumption ==
  /\ MaxCommands \in Nat
  /\ Hidden \subseteq Words
  /\ DOMAIN Glued \subseteq Words /\ \A w \in DOMAIN Glued : Glued[w] \in Words

VARIABLE left            \* of MaxCommands

readVars == <<nodes, kids, parent, name, type, data, current_dir, sudo_mode, status, left>>

-----------------------------------------------------------------------------
(* vfs_pwd: the names on the way up, written from the end of the buffer.   *)
Ancestors ==
  LET up[k \in 0..MaxNodes] ==
        IF k = 0 THEN current_dir ELSE IF up[k - 1] = NULL THEN NULL ELSE parent[up[k - 1]]
  IN up

(* The text of a name between two slashes.                                 *)
Pieces(nm) ==
  IF nm = <<>> THEN <<"">>
  ELSE [i \in 1..Len(nm) |-> IF nm[i] = "/" THEN "" ELSE nm[i]]

(* Away from root the loop ends at the beginning of the buffer, and what it*)
(* returns is no path.                                                     *)
Adrift == ~Meets(current_dir, root)

Pwd ==
  LET up == Ancestors
      height == CHOOSE k \in DOMAIN up : up[k] = root /\ \A j \in 0..(k - 1) : up[j] # root
  IN [anchor |-> "/",
      comps  |-> FlattenSeq([i \in 1..height |-> Pieces(name[up[height - i]])])]

AbbreviatedInHome(p) ==
  LET c == p.comps
  IN IF Len(c) < 2 \/ c[1] # "home" THEN p ELSE [anchor |-> "~", comps |-> SubSeq(c, 3, Len(c))]

(* print_prompt: the ten characters of /home/root are replaced by ~, also  *)
(* where they are only the beginning of the name of another directory.     *)
Abbreviated(p) ==
  LET c == p.comps
  IN IF Len(c) < 2 \/ c[1] # "home" THEN p
     ELSE IF c[2] = "root" THEN [anchor |-> "~", comps |-> SubSeq(c, 3, Len(c))]
     ELSE IF c[2] \in DOMAIN Glued
          THEN [anchor |-> "~", comps |-> <<Glued[c[2]]>> \o SubSeq(c, 3, Len(c))]
     ELSE p

Prompt == Abbreviated(Pwd)

(* ls with -a or without shows a name.                                     *)
Shown(n, all) == all \/ name[n] = <<>> \/ name[n][1] \notin Hidden

(* vfs_ls, and the names that the command prints.                          *)
VfsLs(p) ==
  IF Resolve(p) \in nodes /\ type[Resolve(p)] = "dir" THEN kids[Resolve(p)] ELSE <<>>

Ls(p, all) == SelectSeq(VfsLs(p), LAMBDA n : Shown(n, all))

(* ls_recursive, as the sequence of the directories it lists, each with the*)
(* heading that is printed above it; MaxNodes calls deep at most.          *)
LsRecursiveFlat(d, path, all) ==
  <<[path |-> path, dir |-> d, shown |-> SelectSeq(kids[d], LAMBDA n : Shown(n, all))]>>
LsRecursive(d, path, all) ==
  LET subs(n) == SelectSeq(kids[n], LAMBDA m : type[m] = "dir" /\ Shown(m, all))
      under(nm, sections) ==
        [j \in 1..Len(sections) |-> [sections[j] EXCEPT !.path = Pieces(nm) \o @]]
      list[k \in 0..MaxNodes] ==
        [n \in nodes |->
           IF k = 0 THEN <<>>
           ELSE <<[path |-> <<>>, dir |-> n,
                   shown |-> SelectSeq(kids[n], LAMBDA m : Shown(m, all))]>> \o
                FlattenSeq([i \in 1..Len(subs(n)) |->
                              under(name[subs(n)[i]], list[k - 1][subs(n)[i]])])]
      sections == list[MaxNodes][d]
  IN [j \in 1..Len(sections) |->
        [sections[j] EXCEPT !.path = [path EXCEPT !.comps = @ \o sections[j].path]]]

(* ls -R: the test of the operand always holds, so that it lists the       *)
(* current directory whatever the operand is.                              *)
Here == [anchor |-> "", comps |-> <<".">>]
LsR(all) == LsRecursive(current_dir, Here, all)

(* vfs_cat                                                                 *)
Cat(p) ==
  LET n == Resolve(p)
  IN IF n \notin nodes THEN [result |-> -1, data |-> None]
     ELSE IF type[n] # "file" THEN [result |-> -2, data |-> None]
     ELSE [result |-> 0, data |-> data[n]]

ReadInit == Init /\ left = MaxCommands
ReadNext == left > 0 /\ left' = left - 1 /\ Next

ReadSpec == ReadInit /\ [][ReadNext]_readVars

-----------------------------------------------------------------------------
(* Names that a path can hold, and that no sibling has.                    *)
PlainWord(w) == w \notin {"", "/", ".", ".."}

PlainlyNamed(n) ==
  /\ Len(name[n]) = 1 /\ PlainWord(name[n][1])
  /\ \A m \in nodes \ {n} : m # root /\ parent[m] = parent[n] => name[m] # name[n]

(* What pwd prints is a path to the current directory, and so is what the  *)
(* prompt shows, whatever was moved or renamed on the way, as long as the  *)
(* names on it are plain and no other directory in /home begins with root. *)
PwdLeadsBack ==
  ~Adrift /\ (\A n \in Up(current_dir) \ {root} : PlainlyNamed(n)) =>
    /\ Resolve(Pwd) = current_dir
    /\ (\A w \in DOMAIN Glued : FindChild(root, <<"home">>) # NULL =>
          FindChild(FindChild(root, <<"home">>), <<w>>) = NULL) =>
         Resolve(Prompt) = current_dir

(* ls -R -a in a directory of the tree comes to an end, shows everything   *)
(* below it and everything once, each under a heading that leads to its    *)
(* directory; without -a nothing in a hidden directory is shown.  The first*)
(* part is what ls shows.                                                  *)
Once(sections, n) ==
  \E j \in 1..Len(sections) :
    /\ Has(sections[j].shown, n) /\ sections[j].dir = parent[n]
    /\ \A k \in 1..Len(sections) : Has(sections[k].shown, n) => k = j

ListsEverythingOnce ==
  ~Adrift =>
    \A all \in BOOLEAN : \E sections \in {LsR(all)} :
    \E below \in {Below(kids, current_dir) \ {current_dir}} :
      /\ sections[1].shown = Ls(Here, all)
      /\ \A n \in below :
           IF \A m \in Up(n) \cap below : Shown(m, all)
           THEN Once(sections, n)
           ELSE \A j \in 1..Len(sections) : ~Has(sections[j].shown, n)
      /\ \A j \in 1..Len(sections) :
           (\A m \in Up(sections[j].dir) \ {root} : PlainlyNamed(m)) =>
             Resolve(sections[j].path) = sections[j].dir

(* A file or directory that a call has made under a path is what the path  *)
(* leads to afterwards, if it led nowhere before; and cat shows what echo  *)
(* has written, behind what was there or instead.  The functions that make *)
(* cut a path at its last slash, resolve_path goes through it from the     *)
(* left: the two have to agree.  Only a path that starts at root because   *)
(* /home/root is missing may make /home/root, and then starts there.       *)
StartStays(p) == p.anchor = "~" => HomeRoot' = HomeRoot

MadeStep ==
  <<nodes, data>>' # <<nodes, data>> =>
  \A p \in NewPaths :
    /\ Resolve(p) = NULL /\ nodes' # nodes /\ (Mkdir(p) \/ Touch(p)) /\ StartStays(p) =>
         Resolve(p)' \in nodes' \ nodes
    /\ \A append \in BOOLEAN :
         Write(p, append) /\ status' = "ok" /\ StartStays(p) =>
           /\ Cat(p).result \in {0, -1}
           /\ Cat(p)' = [result |-> 0,
                         data |-> IF append /\ Cat(p).data # None THEN Cat(p).data + 1 ELSE 1]

(* After mv the destination leads to what was moved, also where something  *)
(* of that name exists: a directory finds it first under its name, and so  *)
(* does the old directory under the new name.  The destination itself      *)
(* leads to it if it is one plain word and the node is in the current      *)
(* directory.                                                              *)
MovedStep ==
  nodes' = nodes /\ kids' # kids =>
  \A src, dst \in Paths : \A n \in nodes :
    n = Resolve(src) /\ Mv(src, dst) /\ status' = "ok" =>
      \E d \in {Resolve(dst)} :
        IF d \in nodes /\ type[d] = "dir"
        THEN FindChild(d, name[n])' = n
        ELSE /\ FindChild(parent[n], WholeName(dst))' = n
             /\ parent[n] = current_dir /\ dst.anchor = "" /\ Len(dst.comps) = 1
                  /\ PlainWord(dst.comps[1]) => Resolve(dst)' = n

(* A path that made, wrote or moved something finds it.                    *)
FoundWherePut == [][MadeStep /\ MovedStep]_readVars
=============================================================================
