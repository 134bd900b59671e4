------------------------------ MODULE VfsCopy -------------------------------
(***************************************************************************)
(* vfs_cp_r of src/impl/x86_64/vfs.c: the copy of a directory.  It walks   *)
(* the directory it copies while it adds to the tree, calls itself for the *)
(* directories below, and names everything by path: each node is looked up *)
(* again, from the start, for reading and for writing.  Every call is a    *)
(* frame on a stack of fixed size; one node is one step.                   *)
(***************************************************************************)
EXTENDS Vfs

CONSTANTS MaxCalls,    \* nested calls that the kernel stack has room for
          Script,      \* commands before the copy, each of which may be left out
          Sources,     \* paths that users copy from
          Dests        \* and to

Command == [op : {"mkdir", "touch", "echo", "cd", "mv", "sudo"}, p : Path, q : Path]

ASSUME VfsCopyAssumption ==
  /\ MaxCalls \in Nat \ {0}
  /\ Script \in Seq(Command) /\ Sources \subseteq Path /\ Dests \subseteq Path

VARIABLES script,      \* what is left of Script
          calls,       \* the calls of vfs_cp_r under way, the innermost last
          job          \* ghost: what was asked for

allVars == <<nodes, kids, parent, name, type, data, current_dir, sudo_mode, status,
             script, calls, job>>

-----------------------------------------------------------------------------
(* strcpy(q, p); strcat(q, "/"); strcat(q, nm)                             *)
Sub(p, nm) ==
  LET pieces == IF nm = <<>> THEN <<"">>
                ELSE [i \in 1..Len(nm) |-> IF nm[i] = "/" THEN "" ELSE nm[i]]
  IN [p EXCEPT !.comps = @ \o pieces]

IsDir(n)  == n \in nodes /\ type[n] = "dir"
IsFile(n) == n \in nodes /\ type[n] = "file"

(* Where a copy of n goes: into a directory, or where the path says.       *)
Into(p, n) == IF IsDir(Resolve(p)) THEN Sub(p, name[n]) ELSE p

Allowed(d) == Unprotected(d) \/ (Protected(d) /\ sudo_mode)

(* What vfs_mkdir and vfs_touch make of a path.  Without memory the node is*)
(* the null pointer: page 0 is written, nothing is linked to the tree, and *)
(* the caller takes the null pointer for a failure.                        *)
VerdictUnchecked(p) ==
  LET d == DirPart(p)
  IN IF ~IsDir(d) THEN "failed"
     ELSE IF Endless(d) THEN "endless"
     ELSE IF nodes # Ids THEN "made"
     ELSE "failed"
Verdict(p) ==
  LET d == DirPart(p)
  IN IF ~IsDir(d) THEN "failed"
     ELSE IF Endless(d) THEN "endless"
     ELSE IF Allowed(d) /\ nodes # Ids THEN "made"
     ELSE "failed"

(* A call that comes to nothing, and one that does not come back.          *)
Skip(rest) == calls' = rest /\ UNCHANGED vars
Stuck      == Hang /\ UNCHANGED calls

(* The new node, and where the caller goes on ("rest") or would have.      *)
Make(p, t, len, next, rest) ==
  \E verdict \in {Verdict(p)} :
    \/ verdict = "made" /\ Create(DirPart(p), NamePart(p), t, len) /\ calls' = next
    \/ verdict = "failed" /\ Skip(rest)
    \/ verdict = "endless" /\ Stuck

(* vfs_cp                                                                  *)
CopyFile(n, dst, rest) ==
  \E p \in {Into(dst, n)} : Make(p, "file", data[n], rest, rest)

(* vfs_cp_r.  Below the kernel's stack are its page tables; below the one  *)
(* of the program, which sys_exit leaves to the handlers when syscall was  *)
(* the way in, is memory of others.                                        *)
CopyDirOver(n, src, dst, rest) ==
  Make(dst, "dir", None,
       Append(rest, [src |-> src, dst |-> dst, node |-> n, next |-> 1]), rest)
CopyDir(n, src, dst, rest) ==
  \E p \in {Into(dst, n)} :
    Make(p, "dir", None,
         Append(rest, [src |-> src, dst |-> p, node |-> n, next |-> 1]), rest)

Overflow == /\ status' = "fault"
            /\ UNCHANGED <<tree, current_dir, sudo_mode, calls>>

CpR(src, dst, rest) ==
  \/ Len(rest) = MaxCalls /\ Overflow
  \/ Len(rest) < MaxCalls /\ \E n \in {Resolve(src)} :
       \/ n \notin nodes /\ Skip(rest)
       \/ IsFile(n) /\ CopyFile(n, dst, rest)
       \/ IsDir(n) /\ CopyDir(n, src, dst, rest)

(* vfs_cp of what the loop of vfs_cp_r saw to be a file.                   *)
CpOne(src, dst, rest) ==
  \E n \in {Resolve(src)} :
    \/ IsFile(n) /\ CopyFile(n, dst, rest)
    \/ ~IsFile(n) /\ Skip(rest)

(* The loop over the children, at its innermost call.                      *)
Frame == Last(calls)
Child == kids[Frame.node][Frame.next]
Goes  == [calls EXCEPT ![Len(calls)].next = @ + 1]

CopyChildSame ==
  \E src \in {Sub(Frame.src, name[Child])}, dst \in {Sub(Frame.dst, name[Child])} :
    \/ type[Child] = "dir" /\ CpR(Frame.src, dst, Goes)
    \/ type[Child] = "file" /\ CpOne(src, dst, Goes)
CopyChild ==
  \E src \in {Sub(Frame.src, name[Child])}, dst \in {Sub(Frame.dst, name[Child])} :
    \/ type[Child] = "dir" /\ CpR(src, dst, Goes)
    \/ type[Child] = "file" /\ CpOne(src, dst, Goes)

CopyStep ==
  /\ calls # <<>> /\ status = "ok"
  /\ \/ Frame.next <= Len(kids[Frame.node]) /\ CopyChild
     \/ Frame.next > Len(kids[Frame.node]) /\ Skip(Front(calls))
  /\ UNCHANGED <<script, job>>

-----------------------------------------------------------------------------
(* What a copy is of, for the properties.                                  *)

(* What is below n: names, types, contents, and the order of the children. *)
Shape(n) ==
  LET shape[k \in 0..MaxNodes, m \in Ids] ==
        <<type[m], data[m],
          [i \in 1..(IF k = 0 THEN 0 ELSE Len(kids[m])) |->
             <<name[kids[m][i]], shape[k - 1, kids[m][i]]>>]>>
  IN shape[MaxNodes, n]

(* How many directories are below one another from n on.                   *)
Depth(n) ==
  LET depth[k \in 0..MaxNodes, m \in Ids] ==
        IF k = 0 \/ type[m] = "file" THEN 0
        ELSE 1 + Max({0} \cup {depth[k - 1, kids[m][i]] : i \in 1..Len(kids[m])})
  IN depth[MaxNodes, n]

Plain(nm) == Len(nm) = 1 /\ nm[1] \notin {"", ".", "..", "/"}

(* Every node below n is found by its name.                                *)
Nameable(n) ==
  \A m \in Below(kids, n) : \A i, j \in 1..Len(kids[m]) :
    /\ Plain(name[kids[m][i]])
    /\ name[kids[m][i]] = name[kids[m][j]] => i = j

(* The copy is made in a directory outside of what is copied, and under a  *)
(* name that nothing has there.                                            *)
Apart(n, p) ==
  /\ Verdict(p) = "made" /\ DirPart(p) \notin Below(kids, n)
  /\ Plain(NamePart(p)) /\ FindChild(DirPart(p), NamePart(p)) = NULL

NoJob == [of |-> NULL, made |-> NULL, depth |-> 0, shape |-> <<>>,
          apart |-> FALSE, fits |-> FALSE]

Ask(n, p) ==
  [of    |-> n,
   made  |-> IF nodes = Ids THEN NULL ELSE Min(Ids \ nodes),
   depth |-> Depth(n),
   shape |-> Shape(n),
   apart |-> Nameable(n) /\ Apart(n, p),
   fits  |-> /\ Cardinality(Below(kids, n)) <= Cardinality(Ids \ nodes)
             /\ Depth(n) <= MaxCalls]

(* cp -r.  Bound: one copy in a behaviour.                                 *)
CopyTree(src, dst) ==
  /\ status = "ok" /\ job = NoJob
  /\ \E n \in nodes : /\ n = Resolve(src) /\ IsDir(n)
                      /\ job' = Ask(n, Into(dst, n))
  /\ CpR(src, dst, <<>>)
  /\ UNCHANGED script

Do(c) ==
  \/ c.op = "mkdir" /\ Mkdir(c.p)
  \/ c.op = "touch" /\ Touch(c.p)
  \/ c.op = "echo" /\ Write(c.p, FALSE)
  \/ c.op = "cd" /\ Cd(c.p)
  \/ c.op = "mv" /\ Mv(c.p, c.q)
  \/ c.op = "sudo" /\ Sudo

Build ==
  /\ status = "ok" /\ job = NoJob /\ script # <<>>
  /\ Do(Head(script)) \/ UNCHANGED vars
  /\ script' = Tail(script)
  /\ UNCHANGED <<calls, job>>

CopyInit == Init /\ script = Script /\ calls = <<>> /\ job = NoJob

CopyNext ==
  \/ CopyStep
  \/ \E src \in Sources, dst \in Dests : CopyTree(src, dst)
  \/ Build

CopySpec == CopyInit /\ [][CopyNext]_allVars

-----------------------------------------------------------------------------
(* The calls under way are of directories of the tree, within their chains;*)
(* nothing else has a value it is not meant to have.                       *)
CopyTypeOK ==
  /\ TypeOK
  /\ Len(calls) <= MaxCalls
  /\ \A i \in 1..Len(calls) :
       /\ IsDir(calls[i].node)
       /\ calls[i].next \in 1..Len(kids[calls[i].node]) + 1
  /\ job.made \in Ids \cup {NULL}

(* cp -r makes a copy: when it is back, what it made has the same names,   *)
(* types and contents below it, in the same order, as what was copied had  *)
(* when it was asked for, and that is as it was.  It takes names that can  *)
(* be found, a destination that is outside and new, and room: then all the *)
(* lookups by path, in a tree that grows under them, find what they should.*)
CopyIsFaithful ==
  job.apart /\ job.fits /\ status = "ok" /\ calls = <<>> =>
    Shape(job.made) = job.shape /\ Shape(job.of) = job.shape

(* The stack holds no more calls than the copied directory is deep: only a *)
(* copy into itself, or names that stand for other nodes, can use up the   *)
(* kernel stack, apart from a directory that is deeper than the stack.     *)
StackFollowsSource == job.apart => Len(calls) <= job.depth

(* The nested calls of vfs_cp_r follow the tree that was to be copied,     *)
(* each at a place in the chain of a directory that is still there.        *)
CallsFollowSource == CopyTypeOK /\ StackFollowsSource

(* Without sudo nothing protected gets a copy in it: the destination of    *)
(* every single node is looked up, and tested, again.                      *)
CopyNeedsPrivilege ==
  [][\A d \in nodes :
       job' # NoJob /\ ~sudo_mode /\ kids'[d] # kids[d] => ~Protected(d)]_allVars
=============================================================================
