--------------------------------- MODULE Fs ---------------------------------
(***************************************************************************)
(* The file system calls of sysfile.c over inodes, directories and blocks  *)
(* (fs.c) and the open file table (file.c).  A process is at a label of    *)
(* its call and has a list of releases to do first: "unlock" is iunlock(), *)
(* "put" the locked part of iput(), "drop" its ref--.  Everything a call   *)
(* does with an inode between ilock() and iunlock() is one action.  The    *)
(* cached and the on-disk copy of an inode are one record: the cache is    *)
(* written through before the lock is released.  Transactions are those of *)
(* module Log.                                                             *)
(***************************************************************************)
EXTENDS Integers, FiniteSets, FiniteSetsExt, SequencesExt

CONSTANTS Proc, Name,
          NINODES, NBLOCKS, NFILE, NOFILE,
          Calls,     \* the calls that programs make
          MaxCalls,  \* bound: the calls on paths and of sys_dup()
          Paths,     \* their paths: [abs |-> BOOLEAN, elems |-> Seq(Name)]
          None

ASSUME FsAssumption ==
  /\ NINODES \in Nat /\ NINODES > 2 /\ NBLOCKS \in Nat /\ NBLOCKS > 1 /\ {"a", "b"} \subseteq Name /\ NFILE \in Nat /\ NOFILE \in Nat
  /\ None \notin Nat \cup Proc
  /\ \A x \in Paths : x.abs \in BOOLEAN /\ x.elems \in Seq(Name \cup {".", ".."})

Inum == 1 .. NINODES
Blk  == 1 .. NBLOCKS
File == 1 .. NFILE
Fd   == 1 .. NOFILE
ROOTINO == 1
Dots == {".", ".."}

VARIABLES
  type, nlink,      \* of an inode; type "free" is 0
  ent,              \* the entries of a directory: name -> inode, 0 for none
  addrs, bitmap,    \* the blocks of an inode, the blocks in use
  ref, valid, lock, \* inode cache: references, B_VALID, holder of ip->lock
  fref, fip, fwr,   \* open files: references, inode, writable
  ofile, cwd,       \* descriptors and current directory of a process
  at, todo,         \* where a process is in its call
  call, arg, path, dp, ip,   \* its local variables
  calls,            \* calls so far
  halted,           \* a panic for lack of inodes or blocks
  lost              \* history: names of an inode that went away with a directory

disk  == <<type, nlink, ent, addrs, bitmap>>
files == <<fref, fip, fwr, ofile, cwd>>
local == <<call, arg, path, dp, ip>>
vars  == <<disk, ref, valid, lock, files, at, todo, local, calls, halted, lost>>

NoEntries == [n \in Name \cup Dots |-> 0]

TypeOK ==
  /\ type \in [Inum -> {"free", "dir", "file"}] /\ nlink \in [Inum -> Nat]
  /\ \A i \in Inum : ent[i] \in [Name \cup Dots -> Inum \cup {0}]
  /\ addrs \in [Inum -> SUBSET Blk] /\ bitmap \subseteq Blk
  /\ ref \in [Inum -> Nat] /\ valid \in [Inum -> BOOLEAN]
  /\ lock \in [Inum -> Proc \cup {None}]
  /\ fref \in [File -> 0 .. NOFILE * Cardinality(Proc)]
  /\ fip \in [File -> Inum \cup {None}] /\ fwr \in [File -> BOOLEAN]
  /\ ofile \in [Proc -> [Fd -> File \cup {None}]] /\ cwd \in [Proc -> Inum]
  /\ dp \in [Proc -> Inum \cup {None}] /\ ip \in [Proc -> Inum \cup {None}]
  /\ calls \in 0 .. MaxCalls /\ halted \in BOOLEAN

(* The image of mkfs after mkdir("a") and the creation of the file "a/b";  *)
(* every process is in the root directory.                                 *)
A == 2
B == 3
Init ==
  /\ type = [i \in Inum |-> CASE i \in {ROOTINO, A} -> "dir" [] i = B -> "file" [] OTHER -> "free"]
  /\ nlink = [i \in Inum |-> CASE i = ROOTINO -> 2 [] i \in {A, B} -> 1 [] OTHER -> 0]
  /\ ent = [i \in Inum |->
       CASE i = ROOTINO -> [NoEntries EXCEPT !["."] = i, ![".."] = i, !["a"] = A]
         [] i = A -> [NoEntries EXCEPT !["."] = i, ![".."] = ROOTINO, !["b"] = B]
         [] OTHER -> NoEntries]
  /\ addrs = [i \in Inum |-> IF i \in {ROOTINO, A} THEN {i} ELSE {}] /\ bitmap = {ROOTINO, A}
  /\ ref = [i \in Inum |-> IF i = ROOTINO THEN Cardinality(Proc) ELSE 0]
  /\ valid = [i \in Inum |-> FALSE] /\ lock = [i \in Inum |-> None]
  /\ fref = [f \in File |-> 0] /\ fip = [f \in File |-> None] /\ fwr = [f \in File |-> FALSE]
  /\ ofile = [p \in Proc |-> [d \in Fd |-> None]] /\ cwd = [p \in Proc |-> ROOTINO]
  /\ at = [p \in Proc |-> "user"] /\ todo = [p \in Proc |-> <<>>]
  /\ call = [p \in Proc |-> None] /\ arg = call /\ path = [p \in Proc |-> <<>>]
  /\ dp = [p \in Proc |-> None] /\ ip = dp /\ calls = 0 /\ halted = FALSE /\ lost = [i \in Inum |-> 0]

-----------------------------------------------------------------------------
(* Steps.                                                                  *)
At(p, l)  == ~halted /\ at[p] = l /\ todo[p] = <<>>
Set(f, x, v) == [f EXCEPT ![x] = v]
Goto(p, l, releases) ==
  /\ at' = Set(at, p, l) /\ todo' = Set(todo, p, releases)
  /\ call' = IF l = "user" THEN Set(call, p, None) ELSE call

unlockput(i) == << <<"unlock", i>>, <<"put", i>> >>

(* ilock(): the lock, and the inode read from disk; iget() and idup() of    *)
(* another inode may follow: a cache entry is found, or recycled without   *)
(* being valid.                                                            *)
ilock(p, i) == lock[i] = None /\ lock' = Set(lock, i, p)

ilockOnly(p, i) == ilock(p, i) /\ valid' = Set(valid, i, TRUE) /\ UNCHANGED ref
ilockGet(p, i, j) ==
  /\ ilock(p, i)
  /\ ref' = [ref EXCEPT ![j] = @ + 1]
  /\ valid' = [valid EXCEPT ![j] = @ /\ ref[j] > 0, ![i] = TRUE]
iget(i) ==
  /\ ref' = [ref EXCEPT ![i] = @ + 1]
  /\ valid' = Set(valid, i, valid[i] /\ ref[i] > 0)

(* The call returns -1; sys_link() first takes its nlink++ back.           *)
Fail(p, releases) ==
  /\ Goto(p, IF ip[p] # None /\ call[p] = "link" THEN "linkbad" ELSE "user", releases)
  /\ dp' = Set(dp, p, None) /\ path' = Set(path, p, <<>>)

iunlock(p) ==
  /\ ~halted /\ todo[p] # <<>> /\ todo[p][1][1] = "unlock"
  /\ lock' = Set(lock, todo[p][1][2], None)
  /\ todo' = Set(todo, p, Tail(todo[p]))
  /\ UNCHANGED <<disk, ref, valid, files, at, local, calls, halted, lost>>

(* iput(): the last reference to an inode without links truncates and      *)
(* frees it, under its lock.                                               *)
FreeAtNoLink(i) == valid[i] /\ nlink[i] = 0
FreeAt(i) == valid[i] /\ nlink[i] = 0 /\ ref[i] = 1

itrunc(i) == bitmap \ addrs[i]

iput(p) ==
  /\ ~halted /\ todo[p] # <<>> /\ todo[p][1][1] = "put"
  /\ LET i == todo[p][1][2] IN
       /\ lock[i] = None /\ lock' = Set(lock, i, p)
       /\ todo' = Set(todo, p, << <<"unlock", i>>, <<"drop", i>> >> \o Tail(todo[p]))
       /\ IF FreeAt(i)
          THEN /\ type' = Set(type, i, "free") /\ valid' = Set(valid, i, FALSE)
               /\ addrs' = Set(addrs, i, {}) /\ bitmap' = itrunc(i)
               /\ ent' = Set(ent, i, NoEntries)
               /\ lost' = [j \in Inum |-> lost[j] + Cardinality({n \in Name : ent[i][n] = j})]
          ELSE UNCHANGED <<type, valid, addrs, bitmap, ent, lost>>
  /\ UNCHANGED <<nlink, ref, files, at, local, calls, halted>>

iputRef(p) ==
  /\ ~halted /\ todo[p] # <<>> /\ todo[p][1][1] = "drop"
  /\ ref' = [ref EXCEPT ![todo[p][1][2]] = @ - 1]
  /\ todo' = Set(todo, p, Tail(todo[p]))
  /\ UNCHANGED <<disk, valid, lock, files, at, local, calls, halted, lost>>

-----------------------------------------------------------------------------
(* namex(): one element per step, one lock at a time.                      *)
WantsParent(p) ==
  \/ call[p] \in {"create", "mkdir", "unlink"}
  \/ call[p] = "link" /\ ip[p] # None

Walk(p, c, x) ==
  LET start == IF x.abs THEN ROOTINO ELSE cwd[p] IN
  /\ call' = Set(call, p, c) /\ path' = Set(path, p, x.elems)
  /\ dp' = Set(dp, p, start) /\ iget(start)
  /\ at' = Set(at, p, "namex") /\ UNCHANGED todo

Begin(p, c) ==
  /\ At(p, "user") /\ calls < MaxCalls /\ calls' = calls + 1
  /\ \E x \in Paths :
       /\ Walk(p, c, x)
       /\ IF c = "link" THEN \E y \in Paths \ {x} : arg' = Set(arg, p, y) ELSE UNCHANGED arg
  /\ UNCHANGED <<disk, lock, files, ip, halted, lost>>

namexStep(p) ==
  LET d == dp[p]
      n == path[p][1]
  IN
  /\ At(p, "namex") /\ path[p] # <<>>
  /\ IF type[d] = "dir" /\ WantsParent(p) /\ Len(path[p]) = 1
     THEN /\ ilockOnly(p, d) /\ Goto(p, call[p], << <<"unlock", d>> >>)
          /\ UNCHANGED <<dp, path>>
     ELSE IF type[d] = "dir" /\ ent[d][n] # 0
     THEN /\ ilockGet(p, d, ent[d][n]) /\ dp' = Set(dp, p, ent[d][n])
          /\ path' = Set(path, p, Tail(path[p]))
          /\ Goto(p, "namex", unlockput(d))
     ELSE ilockOnly(p, d) /\ Fail(p, unlockput(d))
  /\ UNCHANGED <<disk, files, arg, ip, calls, halted, lost>>

namexEnd(p) ==
  /\ At(p, "namex") /\ path[p] = <<>>
  /\ IF WantsParent(p) THEN Fail(p, << <<"put", dp[p]>> >>) /\ UNCHANGED ip
     ELSE /\ ip' = Set(ip, p, dp[p]) /\ dp' = Set(dp, p, None)
          /\ Goto(p, call[p], <<>>) /\ UNCHANGED path
  /\ UNCHANGED <<disk, ref, valid, lock, files, arg, calls, halted, lost>>

-----------------------------------------------------------------------------
(* bmap(): writei() and dirlink() allocate the block they write to when    *)
(* there is none; a file has one block here.                               *)
FreeBlocks == Blk \ bitmap

bmapOne(i) ==
  IF addrs[i] # {} THEN UNCHANGED <<addrs, bitmap>>
  ELSE /\ FreeBlocks # {}
       /\ addrs' = Set(addrs, i, {Min(FreeBlocks)})
       /\ bitmap' = bitmap \cup {Min(FreeBlocks)}

-----------------------------------------------------------------------------
(* sys_open() after namei() or create(): filealloc() and fdalloc(), with   *)
(* the inode locked.                                                       *)
FreeFiles(p) == {f \in File : fref[f] = 0 /\ \E d \in Fd : ofile[p][d] = None}

OpenFile(p, i, writable, releases) ==
  /\ ip' = Set(ip, p, None)
  /\ IF FreeFiles(p) = {}
     THEN Goto(p, "user", releases \o unlockput(i)) /\ UNCHANGED files
     ELSE LET f == Min(FreeFiles(p))
              d == Min({e \in Fd : ofile[p][e] = None})
          IN /\ fref' = Set(fref, f, 1) /\ fip' = Set(fip, f, i) /\ fwr' = Set(fwr, f, writable)
             /\ ofile' = [ofile EXCEPT ![p][d] = f] /\ UNCHANGED cwd
             /\ Goto(p, "user", releases \o << <<"unlock", i>> >>)

Open(p) ==
  /\ At(p, "open") /\ ilockOnly(p, ip[p])
  /\ \E writable \in BOOLEAN :
       IF type[ip[p]] = "dir" /\ writable
       THEN Goto(p, "user", unlockput(ip[p])) /\ ip' = Set(ip, p, None) /\ UNCHANGED files
       ELSE OpenFile(p, ip[p], writable, <<>>)
  /\ UNCHANGED <<disk, arg, path, dp, calls, halted, lost>>

-----------------------------------------------------------------------------
(* create() for sys_open(O_CREATE) and sys_mkdir(): the name exists, or    *)
(* ialloc() takes the first free inode.  A file is created to be written.  *)
name(p) == path[p][1]
NewType == [create |-> "file", mkdir |-> "dir"]
FreeInodes == {i \in Inum : type[i] = "free"}

CreateFound(p) ==
  LET d == dp[p] IN
  /\ ~halted /\ call[p] \in DOMAIN NewType /\ At(p, call[p]) /\ ent[d][name(p)] # 0
  /\ ilockGet(p, d, ent[d][name(p)]) /\ ip' = Set(ip, p, ent[d][name(p)])
  /\ dp' = Set(dp, p, None) /\ path' = Set(path, p, <<>>)
  /\ Goto(p, "exists", unlockput(d))
  /\ UNCHANGED <<disk, files, arg, calls, halted, lost>>

CreateExists(p) ==
  /\ At(p, "exists") /\ ilockOnly(p, ip[p])
  /\ IF call[p] = "create" /\ type[ip[p]] = "file"
     THEN OpenFile(p, ip[p], TRUE, <<>>)
     ELSE /\ Goto(p, "user", unlockput(ip[p])) /\ ip' = Set(ip, p, None)
          /\ UNCHANGED files
  /\ UNCHANGED <<disk, arg, path, dp, calls, halted, lost>>

ialloc(p) ==
  LET i == Min(FreeInodes) IN
  /\ call[p] \in DOMAIN NewType /\ At(p, call[p]) /\ ent[dp[p]][name(p)] = 0
  /\ FreeInodes # {} /\ ilockGet(p, dp[p], i)
  /\ type' = Set(type, i, NewType[call[p]]) /\ nlink' = Set(nlink, i, 0)
  /\ ip' = Set(ip, p, i) /\ Goto(p, "new", <<>>)
  /\ UNCHANGED <<ent, addrs, bitmap, files, arg, path, dp, calls, halted, lost>>

CreateNew(p) ==
  LET i == ip[p]
      d == dp[p]
      isdir == call[p] = "mkdir"
  IN
  /\ At(p, "new") /\ ilockOnly(p, i)
  /\ nlink' = [nlink EXCEPT ![i] = 1, ![d] = IF isdir THEN @ + 1 ELSE @]
  /\ ent' = [ent EXCEPT ![d][name(p)] = i, ![i]["."] = IF isdir THEN i ELSE 0,
                        ![i][".."] = IF isdir THEN d ELSE 0]
  /\ IF isdir THEN bmapOne(i) ELSE UNCHANGED <<addrs, bitmap>>
  /\ IF call[p] = "create" THEN OpenFile(p, i, TRUE, unlockput(d))
     ELSE /\ Goto(p, "user", unlockput(d) \o unlockput(i)) /\ ip' = Set(ip, p, None)
          /\ UNCHANGED files
  /\ dp' = Set(dp, p, None) /\ path' = Set(path, p, <<>>)
  /\ UNCHANGED <<type, arg, calls, halted, lost>>

-----------------------------------------------------------------------------
(* sys_unlink(): the directory, then the inode, both locked.               *)
Unlink(p) ==
  LET d == dp[p] IN
  /\ At(p, "unlink")
  /\ IF name(p) \in Dots \/ ent[d][name(p)] = 0
     THEN ilockOnly(p, d) /\ Fail(p, unlockput(d)) /\ UNCHANGED ip
     ELSE /\ ilockGet(p, d, ent[d][name(p)]) /\ ip' = Set(ip, p, ent[d][name(p)])
          /\ Goto(p, "unlink2", <<>>) /\ UNCHANGED <<dp, path>>
  /\ UNCHANGED <<disk, files, arg, calls, halted, lost>>

isdirempty(i) == \A n \in Name : ent[i][n] = 0

ParentLink(i) == IF type[i] = "dir" THEN 1 ELSE 0

UnlinkEntry(p) ==
  LET d == dp[p]
      i == ip[p]
  IN
  /\ At(p, "unlink2") /\ ilockOnly(p, i)
  /\ IF type[i] = "dir" /\ ~isdirempty(i)
     THEN Goto(p, "user", unlockput(i) \o unlockput(d)) /\ UNCHANGED <<ent, nlink>>
     ELSE /\ ent' = [ent EXCEPT ![d][name(p)] = 0]
          /\ nlink' = [nlink EXCEPT ![d] = @ - ParentLink(i), ![i] = @ - 1]
          /\ Goto(p, "user", unlockput(d) \o unlockput(i))
  /\ dp' = Set(dp, p, None) /\ ip' = Set(ip, p, None) /\ path' = Set(path, p, <<>>)
  /\ UNCHANGED <<type, addrs, bitmap, files, arg, calls, halted, lost>>

-----------------------------------------------------------------------------
(* sys_link(): nlink first, then the new name, or nlink back.              *)
Link(p) ==
  /\ At(p, "link") /\ dp[p] = None
  /\ IF type[ip[p]] = "dir"
     THEN /\ ilockOnly(p, ip[p]) /\ Goto(p, "user", unlockput(ip[p]))
          /\ ip' = Set(ip, p, None) /\ UNCHANGED <<nlink, path, dp>>
     ELSE LET start == IF arg[p].abs THEN ROOTINO ELSE cwd[p] IN
          /\ ilockGet(p, ip[p], start)
          /\ nlink' = [nlink EXCEPT ![ip[p]] = @ + 1]
          /\ path' = Set(path, p, arg[p].elems) /\ dp' = Set(dp, p, start)
          /\ Goto(p, "namex", << <<"unlock", ip[p]>> >>) /\ UNCHANGED ip
  /\ arg' = Set(arg, p, None)
  /\ UNCHANGED <<type, ent, addrs, bitmap, files, calls, halted, lost>>

PutFound(i) == << <<"put", i>> >>

LinkEntry(p) ==
  LET d == dp[p] IN
  /\ At(p, "link") /\ d # None
  /\ IF ent[d][name(p)] # 0
     THEN /\ ilockGet(p, d, ent[d][name(p)])
          /\ Fail(p, PutFound(ent[d][name(p)]) \o unlockput(d)) /\ UNCHANGED <<ent, ip>>
     ELSE /\ ilockOnly(p, d) /\ ent' = [ent EXCEPT ![d][name(p)] = ip[p]]
          /\ Goto(p, "user", unlockput(d) \o << <<"put", ip[p]>> >>)
          /\ dp' = Set(dp, p, None) /\ ip' = Set(ip, p, None) /\ path' = Set(path, p, <<>>)
  /\ UNCHANGED <<type, nlink, addrs, bitmap, files, arg, calls, halted, lost>>

NoUndoLink(i) == nlink
UndoLink(i) == [nlink EXCEPT ![i] = @ - 1]

LinkBad(p) ==
  /\ At(p, "linkbad") /\ ilockOnly(p, ip[p])
  /\ nlink' = UndoLink(ip[p])
  /\ Goto(p, "user", unlockput(ip[p])) /\ ip' = Set(ip, p, None)
  /\ UNCHANGED <<type, ent, addrs, bitmap, files, arg, path, dp, calls, halted, lost>>

-----------------------------------------------------------------------------
(* sys_chdir().                                                            *)
Chdir(p) ==
  /\ At(p, "chdir") /\ ilockOnly(p, ip[p])
  /\ IF type[ip[p]] # "dir" THEN Goto(p, "user", unlockput(ip[p])) /\ UNCHANGED cwd
     ELSE /\ Goto(p, "user", << <<"unlock", ip[p]>>, <<"put", cwd[p]>> >>)
          /\ cwd' = Set(cwd, p, ip[p])
  /\ ip' = Set(ip, p, None)
  /\ UNCHANGED <<disk, fref, fip, fwr, ofile, arg, path, dp, calls, halted, lost>>

(* sys_close() and fileclose(); sys_dup(); fileread() and filewrite().     *)
Close(p, d) ==
  LET f == ofile[p][d] IN
  /\ At(p, "user") /\ f # None
  /\ ofile' = [ofile EXCEPT ![p][d] = None] /\ fref' = [fref EXCEPT ![f] = @ - 1]
  /\ Goto(p, "user", IF fref[f] = 1 THEN << <<"put", fip[f]>> >> ELSE <<>>)
  /\ UNCHANGED <<disk, ref, valid, lock, fip, fwr, cwd, arg, path, dp, ip, calls, halted, lost>>

filedup(f) == [fref EXCEPT ![f] = @ + 1]

Dup(p, d, e) ==
  /\ At(p, "user") /\ calls < MaxCalls /\ calls' = calls + 1 /\ ofile[p][d] # None
  /\ ofile[p][e] = None /\ \A k \in Fd : k < e => ofile[p][k] # None
  /\ ofile' = [ofile EXCEPT ![p][e] = ofile[p][d]] /\ fref' = filedup(ofile[p][d])
  /\ UNCHANGED <<disk, ref, valid, lock, fip, fwr, cwd, at, todo, local, halted, lost>>

FileIo(p, d) ==
  LET i == fip[ofile[p][d]] IN
  /\ At(p, "user") /\ ofile[p][d] # None
  /\ ilockOnly(p, i)
  /\ IF fwr[ofile[p][d]] /\ type[i] = "file" THEN bmapOne(i) ELSE UNCHANGED <<addrs, bitmap>>
  /\ Goto(p, "user", << <<"unlock", i>> >>)
  /\ UNCHANGED <<type, nlink, ent, files, arg, path, dp, ip, calls, halted, lost>>

(* "ialloc: no inodes" and "balloc: out of blocks".                        *)
NoRoom(p) ==
  \/ call[p] \in DOMAIN NewType /\ At(p, call[p]) /\ ent[dp[p]][name(p)] = 0 /\ FreeInodes = {}
  \/ call[p] = "mkdir" /\ At(p, "new") /\ FreeBlocks = {}
  \/ \E d \in Fd : /\ At(p, "user") /\ ofile[p][d] # None /\ fwr[ofile[p][d]]
                   /\ type[fip[ofile[p][d]]] = "file" /\ addrs[fip[ofile[p][d]]] = {}
                   /\ FreeBlocks = {}

Panic(p) == NoRoom(p) /\ halted' = TRUE
            /\ UNCHANGED <<disk, ref, valid, lock, files, at, todo, local, calls, lost>>

-----------------------------------------------------------------------------
Next == \E p \in Proc :
  \/ iunlock(p) \/ iput(p) \/ iputRef(p) \/ namexStep(p) \/ namexEnd(p)
  \/ \E c \in Calls : Begin(p, c)
  \/ Open(p) \/ CreateFound(p) \/ CreateExists(p) \/ ialloc(p) \/ CreateNew(p)
  \/ Unlink(p) \/ UnlinkEntry(p) \/ Link(p) \/ LinkEntry(p) \/ LinkBad(p) \/ Chdir(p)
  \/ \E d \in Fd : Close(p, d) \/ FileIo(p, d)
  \/ \E d, e \in Fd : Dup(p, d, e)
  \/ Panic(p)

Spec == Init /\ [][Next]_vars

-----------------------------------------------------------------------------
(* Properties.                                                             *)

(* No name dangles, and nlink is the number of names: those in             *)
(* directories, the ".." of the directories in it, the one that sys_link() *)
(* is about to write or to give up, mkfs's own link to the root, and the   *)
(* names that went away with a directory: create() and sys_link() write to *)
(* a directory that sys_unlink() has removed meanwhile, and its last       *)
(* iput() drops the names without their links.                             *)
Named(i) == {x \in Inum \X Name : type[x[1]] = "dir" /\ ent[x[1]][x[2]] = i}
Subdirs(i) == {j \in Inum \ {i} : type[j] = "dir" /\ ent[j][".."] = i /\ Named(j) # {}}
Linking(i) == {p \in Proc : call[p] = "link" /\ ip[p] = i /\ (dp[p] # None \/ at[p] = "linkbad")}
Links(i) ==
  Cardinality(Named(i)) + Cardinality(Subdirs(i)) + Cardinality(Linking(i)) + lost[i]
  + IF i = ROOTINO THEN 1 ELSE 0
NoDanglingName ==
  \A i \in Inum : nlink[i] = Links(i) /\ (type[i] = "free" => Links(i) = 0)

(* ip->ref counts the pointers to the inode: current directories, open     *)
(* files, and the calls in progress (fs.c:122-127).                        *)
Pointers(i) ==
  Cardinality({p \in Proc : cwd[p] = i}) + Cardinality({f \in File : fref[f] > 0 /\ fip[f] = i})
  + Cardinality({p \in Proc : dp[p] = i}) + Cardinality({p \in Proc : ip[p] = i})
  + Cardinality({x \in Proc \X (1 .. 6) :
       x[2] <= Len(todo[x[1]]) /\ todo[x[1]][x[2]] \in {<<"put", i>>, <<"drop", i>>}})
RefsCounted == \A i \in Inum : ref[i] = Pointers(i)

(* An inode in use is never freed under its user: current directories and  *)
(* open files stay allocated after they are unlinked, and ilock() finds a  *)
(* type (fs.c:309-310).                                                        *)
InUseAllocated ==
  \A p \in Proc : /\ type[cwd[p]] = "dir"
                  /\ \A f \in File : fref[f] > 0 => type[fip[f]] # "free"
                  /\ dp[p] # None => type[dp[p]] # "free"
                  /\ ip[p] # None => type[ip[p]] # "free"

(* Every block in use belongs to one inode, and a free inode has none.     *)
BlocksOwned ==
  /\ \A i, j \in Inum : i # j => addrs[i] \cap addrs[j] = {}
  /\ bitmap = UNION {addrs[i] : i \in Inum}
  /\ \A i \in Inum : type[i] = "free" => addrs[i] = {}

(* The inode a process waits for: the lock it needs next.                  *)
Wants(p) ==
  CASE todo[p] # <<>> -> IF todo[p][1][1] = "put" THEN todo[p][1][2] ELSE None
    [] at[p] = "user" -> None
    [] at[p] = "namex" -> IF path[p] = <<>> THEN None ELSE dp[p]
    [] at[p] \in {"exists", "new", "unlink2", "linkbad", "open", "chdir"} -> ip[p]
    [] OTHER -> IF dp[p] # None THEN dp[p] ELSE ip[p]

(* Calls on path names do not wait for each other's inodes: "The           *)
(* separation also helps avoid deadlock and races during pathname lookup"  *)
(* (fs.c:149-150), and linkunlink() of usertests.c runs create, link and   *)
(* unlink of one name in two processes "to look for deadlocks" (855-856).  *)
NoCircularWait ==
  \A p, q \in Proc : ~ ( /\ Wants(p) # None /\ lock[Wants(p)] = q
                        /\ Wants(q) # None /\ lock[Wants(q)] = p )

\* The inode cache, the inodes on disk and the bitmap agree with each other
\* and with who uses them (iget(), iput(), itrunc() and their callers).
InodesSound ==
    TypeOK /\ RefsCounted /\ InUseAllocated /\ BlocksOwned

=============================================================================
