------------------------------ MODULE FileData ------------------------------
(***************************************************************************)
(* The contents of files: bmap(), readi(), writei() and iupdate() of fs.c, *)
(* the loop of filewrite() (file.c), and the image that mkfs.c builds with *)
(* iappend().  A sector holds BSIZE bytes or, an indirect one, BSIZE block *)
(* numbers.  A file f has a copy of its inode in memory and one on disk;   *)
(* the root directory is only read.  A process writes its own mark.        *)
(***************************************************************************)
EXTENDS Integers, FiniteSets, FiniteSetsExt, SequencesExt

CONSTANTS Writers, BSIZE, NDIRECT,
          NSECTOR,      \* the sectors of the disk
          BPB,          \* the sectors that one bitmap sector covers
          OPMAX,        \* MAXOPBLOCKS
          MaxWrite,     \* bound: the bytes of a write()
          MaxWrites,    \* bound: the calls of write()
          MaxBoots,     \* bound: reboots
          Images        \* what mkfs stores in the root and in the file

VARIABLES img,          \* [inode, dinode, sector, inuse, logged]
          desc, foff,   \* the descriptor of a process; f->off of a descriptor
          op,           \* what a process has left of its write()
          written,      \* bytes written by each process since the boot
          lost,         \* sectors in use that no inode on disk knew at a reboot
          bounds,       \* [calls, boots]
          made,         \* what mkfs stored: [root, file]
          view          \* what readi() of the whole file gives

dataVars == <<img, desc, foff, op, written, lost, bounds, made, view>>

Shared == 0                        \* a descriptor that fork() has duplicated
Inodes == {"root", "file"}
MAXFILE == NDIRECT + BSIZE
Zero == [k \in 0 .. BSIZE - 1 |-> 0]
MkfsByte == 9
Empty == [addrs |-> [k \in 0 .. NDIRECT |-> 0], size |-> 0]

-----------------------------------------------------------------------------
(* mkfs.c: freeblock++ hands out the sectors; block 0 stands for those     *)
(* that are in use from the start.                                         *)
MkfsSlot(s, f, n) ==
    IF s.dinode[f].addrs[n] # 0 THEN s
    ELSE [s EXCEPT !.dinode[f].addrs[n] = s.free, !.free = @ + 1]

MkfsBlock(s, f, fbn) ==
    IF fbn < NDIRECT
    THEN LET t == MkfsSlot(s, f, fbn) IN [s |-> t, x |-> t.dinode[f].addrs[fbn]]
    ELSE LET t == MkfsSlot(s, f, NDIRECT)
             ind == t.dinode[f].addrs[NDIRECT]
             k == fbn - NDIRECT
             u == IF t.sector[ind][k] # 0 THEN t
                  ELSE [t EXCEPT !.sector[ind][k] = t.free, !.free = @ + 1]
         IN [s |-> u, x |-> u.sector[ind][k]]

RECURSIVE iappend(_, _, _)
iappend(s, f, n) ==
    IF n = 0 THEN s
    ELSE LET off == s.dinode[f].size
             fbn == off \div BSIZE
             n1 == Min({n, (fbn + 1) * BSIZE - off})
             b == MkfsBlock(s, f, fbn)
             t == [b.s EXCEPT !.dinode[f].size = off + n1,
                      !.sector[b.x] = [k \in DOMAIN @ |->
                          IF k \in off - fbn * BSIZE .. off - fbn * BSIZE + n1 - 1
                          THEN MkfsByte ELSE @[k]]]
         IN iappend(t, f, n - n1)

RootSize(off) == (off \div BSIZE + 1) * BSIZE

mkfs(root, file) ==
    LET blank == [dinode |-> [f \in Inodes |-> Empty],
                  sector |-> [b \in 0 .. NSECTOR - 1 |-> Zero], free |-> 1]
        s == iappend(iappend(blank, "root", root), "file", file)
        din == [s.dinode EXCEPT !["root"].size = RootSize(@)]
    IN [inode |-> din, dinode |-> din, sector |-> s.sector,
        inuse |-> 0 .. s.free - 1, logged |-> {}]

-----------------------------------------------------------------------------
(* fs.c.  "logged" collects the sectors that go to log_write() in one      *)
(* transaction.                                                            *)
NewOp(s) == [s EXCEPT !.logged = {}]

Alloc(s, b) == s.inuse \cup {b}

balloc(s) ==
    LET b == Min((0 .. NSECTOR - 1) \ s.inuse)
    IN [b |-> b, s |-> [s EXCEPT !.inuse = Alloc(s, b), !.sector[b] = Zero,
                                 !.logged = @ \cup {<<"bitmap", b \div BPB>>, <<"sector", b>>}]]

Slot(s, f, n) ==
    IF s.inode[f].addrs[n] # 0 THEN [s |-> s, b |-> s.inode[f].addrs[n]]
    ELSE LET r == balloc(s) IN [s |-> [r.s EXCEPT !.inode[f].addrs[n] = r.b], b |-> r.b]

bmap(s, f, bn) ==
    IF bn < NDIRECT THEN Slot(s, f, bn)
    ELSE LET ind == Slot(s, f, NDIRECT)
             k == bn - NDIRECT
             r == balloc(ind.s)
         IN IF ind.s.sector[ind.b][k] # 0 THEN [s |-> ind.s, b |-> ind.s.sector[ind.b][k]]
            ELSE [s |-> [r.s EXCEPT !.sector[ind.b][k] = r.b,
                                    !.logged = @ \cup {<<"sector", ind.b>>}], b |-> r.b]

Piece(off, n) == Min({n, BSIZE - (off % BSIZE)})

RECURSIVE ReadLoop(_, _, _, _, _)
ReadLoop(s, f, off, n, dst) ==
    IF n = 0 THEN [s |-> s, data |-> dst]
    ELSE LET r == bmap(s, f, off \div BSIZE)
             m == Piece(off, n)
         IN ReadLoop(r.s, f, off + m, n - m,
                     dst \o [k \in 1 .. m |-> r.s.sector[r.b][(off % BSIZE) + k - 1]])

readi(s, f, off, n) ==
    IF off > s.inode[f].size THEN [s |-> s, data |-> <<>>]
    ELSE ReadLoop(s, f, off, Min({n, s.inode[f].size - off}), <<>>)

iupdate(s, f) == [s EXCEPT !.dinode[f] = s.inode[f], !.logged = @ \cup {<<"inode", f>>}]

RECURSIVE WriteLoop(_, _, _, _, _)
WriteLoop(s, f, src, off, n) ==
    IF n = 0 THEN s
    ELSE LET r == bmap(s, f, off \div BSIZE)
             m == Piece(off, n)
             at == off % BSIZE
         IN WriteLoop([r.s EXCEPT !.logged = @ \cup {<<"sector", r.b>>},
                          !.sector[r.b] = [k \in DOMAIN @ |-> IF k \in at .. at + m - 1
                                                              THEN src ELSE @[k]]],
                      f, src, off + m, n - m)

GrowsAlways(s, f, end) == TRUE
Grows(s, f, end) == end > s.inode[f].size

\* The image after writei() of n bytes; its return value is n or -1.
WriteFails(s, f, off, n) == off > s.inode[f].size \/ off + n > MAXFILE * BSIZE
writei(s, f, src, off, n) ==
    LET t == WriteLoop(NewOp(s), f, src, off, n)
    IN IF Grows(s, f, off + n) THEN iupdate([t EXCEPT !.inode[f].size = off + n], f) ELSE t

Whole(s) == readi(s, "file", 0, s.inode["file"].size).data

-----------------------------------------------------------------------------
Idle == [n |-> 0, i |-> 0]

DataInit ==
    /\ made \in Images /\ img = mkfs(made.root, made.file)
    /\ desc \in {[p \in Writers |-> Shared], [p \in Writers |-> p]}
    /\ foff = [d \in Writers \cup {Shared} |-> 0]
    /\ op = [p \in Writers |-> Idle] /\ written = [p \in Writers |-> 0]
    /\ lost = {} /\ bounds = [calls |-> 0, boots |-> 0]
    /\ view = Whole(img)

WriteCall(p) ==
    /\ op[p] = Idle /\ bounds.calls < MaxWrites
    /\ \E n \in 1 .. MaxWrite : op' = [op EXCEPT ![p].n = n]
    /\ bounds' = [bounds EXCEPT !.calls = @ + 1]
    /\ UNCHANGED <<img, desc, foff, written, lost, made>>

\* filewrite(): "max"; one turn of its loop is one transaction.
MaxChunk == ((OPMAX - 1 - 1 - 2) \div 2) * BSIZE

OffStays(off, r) == off
OffAfter(off, r) == off + r

filewrite(p) ==
    LET off == foff[desc[p]]
        n1 == Min({op[p].n - op[p].i, MaxChunk})
    IN
    /\ op[p] # Idle
    /\ IF WriteFails(img, "file", off, n1)
       THEN op' = [op EXCEPT ![p] = Idle] /\ UNCHANGED <<img, foff, written>>
       ELSE /\ img' = writei(img, "file", p, off, n1)
            /\ foff' = [foff EXCEPT ![desc[p]] = OffAfter(off, n1)]
            /\ written' = [written EXCEPT ![p] = @ + n1]
            /\ op' = [op EXCEPT ![p] = IF @.i + n1 = @.n THEN Idle ELSE [@ EXCEPT !.i = @ + n1]]
    /\ UNCHANGED <<desc, lost, bounds, made>>

fileread(p) ==
    LET r == readi(NewOp(img), "file", foff[desc[p]], BSIZE) IN
    /\ op[p] = Idle /\ r.data # <<>>
    /\ img' = r.s /\ foff' = [foff EXCEPT ![desc[p]] = @ + Len(r.data)]
    /\ UNCHANGED <<desc, op, written, lost, bounds, made>>

\* dirlookup() of a name that the root directory does not have.
dirlookup ==
    /\ img' = readi(NewOp(img), "root", 0, img.inode["root"].size).s
    /\ UNCHANGED <<desc, foff, op, written, lost, bounds, made>>

\* A clean reboot: the inodes are read from disk again.
Mapped(inodes, f) ==
    LET a == inodes[f].addrs IN
    ({a[k] : k \in 0 .. NDIRECT} \cup
     (IF a[NDIRECT] = 0 THEN {} ELSE Range(img.sector[a[NDIRECT]]))) \ {0}

Reboot ==
    /\ bounds.boots < MaxBoots /\ \A p \in Writers : op[p] = Idle
    /\ img' = [img EXCEPT !.inode = img.dinode]
    /\ lost' = lost \cup UNION {Mapped(img.inode, f) \ Mapped(img.dinode, f) : f \in Inodes}
    /\ foff' = [d \in DOMAIN foff |-> 0] /\ written' = [p \in Writers |-> 0]
    /\ bounds' = [bounds EXCEPT !.boots = @ + 1]
    /\ UNCHANGED <<desc, op, made>>

DataNext ==
    /\ \/ \E p \in Writers : WriteCall(p) \/ filewrite(p) \/ fileread(p)
       \/ dirlookup \/ Reboot
    /\ view' = Whole(img')

DataSpec == DataInit /\ [][DataNext]_dataVars

-----------------------------------------------------------------------------
Bytes == INSTANCE ByteFile WITH bytes <- view, Marks <- Writers, Mkfs <- MkfsByte,
                                MaxLen <- MAXFILE * BSIZE

\* readi() gives back what iappend() of mkfs and writei() have stored, across
\* the direct and indirect blocks, unaligned writes and a reboot.
FileIsBytes == Bytes!BytesSpec

\* mkfs gives the root directory a size of whole blocks, one more than it has
\* when its entries fill them.
RootPadded == made.root % BSIZE = 0

\* fs.c: readi() never has to allocate (which would be a log_write() outside
\* of a transaction): every block below the size of a file is mapped, but for
\* the block that mkfs adds to a root directory whose entries fill its blocks.
NoHoles ==
    \A f \in Inodes, bn \in 0 .. MAXFILE - 1 :
        bn * BSIZE < img.inode[f].size /\ ~(f = "root" /\ RootPadded /\ bn = made.root \div BSIZE) =>
            IF bn < NDIRECT THEN img.inode[f].addrs[bn] # 0
            ELSE /\ img.inode[f].addrs[NDIRECT] # 0
                 /\ img.sector[img.inode[f].addrs[NDIRECT]][bn - NDIRECT] # 0

\* fs.c: a sector in use, as the bitmap says, holds the data or the addresses
\* of one file, and no sector is lost, but for the block that a lookup
\* allocates to such a root directory, with its indirect block, in every boot.
SectorsOwned ==
    /\ Mapped(img.inode, "root") \cap Mapped(img.inode, "file") = {}
    /\ img.inuse = {0} \cup Mapped(img.inode, "root") \cup Mapped(img.inode, "file") \cup lost
    /\ ~RootPadded => lost = {}
    /\ Cardinality(lost) <= 2 * bounds.boots

\* fs.c, writei(): "off > ip->size" is the right time for iupdate(): whenever
\* the inode is unlocked its copy on disk is the one in memory.
InodeSaved == img.inode["file"] = img.dinode["file"]

\* file.c:127-133: one turn of filewrite() logs at most MAXOPBLOCKS sectors,
\* with its two slop blocks, even if each allocation is in a bitmap sector of
\* its own.
WriteFitsLog == Cardinality(img.logged) <= OPMAX

\* file.c, filewrite(): f->off is read and advanced under the inode's lock, so
\* that processes that share a descriptor do not overwrite each other.
SharedOffset ==
    (\A p \in Writers : desc[p] = Shared) =>
        foff[Shared] <= Len(view)
        /\ (bounds.boots = 0 =>
               \A p \in Writers : written[p] = Cardinality({k \in DOMAIN view : view[k] = p}))

\* What the blocks of the files look like whenever no call is inside the file
\* system: all mapped, each owned by one file, their inode on disk, few enough
\* for a transaction, and written at the right offsets (fs.c, file.c).
FilesIntact ==
    NoHoles /\ SectorsOwned /\ InodeSaved /\ WriteFitsLog /\ SharedOffset

=============================================================================
