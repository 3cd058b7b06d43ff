--------------------------------- MODULE Fat --------------------------------
(***************************************************************************)
(* Files of the FAT32 file system: the file allocation table and clusters  *)
(* (kern/fs/cluster.c), the cluster pointers of an open file               *)
(* (kern/fs/fat32/filepnt.c), reading, writing and truncating (file.c),    *)
(* and the references that decide when a file is removed (dirent.c,        *)
(* link.c).                                                                *)
(*                                                                         *)
(* Every operation runs under mtx_file and is one step.  All files are in  *)
(* one directory.  The table is the same in all its copies, and a file's   *)
(* entry in its directory always is the Dirent in memory.                  *)
(***************************************************************************)
EXTENDS Integers, Sequences, SequencesExt, FiniteSetsExt

CONSTANTS
    Names, Procs, NULL,
    Bytes,         \* what programs write
    NClusters,     \* data_clus_cnt
    BytesPerClus,
    PAGE_SIZE,
    MaxSize,       \* the largest file programs write
    MaxRefs,       \* how many references to files there are at a time
    CutFull        \* whether they cut a file of whole pages inside a page

Clusters == 2..NClusters + 1
EOF == 0 - 1

\* A cluster holds whole pages, as mkfs.vfat makes the image (Makefile).
ASSUME FatAssumption ==
    /\ NClusters \in Nat /\ MaxSize \in Nat /\ MaxRefs \in Nat /\ CutFull \in BOOLEAN
    /\ PAGE_SIZE \in Nat \ {0} /\ BytesPerClus \in Nat \ {0} /\ BytesPerClus % PAGE_SIZE = 0

VARIABLES
    vol,   \* fat, the clusters' data, and dir: the Dirent of a file or NULL
    open,  \* how many open descriptors there are for a file
    call   \* the last system call

vars == <<vol, open, call>>

\* The pointer table of a file that has clusters c, with 0 elsewhere.
MaxClus == (MaxSize + BytesPerClus - 1) \div BytesPerClus
Table(c) == [i \in 0..MaxClus - 1 |-> IF i < Len(c) THEN c[i + 1] ELSE 0]

NewDirent == [first_clus |-> 0, file_size |-> 0, pointer |-> Table(<<>>), valid |-> FALSE,
              refcnt |-> 0, holders |-> [p \in Procs |-> 0], is_rm |-> FALSE]

\* The volume may hold a file of one whole cluster: its pointers are not read yet.
OnDisk(f, b) ==
    [fat |-> [c \in Clusters |-> IF c = 2 THEN EOF ELSE 0],
     data |-> [c \in Clusters |-> [i \in 0..BytesPerClus - 1 |-> IF c = 2 THEN b ELSE 0]],
     dir |-> [g \in Names |-> IF g = f THEN [NewDirent EXCEPT !.first_clus = 2, !.file_size = BytesPerClus]
                              ELSE NULL]]

Init ==
    /\ \/ vol = [fat |-> [c \in Clusters |-> 0],
                 data |-> [c \in Clusters |-> [i \in 0..BytesPerClus - 1 |-> 0]],
                 dir |-> [f \in Names |-> NULL]]
       \/ \E f \in Names, b \in Bytes : vol = OnDisk(f, b)
    /\ open = [f \in Names |-> 0] /\ call = NULL

RoundUp(n, k) == ((n + k - 1) \div k) * k
ClustersOf(size) == (size + BytesPerClus - 1) \div BytesPerClus

\* The clusters from c to the end of its chain.
ChainFrom(v, c) ==
    LET reach[k \in 1..NClusters] ==
            IF k = 1 THEN <<c>>
            ELSE LET sofar == reach[k - 1]
                     next == v.fat[Last(sofar)]
                 IN IF next \in Clusters THEN Append(sofar, next) ELSE sofar
    IN reach[NClusters]
-----------------------------------------------------------------------------
(* The operations, as functions on a volume v.                             *)

\* The clusters that k calls of clusterAlloc() take one after the other: each
\* the first free one above the one before.  It panics when there is none.
Free(v, prev) == SetToSortSeq({c \in Clusters : c > prev /\ v.fat[c] = 0}, <)
Last0(v, f) == LET d == v.dir[f] IN IF d.first_clus = 0 THEN 0 ELSE d.pointer[ClustersOf(d.file_size) - 1]
Needed(v, f, size) == ClustersOf(size) - ClustersOf(v.dir[f].file_size)
CanExtend(v, f, size) == size <= v.dir[f].file_size \/ Len(Free(v, Last0(v, f))) >= Needed(v, f, size)

\* file_extend(): new clusters are linked to the last one and are all zero.
FileExtend(v, f, size) ==
    LET d == v.dir[f]
        last == Last0(v, f)
        new == SubSeq(Free(v, last), 1, Needed(v, f, size))
        k == ClustersOf(d.file_size)
        next(c) == IF c = last /\ new # <<>> THEN new[1]
                   ELSE IF c = Last(new) THEN EOF
                   ELSE new[(CHOOSE i \in 1..Len(new) : new[i] = c) + 1]
    IN [fat |-> [c \in Clusters |->
                    IF new # <<>> /\ c \in {last} \cup Range(new) THEN next(c) ELSE v.fat[c]],
        data |-> [c \in Clusters |->
                    IF c \in Range(new) THEN [b \in 0..BytesPerClus - 1 |-> 0] ELSE v.data[c]],
        dir |-> [v.dir EXCEPT ![f] =
                    [d EXCEPT !.file_size = size,
                              !.first_clus = IF @ = 0 THEN new[1] ELSE @,
                              !.pointer = [i \in DOMAIN @ |->
                                  IF i >= k /\ i < k + Len(new) THEN new[i - k + 1] ELSE @[i]]]]]

\* file_write() of bytes, a sequence, found through the pointer table.
FileWrite(v, f, off, bytes) ==
    LET w == IF off + Len(bytes) > v.dir[f].file_size THEN FileExtend(v, f, off + Len(bytes)) ELSE v
        At(c, b) == {i \in 1..Len(bytes) : /\ w.dir[f].pointer[(off + i - 1) \div BytesPerClus] = c
                                           /\ (off + i - 1) % BytesPerClus = b}
    IN [w EXCEPT !.data = [c \in Clusters |-> [b \in 0..BytesPerClus - 1 |->
            IF At(c, b) = {} THEN w.data[c][b] ELSE bytes[CHOOSE i \in At(c, b) : TRUE]]]]

\* The first part of file_shrink(): clear what is left of the last page.
Cleared_Never(v, f, size) == v
Cleared(v, f, size) ==
    IF v.dir[f].file_size % PAGE_SIZE # 0
    THEN FileWrite(v, f, size, [i \in 1..RoundUp(size, PAGE_SIZE) - size |-> 0]) ELSE v

\* file_shrink(): free the clusters after the new end.
FileShrink(v, f, size) ==
    LET old == v.dir[f].file_size
        w == Cleared(v, f, size)
        d == w.dir[f]
        k == ClustersOf(size)
        cut == IF k < ClustersOf(old) THEN Range(ChainFrom(w, d.pointer[k])) ELSE {}
    IN [fat |-> [c \in Clusters |-> IF c \in cut THEN 0
                                    ELSE IF cut # {} /\ k # 0 /\ c = d.pointer[k - 1] THEN EOF
                                    ELSE w.fat[c]],
        data |-> w.data,
        dir |-> [w.dir EXCEPT ![f] =
                    [d EXCEPT !.file_size = size,
                              !.first_clus = IF size = 0 THEN 0 ELSE @,
                              !.pointer = [i \in DOMAIN @ |->
                                  IF i >= k /\ i < ClustersOf(old) THEN 0 ELSE @[i]]]]]

\* dget() and dput() by p; the counts of directories are left out.
Dget(d, p) == [d EXCEPT !.refcnt = @ + 1, !.holders[p] = @ + 1]
Dput(d, p) == [d EXCEPT !.refcnt = @ - 1, !.holders[p] = IF @ = 0 THEN 0 ELSE @ - 1]

\* rm_unused_file().
RmUnused_KeepsClusters(v, f) == [v EXCEPT !.dir[f] = NULL]
RmUnused(v, f) == [FileShrink(v, f, 0) EXCEPT !.dir[f] = NULL]

\* dput() and the removal of a file that was unlinked meanwhile: file_close().
FileClose(v, f, p) ==
    LET w == [v EXCEPT !.dir[f] = Dput(@, p)]
    IN IF w.dir[f].is_rm /\ w.dir[f].refcnt = 0 THEN RmUnused(w, f) ELSE w

\* getFile(), with filepnt_init() of a file that is opened for the first time.
GetFile(v, f, p) ==
    LET d == Dget(v.dir[f], p)
    IN [v EXCEPT !.dir[f] = IF d.valid \/ d.first_clus = 0 THEN d
                            ELSE [d EXCEPT !.pointer = Table(ChainFrom(v, d.first_clus)), !.valid = TRUE]]

\* rmfile(), by p, who got the file: refused without giving it back, put off, or done.
RmFile_InUse(v, f, p) == RmUnused(FileClose(v, f, p), f)
RmFile(v, f, p) ==
    LET d == v.dir[f] IN
    IF d.refcnt > 1
    THEN IF \E q \in Procs \ {p} : d.holders[q] > 0 THEN v
         ELSE [v EXCEPT !.dir[f] = [Dput(d, p) EXCEPT !.is_rm = TRUE]]
    ELSE RmUnused(FileClose(v, f, p), f)

\* createItemAt(), by p.
Created(v, f, p) == [v EXCEPT !.dir[f] = Dget(NewDirent, p)]

\* What file_read() finds through the pointer table.
Content(v, f) ==
    [i \in 1..v.dir[f].file_size |->
        v.data[v.dir[f].pointer[(i - 1) \div BytesPerClus]][(i - 1) % BytesPerClus]]
-----------------------------------------------------------------------------
(* The system calls.  Descriptors are inherited by fork(): whoever closes  *)
(* a file need not be the process that opened it.                          *)

Call(name, f) == [name |-> name, file |-> f]
Exists(f) == vol.dir[f] # NULL

\* A bound: references that are never given back add up.
Files == {f \in Names : Exists(f)}
MayGet ==
    /\ MapThenSumSet(LAMBDA f : vol.dir[f].refcnt, Files) < MaxRefs
    /\ MapThenSumSet(LAMBDA x : vol.dir[x[1]].holders[x[2]], Files \X Procs) <= MaxRefs

Create(p, f) ==
    /\ ~Exists(f) /\ MayGet /\ vol' = Created(vol, f, p)
    /\ open' = [open EXCEPT ![f] = 1] /\ call' = Call("create", f)

Open(p, f) ==
    /\ Exists(f) /\ MayGet
    /\ vol' = GetFile(vol, f, p)
    /\ open' = [open EXCEPT ![f] = @ + 1] /\ call' = Call("open", f)

Close(p, f) ==
    /\ open[f] > 0
    /\ vol' = FileClose(vol, f, p)
    /\ open' = [open EXCEPT ![f] = @ - 1] /\ call' = Call("close", f)

Write(f, off, n, b) ==
    /\ open[f] > 0 /\ off + n <= MaxSize /\ CanExtend(vol, f, off + n)
    /\ vol' = FileWrite(vol, f, off, [i \in 1..n |-> b])
    /\ call' = [name |-> "write", file |-> f, off |-> off, n |-> n, byte |-> b] /\ UNCHANGED open

\* sys_ftruncate(), and O_TRUNC.
Truncate(f, size) ==
    /\ open[f] > 0
    /\ IF size <= vol.dir[f].file_size
       THEN /\ CutFull \/ vol.dir[f].file_size % PAGE_SIZE # 0 \/ size % PAGE_SIZE = 0
            /\ vol' = FileShrink(vol, f, size)
       ELSE CanExtend(vol, f, size) /\ vol' = FileExtend(vol, f, size)
    /\ call' = [name |-> "truncate", file |-> f, n |-> size] /\ UNCHANGED open

Unlink(p, f) ==
    /\ Exists(f) /\ MayGet
    /\ vol' = RmFile(GetFile(vol, f, p), f, p)
    /\ call' = Call("unlink", f) /\ UNCHANGED open

\* renameat2(): mvfile() copies the file and removes the old one.
Rename(p, f, g) ==
    /\ Exists(f) /\ ~Exists(g) /\ MayGet
    /\ LET v == GetFile(vol, f, p)
           w == Created(v, g, p)
       IN IF v.dir[f].refcnt > 1 THEN vol' = v
          ELSE /\ CanExtend(w, g, v.dir[f].file_size)
               /\ vol' = RmFile(IF v.dir[f].file_size = 0 THEN w ELSE FileWrite(w, g, 0, Content(v, f)), f, p)
    /\ call' = [name |-> "rename", file |-> f, to |-> g] /\ UNCHANGED open

Next ==
    \E f \in Names :
        \/ \E p \in Procs : \/ Create(p, f) \/ Open(p, f) \/ Close(p, f) \/ Unlink(p, f)
                             \/ \E g \in Names : Rename(p, f, g)
        \/ \E size \in 0..MaxSize : Truncate(f, size)
        \/ \E off \in 0..MaxSize, n \in 1..MaxSize, b \in Bytes : Write(f, off, n, b)

Spec == Init /\ [][Next]_vars
-----------------------------------------------------------------------------
\* The clusters of f, along its chain in the table.
Owned(f) == IF vol.dir[f].first_clus = 0 THEN <<>> ELSE ChainFrom(vol, vol.dir[f].first_clus)

\* Extending, truncating, removing and renaming files keep the table and the
\* pointers of cluster.c and filepnt.c consistent: the chain a file has in the
\* table is as long as its size says, and the one of its pointers once it is
\* opened; no cluster is in two files, and every allocated one is in a file.
ChainsExact ==
    /\ \A f \in Files :
          /\ Len(Owned(f)) = ClustersOf(vol.dir[f].file_size)
          /\ Owned(f) # <<>> => vol.fat[Last(Owned(f))] = EOF
          /\ open[f] > 0 \/ vol.dir[f].valid => vol.dir[f].pointer = Table(Owned(f))
    /\ \A f, g \in Files : f # g => Range(Owned(f)) \cap Range(Owned(g)) = {}
    /\ {c \in Clusters : vol.fat[c] # 0} = UNION {Range(Owned(f)) : f \in Files}

\* What lies after the end of a file in its last cluster is zero, as the comment
\* on file_shrink() asks and as file_write() needs for "[file->size, off)".
TailIsZero ==
    \A f \in Files : \A b \in 0..BytesPerClus - 1 :
        (vol.dir[f].file_size % BytesPerClus # 0 /\ b >= vol.dir[f].file_size % BytesPerClus)
            => vol.data[Last(Owned(f))][b] = 0

\* Clusters are invisible to programs: files are those of module Files, whatever
\* clusters they had before and whoever unlinks them while they are open.
Stored(f) ==
    LET c == Owned(f)
    IN [i \in 1..vol.dir[f].file_size |->
           vol.data[c[((i - 1) \div BytesPerClus) + 1]][(i - 1) % BytesPerClus]]
Abstract == INSTANCE Files WITH
    content <- [f \in Names |-> IF Exists(f) THEN Stored(f) ELSE NULL],
    doomed <- {f \in Files : vol.dir[f].is_rm}
ImplementsFiles == Abstract!Spec
=============================================================================
