------------------------------ MODULE FileData ------------------------------
(***************************************************************************)
(* The contents of files and directories: balloc(), bfree(), bmap(),       *)
(* itrunc(), readi() and writei() of fs.c, the loops of fileread() and     *)
(* filewrite() of file.c over them, and the directory entries of           *)
(* dirlookup(), dirlink() and sys_unlink().  A step is what runs under     *)
(* ip->lock; blocks are read and written through the buffer cache, whose   *)
(* own specification is Bio.                                               *)
(*                                                                         *)
(* The unit of data is a byte of a file, a block number of an indirect     *)
(* block, and a whole struct dirent of a directory, of which a block holds *)
(* a whole number.                                                         *)
(***************************************************************************)
EXTENDS Integers, Sequences, FiniteSets

CONSTANTS
  Files, Dir,           \* inodes: regular files, and a directory
  Blocks,               \* data blocks, numbered from 1
  BSIZE,                \* units of a block, and entries of an indirect block
  NDIRECT,
  MAXCHUNK,             \* what filewrite() writes in one transaction
  Writers, Texts,       \* processes, and what they write
  Counts,               \* arguments of read()
  Names,                \* names for directory entries: numbers from 3
  MaxCalls              \* bound: calls made

VARIABLES
  used,                 \* the free bit map
  data,                 \* the blocks on disk
  ip,                   \* in memory: addrs[] and size of each inode
  dinode,               \* on disk: the same
  off,                  \* f->off of the one open file of each inode
  pend,                 \* what each write() has still to write, and to where
  text,                 \* ghost: what each file should contain
  entries,              \* ghost: the names that the directory should contain
  panicked, ops

vars == <<used, data, ip, dinode, off, pend, text, entries, panicked, ops>>

Inodes  == Files \cup {Dir}
MAXFILE == NDIRECT + BSIZE
Zeroes  == [i \in 0..(BSIZE - 1) |-> 0]
Empty   == [addrs |-> [i \in 0..NDIRECT |-> 0], size |-> 0]
Nothing == [f |-> Dir, bytes |-> <<>>]
Dots    == <<1, 2>>              \* the names "." and ".."
NoEntry == 0                     \* a dirent with inum 0; any other is its name

-----------------------------------------------------------------------------
(* s is the file system while a call changes it: used, data, panicked, and *)
(* the inode ip of the call.                                               *)

\* balloc() of s.block: the first free block, zeroed.
balloc(s) ==
  IF Blocks \subseteq s.used
  THEN [s EXCEPT !.panicked = "balloc: out of blocks", !.block = 0]
  ELSE LET b == CHOOSE b \in Blocks \ s.used : \A c \in Blocks \ s.used : b <= c
       IN [s EXCEPT !.used = @ \cup {b}, !.data[b] = Zeroes, !.block = b]

\* bmap(): the block for the bn-th block of the file is there afterwards ...
bmap(s, bn) ==
  IF bn < NDIRECT
  THEN IF s.ip.addrs[bn] # 0 THEN s
       ELSE LET t == balloc(s) IN [t EXCEPT !.ip.addrs[bn] = t.block]
  ELSE LET i == balloc(s)
           t == IF s.ip.addrs[NDIRECT] # 0 THEN s
                ELSE [i EXCEPT !.ip.addrs[NDIRECT] = i.block]
           a == t.ip.addrs[NDIRECT]
           u == balloc(t)
       IN IF t.panicked # "no" \/ t.data[a][bn - NDIRECT] # 0 THEN t
          ELSE [u EXCEPT !.data[a][bn - NDIRECT] = u.block]

\* ... and this is its address.
Addr(s, bn) == IF bn < NDIRECT THEN s.ip.addrs[bn]
               ELSE s.data[s.ip.addrs[NDIRECT]][bn - NDIRECT]

Least(a, b) == IF a < b THEN a ELSE b

\* The loop of readi().
RECURSIVE ReadLoop(_, _, _)
ReadLoop(s, o, n) ==
  IF n = 0 THEN <<>>
  ELSE LET m == Least(n, BSIZE - (o % BSIZE))
           b == s.data[Addr(s, o \div BSIZE)]
       IN [i \in 1..m |-> b[(o % BSIZE) + i - 1]] \o ReadLoop(s, o + m, n - m)

\* readi(): fewer at the end of the file; past it, a failure.
readi(s, o, n) ==
  IF o > s.ip.size THEN <<"fails">>
  ELSE ReadLoop(s, o, Least(n, s.ip.size - o))

\* The loop of writei().
RECURSIVE WriteLoop(_, _, _)
WriteLoop(s, o, src) ==
  IF src = <<>> \/ s.panicked # "no" THEN s
  ELSE LET m == Least(Len(src), BSIZE - (o % BSIZE))
           t == bmap(s, o \div BSIZE)
           at == o % BSIZE
       IN IF t.panicked # "no" THEN t
          ELSE WriteLoop([t EXCEPT !.data[Addr(t, o \div BSIZE)] =
                            [i \in 0..(BSIZE - 1) |->
                               IF at <= i /\ i < at + m THEN src[i - at + 1] ELSE @[i]]],
                         o + m, SubSeq(src, m + 1, Len(src)))

WriteFits(s, o, src) == o <= s.ip.size /\ o + Len(src) <= MAXFILE * BSIZE

\* The size is set also when the file has not grown.
writei_Truncates(s, o, src) ==
  LET t == WriteLoop(s, o, src)
  IN [t EXCEPT !.ip.size = o + Len(src), !.dinode = [t.ip EXCEPT !.size = o + Len(src)]]
\* Without iupdate().
writei_NoUpdate(s, o, src) ==
  LET t == WriteLoop(s, o, src)
  IN IF o + Len(src) > t.ip.size THEN [t EXCEPT !.ip.size = o + Len(src)] ELSE t
\* writei(), when it fits; iupdate() writes the inode through if it has grown.
writei(s, o, src) ==
  LET t == WriteLoop(s, o, src)
  IN IF Len(src) > 0 /\ o + Len(src) > t.ip.size
     THEN [t EXCEPT !.ip.size = o + Len(src), !.dinode = [t.ip EXCEPT !.size = o + Len(src)]]
     ELSE t

\* itrunc(): every block of the inode, and the indirect block, is freed.
Owned(s) ==
  LET direct == {s.ip.addrs[i] : i \in 0..NDIRECT}
      ind == s.ip.addrs[NDIRECT]
  IN (direct \cup (IF ind = 0 THEN {} ELSE {s.data[ind][i] : i \in 0..(BSIZE - 1)})) \ {0}

\* Only the direct blocks and the indirect block itself.
itrunc_DirectOnly(s) ==
  [s EXCEPT !.used = @ \ {s.ip.addrs[i] : i \in 0..NDIRECT}, !.ip = Empty, !.dinode = Empty]
itrunc(s) == [s EXCEPT !.used = @ \ Owned(s), !.ip = Empty, !.dinode = Empty]

-----------------------------------------------------------------------------
Fs(f) == [used |-> used, data |-> data, ip |-> ip[f], dinode |-> dinode[f],
          panicked |-> panicked, block |-> 0]

\* What call f of Files leaves behind.
Commit(f, s) ==
  \E t \in {s} :
    /\ used' = t.used /\ data' = t.data /\ panicked' = t.panicked
    /\ ip' = [ip EXCEPT ![f] = t.ip] /\ dinode' = [dinode EXCEPT ![f] = t.dinode]

\* Empty files, and a directory with the two entries that create() makes.
Init ==
  LET s == writei([used |-> {}, data |-> [b \in Blocks |-> Zeroes], ip |-> Empty,
                   dinode |-> Empty, panicked |-> "no", block |-> 0], 0, Dots)
  IN /\ used = s.used /\ data = s.data
     /\ ip = [f \in Inodes |-> IF f = Dir THEN s.ip ELSE Empty]
     /\ dinode = ip
     /\ off = [f \in Files |-> 0] /\ pend = [p \in Writers |-> Nothing]
     /\ text = [f \in Files |-> <<>>] /\ entries = {}
     /\ panicked = "no" /\ ops = 0

Call == panicked = "no" /\ ops < MaxCalls /\ ops' = ops + 1

\* write() to the open file of f.
Write(p, f, bytes) ==
  /\ Call /\ pend[p] = Nothing
  /\ pend' = [pend EXCEPT ![p] = [f |-> f, bytes |-> bytes]]
  /\ UNCHANGED <<used, data, ip, dinode, off, text, entries, panicked>>

\* One turn of the loop of filewrite(), at the offset that f->off has by now.
WriteChunk(p) ==
  LET f == pend[p].f
      n == Least(Len(pend[p].bytes), MAXCHUNK)
      chunk == SubSeq(pend[p].bytes, 1, n)
  IN /\ panicked = "no" /\ pend[p] # Nothing
     /\ \/ /\ ~WriteFits(Fs(f), off[f], chunk)
           /\ pend' = [pend EXCEPT ![p] = Nothing]
           /\ UNCHANGED <<used, data, ip, dinode, off, text, panicked>>
        \/ /\ WriteFits(Fs(f), off[f], chunk)
           /\ Commit(f, writei(Fs(f), off[f], chunk))
           /\ off' = [off EXCEPT ![f] = @ + n]
           /\ text' = [text EXCEPT ![f] = SubSeq(@, 1, off[f]) \o chunk
                                          \o SubSeq(@, off[f] + n + 1, Len(@))]
           /\ pend' = [pend EXCEPT ![p] =
                         IF n = Len(@.bytes) THEN Nothing
                         ELSE [@ EXCEPT !.bytes = SubSeq(@, n + 1, Len(@))]]
     /\ UNCHANGED <<entries, ops>>

\* fileread().
Read(f, n) ==
  /\ Call /\ off' = [off EXCEPT ![f] = @ + Len(readi(Fs(f), @, n))]
  /\ UNCHANGED <<used, data, ip, dinode, pend, text, entries, panicked>>

\* open() again: the new struct file starts at the beginning.
Reopen(f) ==
  /\ Call /\ off[f] > 0 /\ \A p \in Writers : pend[p].f # f
  /\ off' = [off EXCEPT ![f] = 0]
  /\ UNCHANGED <<used, data, ip, dinode, pend, text, entries, panicked>>

\* The last link and the last reference are gone; the inode is used again.
Remove(f) ==
  /\ Call /\ \A p \in Writers : pend[p].f # f
  /\ Commit(f, itrunc(Fs(f)))
  /\ text' = [text EXCEPT ![f] = <<>>] /\ off' = [off EXCEPT ![f] = 0]
  /\ UNCHANGED <<pend, entries>>

-----------------------------------------------------------------------------
(* Directories *)

Entry(s, o) == readi(s, o, 1)[1]

\* The offset of the first entry that is one of es, or the end of the directory.
Scan(s, es) ==
  CHOOSE o \in 0..s.ip.size :
    /\ o = s.ip.size \/ Entry(s, o) \in es
    /\ \A i \in 0..(o - 1) : Entry(s, i) \notin es

\* Stops at a free entry.
dirlookup_StopsAtFree(s, name) ==
  LET o == Scan(s, {name, NoEntry})
  IN IF o < s.ip.size /\ Entry(s, o) = name THEN o ELSE s.ip.size
\* dirlookup(): the offset of the entry, or the end.
dirlookup(s, name) == Scan(s, {name})
isdirempty(s) == \A o \in 2..(s.ip.size - 1) : Entry(s, o) = NoEntry

\* dirlink(): in the first empty entry, or at the end.
dirlink(name) ==
  LET s == Fs(Dir)
      o == Scan(s, {NoEntry})
      de == <<name>>
  IN /\ Call
     /\ \/ /\ dirlookup(s, name) < s.ip.size
           /\ UNCHANGED <<used, data, ip, dinode, entries, panicked>>
        \/ /\ dirlookup(s, name) = s.ip.size /\ ~WriteFits(s, o, de)
           /\ panicked' = "dirlink"
           /\ UNCHANGED <<used, data, ip, dinode, entries>>
        \/ /\ dirlookup(s, name) = s.ip.size /\ WriteFits(s, o, de)
           /\ Commit(Dir, writei(s, o, de))
           /\ entries' = entries \cup {name}
     /\ UNCHANGED <<off, pend, text>>

\* sys_unlink(): the entry that dirlookup() found is overwritten with zeroes.
Unlink(name) ==
  LET s == Fs(Dir)
      o == dirlookup(s, name)
  IN /\ Call /\ o < s.ip.size
     /\ Commit(Dir, writei(s, o, <<NoEntry>>))
     /\ entries' = entries \ {name}
     /\ UNCHANGED <<off, pend, text>>

Next ==
  \/ \E p \in Writers, f \in Files, bytes \in Texts : Write(p, f, bytes)
  \/ \E p \in Writers : WriteChunk(p)
  \/ \E f \in Files : Reopen(f) \/ Remove(f) \/ \E n \in Counts : Read(f, n)
  \/ \E name \in Names : dirlink(name) \/ Unlink(name)

Spec == Init /\ [][Next]_vars

-----------------------------------------------------------------------------
(* Properties; after a panic the machine has stopped *)

\* read() returns what write() has put there, at every offset and for every
\* length, over direct and indirect blocks, and nothing past the end.
ReadsBack ==
  panicked = "no" =>
    \A f \in Files : /\ ip[f].size = Len(text[f])
                     /\ \A o \in 0..Len(text[f]), n \in 0..(MAXFILE * BSIZE) :
                          readi(Fs(f), o, n) = SubSeq(text[f], o + 1, Least(o + n, Len(text[f])))

\* The blocks marked in the bit map are those of the files, each in one place:
\* none is shared, lost, or freed twice, and a new indirect block names none.
BlocksExact ==
  panicked = "no" =>
    /\ used = UNION {Owned(Fs(f)) : f \in Inodes}
    /\ \A f, g \in Inodes : f # g => Owned(Fs(f)) \cap Owned(Fs(g)) = {}
    /\ \A f \in Inodes : Cardinality(Owned(Fs(f))) =
         LET n == (ip[f].size + BSIZE - 1) \div BSIZE
         IN IF n > NDIRECT THEN n + 1 ELSE n

\* The inode on disk is the one in memory whenever nobody holds ip->lock:
\* bmap() changes addrs[] without iupdate(), and writei() makes up for it.
InodeWrittenThrough == panicked = "no" => dinode = ip

\* The directory is a set of names, each in one entry, whatever entries have
\* been freed and used again; isdirempty() is right about it.
DirectoryIsSet ==
  panicked = "no" =>
    LET s == Fs(Dir)
        At(n) == {o \in 0..(s.ip.size - 1) : Entry(s, o) = n}
    IN /\ \A n \in Names : /\ Cardinality(At(n)) = IF n \in entries THEN 1 ELSE 0
                           /\ dirlookup(s, n) < s.ip.size <=> n \in entries
       /\ isdirempty(s) <=> entries = {}

\* Files and directories read back as they were written, from blocks of their
\* own, by way of inodes that iupdate() has written.
FilesSound == ReadsBack /\ DirectoryIsSet /\ BlocksExact /\ InodeWrittenThrough
=============================================================================
