-------------------------------- MODULE MiniFS ------------------------------
(* finding_filesystems: minixfs.c with the allocation of minixfs_provided.c  *)
(* and minixfs_utils.c, for files in the root directory.  A unit is a word;  *)
(* a data block has BS of them, and each is a word of a file or, in an       *)
(* indirect block, a block number.  The disk is one array of units, because  *)
(* memcpy does not stop where a block does.  An image holds empty files or   *)
(* none.  Modes, owners, times and the order of the entries are left out,    *)
(* and inode numbers are the names.                                          *)
EXTENDS Integers, SequencesExt

CONSTANTS FileNames, Values,
          DATA_NUMBER, BS, NUM_DIRECT_INODES,
          CHAR,        \* 128 in the build: the first number a char cannot hold
          MaxCount,    \* bounds the units of a write
          MaxCalls     \* bounds the calls

Blocks == 0 .. DATA_NUMBER - 1
NUM_INDIRECT_INODES == BS
UNASSIGNED_NODE == -1
Direct == 0 .. NUM_DIRECT_INODES - 1
root == "root"

VARIABLES fs,         \* names, inodes, data map, units; ok: the last call succeeded
          content,    \* history: what was written to each file
          strayed,    \* history: a call left the blocks that are its file's
          calls       \* made so far

fsVars == <<fs, content, strayed, calls>>

NewInode == [size |-> 0, direct |-> [i \in Direct |-> UNASSIGNED_NODE],
             indirect |-> UNASSIGNED_NODE]
\* minixfs_mkfs, and an image with the files in it, if any.
Init == \E names \in SUBSET FileNames, b \in Blocks :
  /\ fs = [names |-> names,
           inode |-> [f \in FileNames \cup {root} |->
                        IF f # root \/ names = {} THEN NewInode
                        ELSE [NewInode EXCEPT !.direct[0] = b]],
           used |-> IF names = {} THEN {} ELSE {b},
           unit |-> [a \in 0 .. DATA_NUMBER * BS - 1 |-> 0],
           ok |-> TRUE]
  /\ content = [f \in FileNames |-> <<>>]
  /\ strayed = FALSE /\ calls = 0

---------------------------------------------------------------------------
(* File systems s to file systems.  draw: the blocks in the order in which   *)
(* rand() lets first_unused_data take them.                                  *)

first_unused_data(s, draw) == LET free == SelectSeq(draw, LAMBDA b : b \notin s.used)
                              IN  IF free = <<>> THEN UNASSIGNED_NODE ELSE Head(free)
Failed(s) == [s EXCEPT !.ok = FALSE]

In(b) == b * BS .. b * BS + BS - 1
Zeroed(s, b) == [s EXCEPT !.unit = [a \in DOMAIN @ |-> IF a \in In(b) THEN 0 ELSE @[a]]]

\* The address of entry i of the indirect block, and what it holds.
Entry(s, f, i) == s.inode[f].indirect * BS + i - NUM_DIRECT_INODES
Pointer(s, f, i) == IF i < NUM_DIRECT_INODES THEN s.inode[f].direct[i] ELSE s.unit[Entry(s, f, i)]

\* Block i of f is b: add_data_block_to_inode, add_data_block_to_indirect_block.
Assigned(s, f, i, b) ==
  LET marked == [s EXCEPT !.used = @ \cup {b}]
  IN  IF i < NUM_DIRECT_INODES THEN [marked EXCEPT !.inode[f].direct[i] = b]
      ELSE [marked EXCEPT !.unit[Entry(s, f, i)] = b]

\* Unless f has a block i, or no block is left, one is added.
Added(s, f, i, draw) ==
  LET b == first_unused_data(s, draw)
  IN  IF ~s.ok \/ Pointer(s, f, i) # UNASSIGNED_NODE THEN s
      ELSE IF b = UNASSIGNED_NODE THEN Failed(s) ELSE Assigned(s, f, i, b)

\* It is cleared; a mutant is Added, a block as it was left.
Filled(s, f, i, draw) ==
  LET t == Added(s, f, i, draw)
  IN  IF t.used = s.used THEN t ELSE Zeroed(t, Pointer(t, f, i))

\* As many entries are set as an inode has direct ones; the others are as the
\* block was left.
add_single_indirect_block(s, f, draw) ==
  LET b == first_unused_data(s, draw)
      first == {b * BS + k : k \in Direct} \cap In(b)
  IN  IF ~s.ok \/ s.inode[f].indirect # UNASSIGNED_NODE THEN s
      ELSE IF b = UNASSIGNED_NODE THEN Failed(s)
      ELSE [s EXCEPT !.inode[f].indirect = b, !.used = @ \cup {b},
                     !.unit = [a \in DOMAIN @ |-> IF a \in first THEN UNASSIGNED_NODE ELSE @[a]]]

FilledUpTo(s, f, first, n, draw) ==
  FoldLeft(LAMBDA t, k : Filled(t, f, first + k - 1, draw), s, [k \in 1 .. n - first |-> k])

\* The entry, in a block that is added to the empty root; add_data_block_to_inode
\* returns 0, which is no error, when root has all the blocks it can have.
minixfs_create_inode_for_path(s, f, draw) ==
  LET gaps == {i \in Direct : s.inode[root].direct[i] = UNASSIGNED_NODE}
      t == IF gaps = {} THEN s
           ELSE Added(s, root, CHOOSE i \in gaps : \A j \in gaps : i <= j, draw)
  IN  IF ~t.ok THEN t
      ELSE Zeroed([t EXCEPT !.names = @ \cup {f}, !.inode[f] = NewInode],
                  t.inode[root].direct[0])

minixfs_min_blockcount(s, f, block_count, draw) ==
  LET there == IF f \in s.names THEN s ELSE minixfs_create_inode_for_path(s, f, draw)
  IN  IF block_count < NUM_DIRECT_INODES THEN FilledUpTo(there, f, 0, block_count, draw)
      ELSE LET full == add_single_indirect_block(
                         FilledUpTo(there, f, 0, NUM_DIRECT_INODES, draw), f, draw)
           IN  IF ~full.ok THEN full
               ELSE FilledUpTo(full, f, NUM_DIRECT_INODES, block_count, draw)

\* The indirect block gives up the entries an inode would have, no others.
free_inode(s, f) ==
  LET node == s.inode[f]
      entries == IF node.indirect = UNASSIGNED_NODE THEN {}
                 ELSE {s.unit[node.indirect * BS + k] : k \in Direct}
  IN  [s EXCEPT !.used = @ \ (Range(node.direct) \cup entries \cup {node.indirect})]

minixfs_unlink(s, f) == [free_inode(s, f) EXCEPT !.names = @ \ {f}, !.ok = TRUE]
---------------------------------------------------------------------------
(* Reading and writing units off .. off + count - 1 of f: k is a unit of     *)
(* the buffer.  (int)indirec.data[4 * i] is one byte of a block number.      *)

char(p) == ((p + CHAR) % (2 * CHAR)) - CHAR
BlockOf(s, f, i) == IF i < NUM_DIRECT_INODES THEN Pointer(s, f, i) ELSE char(Pointer(s, f, i))
AddressOf(s, f, pos) == BlockOf(s, f, pos \div BS) * BS + (pos % BS)

\* The loops go on to the next block while more than a block's worth is left,
\* not while the block at hand has room: the last piece begins here.
LastPiece(off, count) ==
  LET begins == {k \in 0 .. count : count - k <= BS /\ (k = 0 \/ (off + k) % BS = 0)}
  IN  CHOOSE k \in begins : \A l \in begins : k <= l

\* Where memcpy finds or leaves unit k.
Address(s, f, off, count, k) ==
  LET last == LastPiece(off, count)
  IN  IF k < last THEN AddressOf(s, f, off + k) ELSE AddressOf(s, f, off + last) + k - last

Runs(off, count) == LET last == LastPiece(off, count)
                    IN  ((off + last) % BS) + count - last > BS   \* past the end of its block
block_count(off, count) == (off + count + BS - 1) \div BS
\* A file this long has entries that were never set.
Long(off, count) == block_count(off, count) > 2 * NUM_DIRECT_INODES
Signed(s, f, off, count) == \E k \in 0 .. count - 1 :
  LET i == (off + k) \div BS IN BlockOf(s, f, i) # Pointer(s, f, i)

\* The buffer; its last piece is not counted in the result when it is direct.
minixfs_read(f, off, count) ==
  LET size == fs.inode[f].size
      readsize == IF off > size THEN 0 ELSE IF count <= size - off THEN count ELSE size - off
  IN  [k \in 1 .. readsize |-> fs.unit[Address(fs, f, off, readsize, k - 1)]]

minixfs_write(s, f, off, count, v, draw) ==
  LET n == block_count(off, count)
      t == minixfs_min_blockcount(s, f, n, draw)
      to == {Address(t, f, off, count, k) : k \in 0 .. count - 1}
      end == off + count
  IN  IF n > NUM_DIRECT_INODES + NUM_INDIRECT_INODES THEN Failed(s)
      ELSE IF ~t.ok THEN t
      ELSE [t EXCEPT !.unit = [a \in DOMAIN @ |-> IF a \in to THEN v ELSE @[a]],
                     !.inode[f].size = IF end >= @ THEN end ELSE @]

---------------------------------------------------------------------------
(* Calls, one after the other, until one of them strays.                     *)

Draws == LET free == Blocks \ fs.used
         IN  {d \in [1 .. Cardinality(free) -> free] : IsInjective(d)}
OK(s) == [s EXCEPT !.ok = TRUE]

\* minixfs_open with O_CREAT.  parent->size / 16 is no block of a root that has
\* an entry: what direct[] is read and cleared then lies behind the inode.
Create(f) == /\ ~strayed /\ f \notin fs.names
             /\ IF fs.names # {} THEN strayed' = TRUE /\ UNCHANGED fs
                ELSE /\ \E draw \in Draws :
                          fs' = minixfs_create_inode_for_path(OK(fs), f, draw)
                     /\ UNCHANGED strayed
             /\ UNCHANGED content

\* What the file holds after a write that succeeds; a gap holds zeroes.
Written(old, off, count, v) ==
  [p \in 1 .. IF off + count > Len(old) THEN off + count ELSE Len(old) |->
     IF p > off /\ p <= off + count THEN v ELSE IF p <= Len(old) THEN old[p] ELSE 0]

Write(f, off, count, v) ==
  /\ ~strayed
  /\ IF (f \notin fs.names /\ fs.names # {}) \/ Runs(off, count) \/ Long(off, count)
     THEN strayed' = TRUE /\ UNCHANGED <<fs, content>>
     ELSE \E draw \in Draws :
       LET t == minixfs_write(OK(fs), f, off, count, v, draw)
       IN  /\ fs' = t
           /\ strayed' = (t.ok /\ Signed(t, f, off, count))
           /\ content' = IF ~t.ok THEN content
                         ELSE [content EXCEPT ![f] = Written(@, off, count, v)]

Unlink(f) == /\ ~strayed /\ f \in fs.names
             /\ fs' = minixfs_unlink(fs, f)
             /\ content' = [content EXCEPT ![f] = <<>>]
             /\ UNCHANGED strayed

Next == /\ calls < MaxCalls /\ calls' = calls + 1
        /\ \E f \in FileNames :
          \/ Create(f) \/ Unlink(f)
          \/ \E off \in 0 .. BS * (NUM_DIRECT_INODES + NUM_INDIRECT_INODES),
                count \in 1 .. MaxCount, v \in Values : Write(f, off, count, v)

Spec == Init /\ [][Next]_fsVars

---------------------------------------------------------------------------
(* Properties.                                                             *)

\* The blocks f refers to, by the place that does.
Owned(f) ==
  LET node == fs.inode[f]
      entries == IF node.indirect = UNASSIGNED_NODE THEN {}
                 ELSE {k \in Direct : fs.unit[node.indirect * BS + k] # UNASSIGNED_NODE}
  IN  {<<node.direct[i], f, i>> : i \in {j \in Direct : node.direct[j] # UNASSIGNED_NODE}}
      \cup {<<fs.unit[node.indirect * BS + k], f, NUM_DIRECT_INODES + k>> : k \in entries}
      \cup (IF node.indirect = UNASSIGNED_NODE THEN {} ELSE {<<node.indirect, f, -1>>})
AllOwned == UNION {Owned(f) : f \in fs.names \cup {root}}

\* No block has two owners, and those in use are the ones that have one
\* (minixfs_provided.c:20-125, minixfs_utils.c:60-91).
OneOwner == /\ \A o, p \in AllOwned : o[1] = p[1] => o = p
            /\ fs.used = {o[1] : o \in AllOwned}

\* "The file will then contain" what was written (minixfs.h:251), whatever was
\* created, written and unlinked in between: every read within a block, or of
\* whole blocks to the end, finds it, until a call strays from the blocks of its
\* file (minixfs.c:180-205, 247, 265).
FilesKept == ~strayed =>
  /\ OneOwner
  /\ \A f \in fs.names :
       /\ fs.inode[f].size = Len(content[f])
       /\ \A off \in 0 .. Len(content[f]), count \in 1 .. MaxCount :
            off + count <= Len(content[f]) /\ ~Runs(off, count) =>
              minixfs_read(f, off, count) = SubSeq(content[f], off + 1, off + count)
=============================================================================
