-------------------------------- MODULE Disk --------------------------------
(***************************************************************************)
(* rcurl disk path (disk/handler.rs): list the entries of a directory with *)
(* their sizes.  The entries are read first; then the directories are      *)
(* walked in parallel, file by file, while other programs go on deleting   *)
(* files; then each group is sorted and laid out in columns.               *)
(*                                                                         *)
(* A name is the sequence of the widths of its characters: 1 for ASCII, 2  *)
(* for the others.  A unit is Kilo, which is 1024, times the one before.   *)
(***************************************************************************)
EXTENDS Integers, Sequences, SequencesExt, FiniteSetsExt, Lists, Task

CONSTANTS
    Trees,     \* what may be below the path: sequences of entries
    NameWidth, \* 48 columns
    Kilo       \* 1024

\* An entry: its name, and what is in it.  A directory holds files, which are
\* the positions of sizes; a plain file is one such position.  Links and other
\* kinds are skipped.  A path that names a plain file is a tree of that file.
Entry == [kind : {"dir", "file", "link"}, name : Seq({1, 2}), sizes : Seq(Nat)]

ASSUME DiskAssumption ==
    /\ NameWidth \in Nat /\ NameWidth >= 3
    /\ Kilo \in Nat /\ Kilo > 1
    /\ Trees \subseteq Seq(Entry) /\ Trees # {}
    /\ \A t \in Trees : \A e \in 1..Len(t) : t[e].kind = "file" => Len(t[e].sizes) = 1

VARIABLES
    tree,    \* the directory when the command begins
    gone,    \* files that have been deleted since, as <<entry, position>>
    dirs,    \* the directories, in the order in which they were read
    files,   \* the files, with their sizes, in that order
    walked,  \* walked[d]: files of directory d that the walk has passed
    sum,     \* sum[d]: bytes counted in directory d
    rows     \* what is printed: <<entry, bytes, name>>

diskVars == <<tree, gone, dirs, files, walked, sum, rows>>

DiskPlaces == {"enumerate", "walk", "sorted"}

DiskInit(trees) ==
    /\ tree \in trees
    /\ gone = {}
    /\ dirs = << >>
    /\ files = << >>
    /\ walked = [e \in 1..Len(tree) |-> 0]
    /\ sum = [e \in 1..Len(tree) |-> 0]
    /\ rows = << >>

-----------------------------------------------------------------------------
(* Columns and figures *)

Width(name) == Total(name)

\* The columns of the first n characters.
Columns(name, n) == Width(SubSeq(name, 1, n))

\* The first loop of truncate_for_display: characters are taken as long as the
\* next one fits.
Fitting(name) ==
    SubSeq(name, 1, Max({n \in 0..Len(name) : \A k \in 1..n : Columns(name, k) <= NameWidth}))

\* Faulty variant: one character is taken off for each column of the ellipsis.
ShortenedByCount(name) ==
    SubSeq(name, 1, IF Len(name) > 3 THEN Len(name) - 3 ELSE 0)

\* The second loop: characters are popped until "..." fits as well, or none is left.
Shortened(name) ==
    SubSeq(name, 1, Max({n \in 0..Len(name) : n = 0 \/ Columns(name, n) + 3 <= NameWidth}))

\* truncate_for_display: a name that fits stays whole.
Displayed(name) ==
    IF Fitting(name) = name THEN name ELSE Shortened(Fitting(name)) \o << 1, 1, 1 >>

\* The constants of format_bytes: B, KB, MB, GB and TB.
Units == << 1, Kilo, Kilo * Kilo, Kilo * Kilo * Kilo, Kilo * Kilo * Kilo * Kilo >>

\* format_bytes: the largest unit that bytes reaches.
Unit(bytes) == Units[Max({u \in 1..5 : u = 1 \/ bytes >= Units[u]})]

\* Faulty variant: the bytes are divided as integers.
HundredthsTruncated(bytes) == (bytes \div Unit(bytes)) * 100

\* The figure in hundredths of its unit: {:.2} rounds to the nearest, and a tie to even.
Hundredths(bytes) ==
    LET u == Unit(bytes)
        low == (bytes * 100) \div u
        rest == (bytes * 100) % u
    IN  IF 2 * rest > u \/ (2 * rest = u /\ low % 2 = 1) THEN low + 1 ELSE low

\* sort_by on falling sizes, which is stable: the rank of item k counts those
\* that go before it.
Ahead(s, k) ==
    {j \in 1..Len(s) : s[j].size > s[k].size \/ (s[j].size = s[k].size /\ j <= k)}

Falling(s) ==
    LET rank(k) == Cardinality(Ahead(s, k))
    IN  [r \in 1..Len(s) |-> s[CHOOSE k \in 1..Len(s) : rank(k) = r]]

-----------------------------------------------------------------------------

Kind(k) == Picked([e \in 1..Len(tree) |-> e], {e \in 1..Len(tree) : tree[e].kind = k})

SizeNow(e, k) == IF << e, k >> \in gone THEN 0 ELSE tree[e].sizes[k]

\* WalkDir of depth 1: directories by name, files with their sizes.  The path
\* itself and entries that cannot be read are left out.
Enumerate ==
    /\ pc = "enumerate"
    /\ dirs' = Kind("dir")
    /\ LET plain == Kind("file")
           seen == Picked(plain, {i \in 1..Len(plain) : << plain[i], 1 >> \notin gone})
       IN  files' = [k \in 1..Len(seen) |-> [entry |-> seen[k], size |-> SizeNow(seen[k], 1)]]
    /\ Goto("walk")
    /\ UNCHANGED <<tree, gone, walked, sum, rows>>

\* "path does not exist", or its metadata cannot be read.
DiskFails ==
    /\ pc = "enumerate"
    /\ EndWith("failed")
    /\ UNCHANGED diskVars

\* A thread of the pool looks at the next file of its directory; one that is
\* gone by now is passed over.  The directories take turns in any order.
WalkFile(d) ==
    /\ pc = "walk"
    /\ Contains(dirs, d)
    /\ walked[d] < Len(tree[d].sizes)
    /\ walked' = [walked EXCEPT ![d] = @ + 1]
    /\ sum' = [sum EXCEPT ![d] = @ + SizeNow(d, walked[d] + 1)]
    /\ UNCHANGED <<tree, gone, dirs, files, rows, pc, result>>

Row(item) == [entry |-> item.entry, size |-> item.size, name |-> Displayed(tree[item.entry].name)]

\* Faulty variant: one list is sorted, without regard to the kind.
LayOutTogether ==
    /\ pc = "walk"
    /\ \A d \in ToSet(dirs) : walked[d] = Len(tree[d].sizes)
    /\ LET sized == [k \in 1..Len(dirs) |-> [entry |-> dirs[k], size |-> sum[dirs[k]]]]
           all == Falling(files \o sized)
       IN  rows' = [k \in 1..Len(all) |-> Row(all[k])]
    /\ Goto("sorted")
    /\ UNCHANGED <<tree, gone, dirs, files, walked, sum>>

\* collect() has all sums, in the order of dirs: directories by falling size,
\* then files by falling size.
LayOut ==
    /\ pc = "walk"
    /\ \A d \in ToSet(dirs) : walked[d] = Len(tree[d].sizes)
    /\ LET sized == [k \in 1..Len(dirs) |-> [entry |-> dirs[k], size |-> sum[dirs[k]]]]
           all == Falling(sized) \o Falling(files)
       IN  rows' = [k \in 1..Len(all) |-> Row(all[k])]
    /\ Goto("sorted")
    /\ UNCHANGED <<tree, gone, dirs, files, walked, sum>>

PrintRows ==
    /\ pc = "sorted"
    /\ EndWith("ok")
    /\ UNCHANGED diskVars

\* Another program deletes a file.
FileDeleted(e, k) ==
    /\ pc \in {"enumerate", "walk"}
    /\ << e, k >> \notin gone
    /\ gone' = gone \cup {<< e, k >>}
    /\ UNCHANGED <<tree, dirs, files, walked, sum, rows, pc, result>>

DiskNext ==
    \/ Enumerate
    \/ DiskFails
    \/ \E d \in 1..Len(tree) : WalkFile(d)
    \/ LayOut
    \/ PrintRows
    \/ \E e \in 1..Len(tree) : \E k \in 1..Len(tree[e].sizes) : FileDeleted(e, k)

DiskSpec ==
    /\ pc = "enumerate" /\ result = "none" /\ DiskInit(Trees)
    /\ [][DiskNext]_<<diskVars, pc, result>>

-----------------------------------------------------------------------------
(* Properties *)

DiskTypeOK ==
    /\ tree \in Trees
    /\ dirs \in Seq(1..Len(tree))
    /\ files \in Seq([entry : 1..Len(tree), size : Nat])
    /\ walked \in [1..Len(tree) -> Nat]
    /\ sum \in [1..Len(tree) -> Nat]
    /\ rows \in Seq([entry : 1..Len(tree), size : Nat, name : Seq({1, 2})])

\* Bytes of entry e: all that were there at first, and those there to the end.
AtFirst(e) == Total(tree[e].sizes)
ToTheEnd(e) == Total([k \in 1..Len(tree[e].sizes) |-> SizeNow(e, k)])

\* However the walks of the directories interleave with each other and with
\* deletions, every directory is listed once, with a size that lies between
\* what it held at first and what is left of it in the end; and directories
\* come before files, each group by falling size.
RowsRight ==
    rows # << >> =>
      /\ \A d \in ToSet(dirs) : Cardinality({k \in 1..Len(rows) : rows[k].entry = d}) = 1
      /\ \A k \in 1..Len(rows) :
           /\ ToTheEnd(rows[k].entry) <= rows[k].size
           /\ rows[k].size <= AtFirst(rows[k].entry)
      /\ \A j, k \in 1..Len(rows) : j < k =>
           \/ tree[rows[j].entry].kind = "dir" /\ tree[rows[k].entry].kind = "file"
           \/ /\ tree[rows[j].entry].kind = tree[rows[k].entry].kind
              /\ rows[j].size >= rows[k].size

\* The name column keeps its width for every mixture of narrow and wide
\* characters, and no name is cut shorter than that takes: the reference is the
\* longest beginning that leaves room for the ellipsis.
NamesFill ==
    \A k \in 1..Len(rows) :
      LET name == tree[rows[k].entry].name
          room == Max({n \in 0..Len(name) : Columns(name, n) + 3 <= NameWidth})
      IN  rows[k].name = IF Width(name) <= NameWidth THEN name
                         ELSE SubSeq(name, 1, room) \o << 1, 1, 1 >>

\* The figure of a row reads back as its size, to half a hundredth of its unit,
\* also at the borders between the units; rounding never carries it past the
\* unit it is given in.
FiguresReadBack ==
    \A k \in 1..Len(rows) :
      LET u == Unit(rows[k].size)
          back == Hundredths(rows[k].size) * u
      IN  /\ back <= rows[k].size * 100 + u \div 2
          /\ rows[k].size * 100 <= back + u \div 2
          /\ rows[k].size < Units[5] => Hundredths(rows[k].size) <= Kilo * 100
=============================================================================
