---------------------------- MODULE HistoryProofs ----------------------------
(***************************************************************************)
(* However many invocations save at once, the history holds no command     *)
(* twice; and as long as no two saves overlap and no fault hits one, it    *)
(* loses none: for any processes, commands, lengths and faults.            *)
(*                                                                         *)
(* Retain and Size are recursive functions.  The first part establishes    *)
(* that they exist and what they return, by induction on a prefix of the   *)
(* list; the induction principle is a statement about sets, which is       *)
(* proved from the well-foundedness of < on the naturals.                  *)
(***************************************************************************)
EXTENDS History, ListProofs, TLAPS

-----------------------------------------------------------------------------
(* The list operations *)

\* A text has a length.
LEMMA SizeType == \A s \in Seq(Commands) : Size(s) \in Nat
<1> SUFFICES ASSUME NEW s \in Seq(Commands) PROVE Size(s) \in Nat
  OBVIOUS
<1> DEFINE lengths == [i \in 1..Len(s) |-> Bytes[s[i]]]
<1>1. \A i \in 1..Len(s) : Bytes[s[i]] \in Nat
  BY ConstantsAssumption
<1>2. lengths \in Seq(Nat)
  BY <1>1
<1> HIDE DEF lengths
<1>3. Total(lengths) \in Nat
  BY <1>2, TotalType
<1> QED
  BY <1>3 DEF Size, lengths

\* x comes somewhere before y.
Before(s, x, y) == \E i, j \in 1..Len(s) : i < j /\ s[i] = x /\ s[j] = y

\* Retain drops the command and nothing else, and keeps the order.
LEMMA RetainLists ==
    ASSUME NEW s \in Seq(Commands), NEW c \in Commands
    PROVE  /\ Retain(s, c) \in Seq(Commands)
           /\ Listed(Retain(s, c)) = Listed(s) \ {c}
           /\ Distinct(s) => Distinct(Retain(s, c))
           /\ \A x, y \in Listed(s) \ {c} : Before(Retain(s, c), x, y) <=> Before(s, x, y)
<1> DEFINE I == {i \in 1..Len(s) : s[i] # c}
           r == Picked(s, I)
<1>1. r \in Seq(Commands) /\ \E at : PickedAt(s, I, r, at)
  BY PickedInOrder
<1>2. PICK at : PickedAt(s, I, r, at)
  BY <1>1
<1>3. r = Retain(s, c)
  BY DEF Retain
<1> HIDE DEF r
<1>4. /\ \A k \in 1..Len(r) : at[k] \in 1..Len(s) /\ r[k] = s[at[k]] /\ s[at[k]] # c
      /\ \A j, k \in 1..Len(r) : j < k => at[j] < at[k]
      /\ \A i \in 1..Len(s) : s[i] # c => \E k \in 1..Len(r) : at[k] = i
  BY <1>2 DEF PickedAt, PickedAtUpTo
<1>5. Len(s) \in Nat /\ Len(r) \in Nat
  BY <1>1
<1>6. Listed(r) = Listed(s) \ {c}
  BY <1>4 DEF Listed
<1>7. ASSUME Distinct(s) PROVE Distinct(r)
  <2> SUFFICES ASSUME NEW i \in 1..Len(r), NEW j \in 1..Len(r), r[i] = r[j] PROVE i = j
    BY DEF Distinct
  <2>1. at[i] = at[j]
    BY <1>4, <1>7 DEF Distinct
  <2>2. ~(i < j) /\ ~(j < i)
    BY <1>4, <2>1
  <2> QED
    BY <1>5, <2>2
<1>8. ASSUME NEW x \in Listed(s) \ {c}, NEW y \in Listed(s) \ {c}
      PROVE  Before(r, x, y) <=> Before(s, x, y)
  <2>1. ASSUME Before(r, x, y) PROVE Before(s, x, y)
    BY <1>4, <2>1 DEF Before
  <2>2. ASSUME Before(s, x, y) PROVE Before(r, x, y)
    <3>1. PICK i \in 1..Len(s), j \in 1..Len(s) : i < j /\ s[i] = x /\ s[j] = y
      BY <2>2 DEF Before
    <3>2. PICK k \in 1..Len(r) : at[k] = i
      BY <1>4, <3>1
    <3>3. PICK l \in 1..Len(r) : at[l] = j
      BY <1>4, <3>1
    <3>4. ~(l < k) /\ l # k
      BY <1>4, <3>1, <3>2, <3>3
    <3>5. k < l
      BY <1>5, <3>4
    <3> QED
      BY <1>4, <3>1, <3>2, <3>3, <3>5 DEF Before
  <2> QED
    BY <2>1, <2>2
<1> QED
  BY <1>1, <1>3, <1>6, <1>7, <1>8

\* What save_request writes: the command first, the others kept in order.
LEMMA UpdatedLists ==
    ASSUME NEW s \in Seq(Commands), NEW c \in Commands
    PROVE  /\ Updated(s, c) \in Seq(Commands)
           /\ Listed(Updated(s, c)) = Listed(s) \cup {c}
           /\ Distinct(s) => Distinct(Updated(s, c))
           /\ Updated(s, c)[1] = c
           /\ \A x, y \in Listed(s) \ {c} : Before(Updated(s, c), x, y) <=> Before(s, x, y)
<1> DEFINE r == Retain(s, c)
           u == << c >> \o r
<1>1. /\ r \in Seq(Commands) /\ Listed(r) = Listed(s) \ {c} /\ (Distinct(s) => Distinct(r))
      /\ \A x, y \in Listed(s) \ {c} : Before(r, x, y) <=> Before(s, x, y)
  BY RetainLists
<1> HIDE DEF r
<1>2. /\ u \in Seq(Commands) /\ Len(r) \in Nat /\ Len(u) = Len(r) + 1
      /\ u[1] = c
      /\ \A i \in 1..Len(r) : u[i + 1] = r[i]
  BY <1>1
<1> HIDE DEF u
<1>3. \A i \in 1..Len(u) : i = 1 \/ (i - 1 \in 1..Len(r) /\ u[i] = r[i - 1])
  BY <1>2
<1>4. 1 \in 1..Len(u) /\ \A i \in 1..Len(r) : i + 1 \in 1..Len(u)
  BY <1>2
<1>5. Listed(u) = Listed(r) \cup {c}
  BY <1>2, <1>3, <1>4 DEF Listed
<1>6. ASSUME Distinct(s) PROVE Distinct(u)
  <2>1. c \notin Listed(r)
    BY <1>1
  <2> SUFFICES ASSUME NEW i \in 1..Len(u), NEW j \in 1..Len(u), u[i] = u[j] PROVE i = j
    BY DEF Distinct
  <2>2. CASE i = 1 \/ j = 1
    BY <1>2, <1>3, <2>1, <2>2 DEF Listed
  <2>3. CASE i # 1 /\ j # 1
    <3>1. i - 1 = j - 1
      BY <1>1, <1>3, <1>6, <2>3 DEF Distinct
    <3> QED
      BY <1>2, <3>1
  <2> QED
    BY <2>2, <2>3
<1>7. ASSUME NEW x \in Listed(s) \ {c}, NEW y \in Listed(s) \ {c}
      PROVE  Before(u, x, y) <=> Before(s, x, y)
  <2>1. ASSUME Before(r, x, y) PROVE Before(u, x, y)
    <3>1. PICK i \in 1..Len(r), j \in 1..Len(r) : i < j /\ r[i] = x /\ r[j] = y
      BY <2>1 DEF Before
    <3>2. i + 1 \in 1..Len(u) /\ j + 1 \in 1..Len(u) /\ i + 1 < j + 1
      BY <1>4, <3>1
    <3> QED
      BY <1>2, <3>1, <3>2 DEF Before
  <2>2. ASSUME Before(u, x, y) PROVE Before(r, x, y)
    <3>1. PICK i \in 1..Len(u), j \in 1..Len(u) : i < j /\ u[i] = x /\ u[j] = y
      BY <2>2 DEF Before
    <3>2. i # 1 /\ j # 1
      BY <1>2, <3>1
    <3>3. /\ i - 1 \in 1..Len(r) /\ j - 1 \in 1..Len(r) /\ i - 1 < j - 1
          /\ r[i - 1] = x /\ r[j - 1] = y
      BY <1>3, <3>1, <3>2
    <3> QED
      BY <3>3 DEF Before
  <2> QED
    BY <1>1, <2>1, <2>2
<1>8. u = Updated(s, c)
  BY DEF u, r, Updated
<1> QED
  BY <1>1, <1>2, <1>5, <1>6, <1>7, <1>8

-----------------------------------------------------------------------------
(* The invariant *)

\* Whoever is about to save knows what, and what it will write repeats nothing.
Prepared ==
    \A p \in Procs :
      /\ st[p] \in {"load", "open", "write"} => cmd[p] \in Commands
      /\ Distinct(buf[p])

\* Without disturbance a single process holds a copy of the list, the copy
\* has everything that was ever saved, and it goes into an empty file.
Undisturbed ==
    /\ \A p, q \in Procs : Saving(p) /\ Saving(q) => p = q
    /\ \A p \in Procs : Saving(p) => saved \cup {cmd[p]} \subseteq Listed(buf[p])
    /\ \A p \in Procs : st[p] = "write" => file.len = 0

Inv ==
    /\ TypeOK
    /\ NoDuplicates
    /\ Prepared
    /\ ~disturbed => Undisturbed
    /\ KeptUnlessDisturbed

\* Nothing is listed or saved at the start.
LEMMA InvInit == Init => Inv
<1> SUFFICES ASSUME Init PROVE Inv
  OBVIOUS
<1>1. TypeOK
  <2>1. << >> \in Seq(Commands) /\ 0 \in Nat
    OBVIOUS
  <2>2. file \in [list : Seq(Commands), len : Nat]
    BY <2>1 DEF Init
  <2>3. st \in [Procs -> Places]
    BY DEF Init, Places
  <2> QED
    BY <2>1, <2>2, <2>3 DEF Init, TypeOK
<1>2. Distinct(<< >>)
  BY DEF Distinct
<1>3. NoDuplicates /\ Prepared
  BY <1>2 DEF Init, NoDuplicates, Prepared
<1> QED
  BY <1>1, <1>3 DEF Init, Inv, Undisturbed, KeptUnlessDisturbed, Saving

\* A step that leaves the file, what was saved and the copies alone, and lets
\* one process move between places where it holds no copy.
LEMMA QuietStep ==
    ASSUME Inv, TypeOK', NEW p \in Procs,
           UNCHANGED <<buf, file, saved, disturbed>>,
           NEW x, x \notin {"open", "write"}, st' = [st EXCEPT ![p] = x],
           st[p] \notin {"open", "write"},
           \A q \in Procs : q # p => cmd'[q] = cmd[q],
           x = "load" => cmd'[p] \in Commands
    PROVE  Inv'
<1> USE DEF Inv, TypeOK
<1>1. \A q \in Procs : st'[q] = IF q = p THEN x ELSE st[q]
  OBVIOUS
<1>2. NoDuplicates'
  BY DEF NoDuplicates, Distinct
<1>3. Prepared'
  BY <1>1 DEF Prepared, Distinct
<1>4. ASSUME ~disturbed' PROVE Undisturbed'
  <2>1. \A q \in Procs : Saving(q)' => Saving(q) /\ q # p /\ st'[q] = st[q] /\ cmd'[q] = cmd[q]
    BY <1>1 DEF Saving
  <2>2. Undisturbed
    BY <1>4
  <2>3. \A q, r \in Procs : Saving(q)' /\ Saving(r)' => q = r
    BY <2>1, <2>2 DEF Undisturbed
  <2>4. \A q \in Procs : Saving(q)' => saved' \cup {cmd'[q]} \subseteq Listed(buf'[q])
    BY <2>1, <2>2 DEF Undisturbed, Listed
  <2>5. \A q \in Procs : st'[q] = "write" => file'.len = 0
    BY <2>1, <2>2 DEF Undisturbed, Saving
  <2> QED
    BY <2>3, <2>4, <2>5 DEF Undisturbed, Saving, Listed
<1>5. KeptUnlessDisturbed'
  BY <1>1 DEF KeptUnlessDisturbed, Listed
<1> QED
  BY <1>2, <1>3, <1>4, <1>5

\* The list is read, and the process holds a copy with its command in front.
LEMMA LoadStep ==
    ASSUME Inv, NEW p \in Procs, Load(p)
    PROVE  Inv'
<1> USE DEF Inv, TypeOK
<1>1. PICK seen \in {file.list} \cup {<< >>} :
           /\ buf' = [buf EXCEPT ![p] = Updated(seen, cmd[p])]
           /\ disturbed' = (\/ disturbed
                            \/ seen # file.list
                            \/ \E q \in Procs : Saving(q))
  BY DEF Load
<1>2. /\ st[p] = "load" /\ st' = [st EXCEPT ![p] = "open"]
      /\ UNCHANGED <<cmd, menu, file, saved>>
  BY DEF Load
<1>3. cmd[p] \in Commands /\ seen \in Seq(Commands) /\ Distinct(seen)
  <2>1. cmd[p] \in Commands
    BY <1>2 DEF Prepared
  <2>2. file.list \in Seq(Commands) /\ << >> \in Seq(Commands)
    OBVIOUS
  <2>3. Distinct(file.list) /\ Distinct(<< >>)
    BY DEF NoDuplicates, Distinct
  <2> QED
    BY <1>1, <2>1, <2>2, <2>3
<1>4. /\ Updated(seen, cmd[p]) \in Seq(Commands)
      /\ Listed(Updated(seen, cmd[p])) = Listed(seen) \cup {cmd[p]}
      /\ Distinct(Updated(seen, cmd[p]))
  BY <1>3, UpdatedLists
<1>5. \A q \in Procs : /\ st'[q] = IF q = p THEN "open" ELSE st[q]
                       /\ buf'[q] = IF q = p THEN Updated(seen, cmd[p]) ELSE buf[q]
  BY <1>1, <1>2
<1>6. TypeOK'
  <2>1. disturbed' \in BOOLEAN
    BY <1>1
  <2>2. buf' \in [Procs -> Seq(Commands)]
    BY <1>1, <1>4
  <2>3. st' \in [Procs -> Places]
    BY <1>2 DEF Places
  <2> QED
    BY <1>2, <2>1, <2>2, <2>3
<1>7. NoDuplicates'
  BY <1>2 DEF NoDuplicates, Distinct
<1>8. Prepared'
  <2> SUFFICES ASSUME NEW q \in Procs
               PROVE  /\ st'[q] \in {"load", "open", "write"} => cmd'[q] \in Commands
                      /\ Distinct(buf'[q])
    BY DEF Prepared, Distinct
  <2>1. CASE q = p
    BY <1>2, <1>3, <1>4, <1>5, <2>1
  <2>2. CASE q # p
    BY <1>2, <1>5, <2>2 DEF Prepared
  <2> QED
    BY <2>1, <2>2
<1>9. ASSUME ~disturbed' PROVE Undisturbed'
  <2>1. ~disturbed /\ seen = file.list /\ \A q \in Procs : ~Saving(q)
    BY <1>1, <1>9
  <2>2. saved \subseteq Listed(seen)
    BY <2>1 DEF KeptUnlessDisturbed, Saving
  <2>3. \A q \in Procs : st'[q] \in {"open", "write"} => q = p
    BY <1>5, <2>1 DEF Saving
  <2>4. saved \cup {cmd[p]} \subseteq Listed(buf'[p])
    BY <1>4, <1>5, <2>2
  <2>5. st'[p] # "write"
    BY <1>5
  <2>6. \A q \in Procs : Saving(q)' => q = p
    BY <2>3 DEF Saving
  <2>7. \A q \in Procs : Saving(q)' => saved' \cup {cmd'[q]} \subseteq Listed(buf'[q])
    BY <1>2, <2>4, <2>6
  <2>8. \A q \in Procs : st'[q] # "write"
    BY <2>5, <2>6 DEF Saving
  <2> QED
    BY <2>6, <2>7, <2>8 DEF Undisturbed, Saving, Listed
<1>10. KeptUnlessDisturbed'
  <2>1. ~disturbed' => ~disturbed /\ \A q \in Procs : ~Saving(q)
    BY <1>1
  <2> QED
    BY <1>2, <2>1 DEF KeptUnlessDisturbed, Saving, Listed
<1> QED
  BY <1>6, <1>7, <1>8, <1>9, <1>10

\* The file is emptied under the writer's feet, which is the only writer
\* unless saves overlapped.
LEMMA TruncateStep ==
    ASSUME Inv, NEW p \in Procs, Truncate(p)
    PROVE  Inv'
<1> USE DEF Inv, TypeOK
<1>1. /\ st[p] = "open" /\ st' = [st EXCEPT ![p] = "write"]
      /\ file' = [list |-> << >>, len |-> 0]
      /\ UNCHANGED <<cmd, menu, buf, saved, disturbed>>
  BY DEF Truncate
<1>2. \A q \in Procs : st'[q] = IF q = p THEN "write" ELSE st[q]
  BY <1>1
<1>3. TypeOK'
  <2>1. file' \in [list : Seq(Commands), len : Nat]
    BY <1>1
  <2>2. st' \in [Procs -> Places]
    BY <1>1 DEF Places
  <2> QED
    BY <1>1, <2>1, <2>2
<1>4. NoDuplicates'
  BY <1>1 DEF NoDuplicates, Distinct
<1>5. Prepared'
  BY <1>1, <1>2 DEF Prepared, Distinct
<1>6. ASSUME ~disturbed' PROVE Undisturbed'
  <2>1. Undisturbed /\ \A q \in Procs : Saving(q)' <=> Saving(q)
    BY <1>1, <1>2, <1>6 DEF Saving
  <2>2. file'.len = 0
    BY <1>1
  <2>3. \A q, r \in Procs : Saving(q)' /\ Saving(r)' => q = r
    BY <2>1 DEF Undisturbed
  <2>4. \A q \in Procs : Saving(q)' => saved' \cup {cmd'[q]} \subseteq Listed(buf'[q])
    BY <1>1, <2>1 DEF Undisturbed
  <2> QED
    BY <2>2, <2>3, <2>4 DEF Undisturbed, Saving, Listed
<1>7. KeptUnlessDisturbed'
  BY <1>2 DEF KeptUnlessDisturbed
<1> QED
  BY <1>3, <1>4, <1>5, <1>6, <1>7

\* The copy becomes the file.
LEMMA WriteStep ==
    ASSUME Inv, NEW p \in Procs, Write(p)
    PROVE  Inv'
<1> USE DEF Inv, TypeOK
<1>1. /\ st[p] = "write" /\ st' = [st EXCEPT ![p] = "execute"]
      /\ file' = Overwrite(file, buf[p])
      /\ saved' = saved \cup {cmd[p]}
      /\ cmd' = [cmd EXCEPT ![p] = NoCommand]
      /\ buf' = [buf EXCEPT ![p] = << >>]
      /\ UNCHANGED <<menu, disturbed>>
  BY DEF Write
<1>2. \A q \in Procs : /\ st'[q] = IF q = p THEN "execute" ELSE st[q]
                       /\ cmd'[q] = IF q = p THEN NoCommand ELSE cmd[q]
                       /\ buf'[q] = IF q = p THEN << >> ELSE buf[q]
  BY <1>1
<1>3. Size(buf[p]) \in Nat /\ cmd[p] \in Commands /\ Distinct(buf[p]) /\ Distinct(<< >>)
  BY <1>1, SizeType DEF Prepared, Distinct
<1>4. file' \in [list : Seq(Commands), len : Nat] /\ Distinct(file'.list)
  BY <1>1, <1>3 DEF Overwrite
<1>5. TypeOK'
  <2>1. st' \in [Procs -> Places]
    BY <1>1 DEF Places
  <2>2. buf' \in [Procs -> Seq(Commands)]
    <3>1. << >> \in Seq(Commands)
      OBVIOUS
    <3> QED
      BY <1>1, <3>1
  <2> QED
    BY <1>1, <1>3, <1>4, <2>1, <2>2
<1>6. NoDuplicates'
  BY <1>4 DEF NoDuplicates, Distinct
<1>7. Prepared'
  BY <1>2, <1>3 DEF Prepared, Distinct
<1>8. ASSUME ~disturbed' PROVE Undisturbed' /\ KeptUnlessDisturbed'
  <2>1. Undisturbed /\ Saving(p)
    BY <1>1, <1>8 DEF Saving
  <2>2. \A q \in Procs : st'[q] \notin {"open", "write"}
    BY <1>2, <2>1 DEF Undisturbed, Saving
  <2>3. file.len = 0 /\ 0 <= Size(buf[p])
    BY <1>1, <1>3, <2>1 DEF Undisturbed
  <2>4. file'.list = buf[p]
    BY <1>1, <2>3 DEF Overwrite
  <2>5. saved' \subseteq Listed(buf[p])
    BY <1>1, <2>1 DEF Undisturbed
  <2>6. saved' \subseteq Listed(file'.list)
    BY <2>4, <2>5
  <2> QED
    BY <2>2, <2>6 DEF Undisturbed, Saving, KeptUnlessDisturbed, Listed
<1>9. disturbed' => KeptUnlessDisturbed'
  BY DEF KeptUnlessDisturbed
<1> QED
  BY <1>5, <1>6, <1>7, <1>8, <1>9

\* A process gives up its copy without touching the file; if the file was
\* already truncated that is a disturbance.
LEMMA DropStep ==
    ASSUME Inv, NEW p \in Procs, NEW x \in {"idle", "execute"},
           st' = [st EXCEPT ![p] = x],
           cmd' = [cmd EXCEPT ![p] = NoCommand],
           buf' = [buf EXCEPT ![p] = << >>],
           menu' \in [Procs -> Seq(Commands)],
           UNCHANGED <<file, saved>>,
           disturbed' \in BOOLEAN,
           disturbed \/ st[p] = "write" => disturbed'
    PROVE  Inv'
<1> USE DEF Inv, TypeOK
<1>1. \A q \in Procs : /\ st'[q] = IF q = p THEN x ELSE st[q]
                       /\ cmd'[q] = IF q = p THEN NoCommand ELSE cmd[q]
                       /\ buf'[q] = IF q = p THEN << >> ELSE buf[q]
  OBVIOUS
<1>2. Distinct(<< >>) /\ << >> \in Seq(Commands)
  BY DEF Distinct
<1>3. TypeOK'
  <2>1. st' \in [Procs -> Places]
    BY DEF Places
  <2>2. buf' \in [Procs -> Seq(Commands)]
    BY <1>2
  <2> QED
    BY <2>1, <2>2
<1>4. NoDuplicates'
  BY DEF NoDuplicates, Distinct
<1>5. Prepared'
  BY <1>1, <1>2 DEF Prepared, Distinct
<1>6. ASSUME ~disturbed' PROVE Undisturbed'
  <2>1. Undisturbed
    BY <1>6
  <2>2. \A q \in Procs : st'[q] \in {"open", "write"} => q # p /\ st'[q] = st[q]
    BY <1>1
  <2> QED
    BY <1>1, <2>1, <2>2 DEF Undisturbed, Saving, Listed
<1>7. KeptUnlessDisturbed'
  BY <1>1 DEF KeptUnlessDisturbed, Listed
<1> QED
  BY <1>3, <1>4, <1>5, <1>6, <1>7

-----------------------------------------------------------------------------

\* Every step keeps the invariant.
LEMMA InvStep ==
    ASSUME Inv, [Next]_vars
    PROVE  Inv'
<1> USE DEF Inv
<1>1. CASE UNCHANGED vars
  <2>1. TypeOK' /\ NoDuplicates' /\ Prepared'
    BY <1>1 DEF vars, TypeOK, NoDuplicates, Distinct, Prepared
  <2>2. (~disturbed => Undisturbed)'
    <3>1. \A q \in Procs : /\ Saving(q)' = Saving(q)
                          /\ Listed(buf[q])' = Listed(buf[q])
                          /\ cmd'[q] = cmd[q] /\ st'[q] = st[q]
      BY <1>1 DEF vars, Saving, Listed
    <3>2. file' = file /\ saved' = saved /\ disturbed' = disturbed
      BY <1>1 DEF vars
    <3> QED
      BY <3>1, <3>2 DEF Undisturbed
  <2>3. KeptUnlessDisturbed'
    BY <1>1 DEF vars, KeptUnlessDisturbed, Listed
  <2> QED
    BY <2>1, <2>2, <2>3
<1>2. ASSUME NEW p \in Procs, NEW c \in Commands, Request(p, c) PROVE Inv'
  <2>1. TypeOK'
    BY <1>2 DEF Request, TypeOK, Places
  <2>2. st[p] = "idle" /\ st' = [st EXCEPT ![p] = "load"] /\ cmd' = [cmd EXCEPT ![p] = c]
    BY <1>2 DEF Request, MayStart
  <2>3. UNCHANGED <<buf, file, saved, disturbed>>
    BY <1>2 DEF Request
  <2>4. cmd'[p] \in Commands /\ \A q \in Procs : q # p => cmd'[q] = cmd[q]
    BY <2>2 DEF TypeOK
  <2> QED
    BY <2>1, <2>2, <2>3, <2>4, QuietStep
<1>3. ASSUME NEW p \in Procs, NEW c \in Commands, Select(p, c) PROVE Inv'
  <2>1. Replay[c] \in Commands
    BY <1>3, ConstantsAssumption DEF Select
  <2>2. << >> \in Seq(Commands)
    OBVIOUS
  <2>3. TypeOK'
    BY <1>3, <2>1, <2>2 DEF Select, TypeOK, Places
  <2>4. st[p] = "menu" /\ st' = [st EXCEPT ![p] = "load"] /\ cmd' = [cmd EXCEPT ![p] = Replay[c]]
    BY <1>3 DEF Select
  <2>5. UNCHANGED <<buf, file, saved, disturbed>>
    BY <1>3 DEF Select
  <2>6. cmd'[p] \in Commands /\ \A q \in Procs : q # p => cmd'[q] = cmd[q]
    BY <2>1, <2>4 DEF TypeOK
  <2> QED
    BY <2>3, <2>4, <2>5, <2>6, QuietStep
<1>4. ASSUME NEW p \in Procs, OpenMenu(p) PROVE Inv'
  <2>1. TypeOK'
    BY <1>4 DEF OpenMenu, TypeOK, Places
  <2>2. st[p] = "idle" /\ st' = [st EXCEPT ![p] = "menu"]
    BY <1>4 DEF OpenMenu, MayStart
  <2>3. UNCHANGED <<cmd, buf, file, saved, disturbed>>
    BY <1>4 DEF OpenMenu
  <2> QED
    BY <2>1, <2>2, <2>3, QuietStep
<1>5. ASSUME NEW p \in Procs, LeaveMenu(p) PROVE Inv'
  <2>1. << >> \in Seq(Commands)
    OBVIOUS
  <2>2. TypeOK'
    BY <1>5, <2>1 DEF LeaveMenu, TypeOK, Places
  <2>3. st[p] = "menu" /\ st' = [st EXCEPT ![p] = "idle"]
    BY <1>5 DEF LeaveMenu
  <2>4. UNCHANGED <<cmd, buf, file, saved, disturbed>>
    BY <1>5 DEF LeaveMenu
  <2> QED
    BY <2>2, <2>3, <2>4, QuietStep
<1>6. ASSUME NEW p \in Procs, Load(p) PROVE Inv'
  BY <1>6, LoadStep
<1>7. ASSUME NEW p \in Procs, Truncate(p) PROVE Inv'
  BY <1>7, TruncateStep
<1>8. ASSUME NEW p \in Procs, Write(p) PROVE Inv'
  BY <1>8, WriteStep
<1>9. ASSUME NEW p \in Procs, SaveFails(p) PROVE Inv'
  BY <1>9, DropStep DEF SaveFails, TypeOK
<1>10. ASSUME NEW p \in Procs, WriteFails(p) PROVE Inv'
  BY <1>10, DropStep DEF WriteFails, TypeOK
<1>11. ASSUME NEW p \in Procs, Execute(p) PROVE Inv'
  <2>1. TypeOK'
    BY <1>11 DEF Execute, TypeOK, Places
  <2>2. st[p] = "execute" /\ st' = [st EXCEPT ![p] = "idle"]
    BY <1>11 DEF Execute
  <2>3. UNCHANGED <<cmd, buf, file, saved, disturbed>>
    BY <1>11 DEF Execute
  <2> QED
    BY <2>1, <2>2, <2>3, QuietStep
<1>12. ASSUME NEW p \in Procs, Crash(p) PROVE Inv'
  <2>1. menu' \in [Procs -> Seq(Commands)] /\ disturbed' \in BOOLEAN
    <3>1. << >> \in Seq(Commands)
      OBVIOUS
    <3> QED
      BY <1>12, <3>1 DEF Crash, TypeOK
  <2> QED
    BY <1>12, <2>1, DropStep DEF Crash
<1> QED
  BY <1>1, <1>2, <1>3, <1>4, <1>5, <1>6, <1>7, <1>8, <1>9, <1>10, <1>11, <1>12
  DEF Next, Advance

\* The state keeps its types.
THEOREM TypeCorrect == Spec => []TypeOK
<1>1. Inv => TypeOK
  BY DEF Inv
<1> QED
  BY <1>1, InvInit, InvStep, PTL DEF Spec

\* No command is ever listed twice, under any interleaving and any faults.
THEOREM NeverTwice == Spec => []NoDuplicates
<1>1. Inv => NoDuplicates
  BY DEF Inv
<1> QED
  BY <1>1, InvInit, InvStep, PTL DEF Spec

\* A saved command is lost only where saves overlapped or a fault hit one.
THEOREM LostOnlyByDisturbance == Spec => []KeptUnlessDisturbed
<1>1. Inv => KeptUnlessDisturbed
  BY DEF Inv
<1> QED
  BY <1>1, InvInit, InvStep, PTL DEF Spec

-----------------------------------------------------------------------------
(* One invocation at a time *)

\* At most one invocation is under way; the copy it is about to write is the
\* file's list with its command in front, and goes into an empty file.
OneAtATime ==
    /\ \A p, q \in Procs : st[p] # "idle" /\ st[q] # "idle" => p = q
    /\ \A p \in Procs : st[p] = "open" => buf[p] = Updated(file.list, cmd[p])
    /\ \A p \in Procs : st[p] = "write" => file.len = 0

\* Until the old list is truncated, it is what the user would see.
LEMMA VisibleUnlessWriting ==
    ASSUME \A p \in Procs : st[p] # "write"
    PROVE  Visible = file.list
BY DEF Visible

LEMMA VisibleUnlessWritingLater ==
    ((\A p \in Procs : st[p] # "write") => Visible = file.list)'
BY VisibleUnlessWriting, PTL

LEMMA VisibleWhileWriting ==
    ASSUME NEW p \in Procs, st[p] = "write", \A q \in Procs : st[q] # "idle" => q = p
    PROVE  Visible = buf[p]
<1>1. \A q \in Procs : st[q] = "write" => q = p
  OBVIOUS
<1>2. (CHOOSE q \in Procs : st[q] = "write") = p
  BY <1>1
<1> QED
  BY <1>2 DEF Visible

LEMMA VisibleWhileWritingLater ==
    (\A p \in Procs : st[p] = "write" /\ (\A q \in Procs : st[q] # "idle" => q = p) => Visible = buf[p])'
<1>1. \A p \in Procs : st[p] = "write" /\ (\A q \in Procs : st[q] # "idle" => q = p) => Visible = buf[p]
  BY VisibleWhileWriting
<1> QED
  BY <1>1, PTL

\* The list that save_request writes is one use of the command.
LEMMA UpdatedTouches ==
    ASSUME NEW s \in Seq(Commands), NEW c \in Commands, Distinct(s),
           Visible = s, Visible' = Updated(s, c)
    PROVE  Recent!Touch(c)
<1> DEFINE u == Updated(s, c)
<1>1. /\ u \in Seq(Commands) /\ Listed(u) = Listed(s) \cup {c} /\ Distinct(u) /\ u[1] = c
      /\ \A x, y \in Listed(s) \ {c} : Before(u, x, y) <=> Before(s, x, y)
  BY UpdatedLists
<1> HIDE DEF u
<1>2. DOMAIN s = 1..Len(s) /\ DOMAIN u = 1..Len(u)
  BY <1>1
<1>3. Recent!ToSet(u) = Listed(u) /\ Recent!ToSet(s) = Listed(s)
  BY <1>2 DEF Recent!ToSet, Listed
<1>4. Recent!IsInjective(u)
  BY <1>1, <1>2 DEF Recent!IsInjective, Distinct
<1>5. \A x, y : (Recent!Before(u, x, y) <=> Before(u, x, y)) /\ (Recent!Before(s, x, y) <=> Before(s, x, y))
  BY DEF Recent!Before, Before
<1>6. Visible = s /\ Visible' = u
  BY DEF u
<1> QED
  BY <1>1, <1>3, <1>4, <1>5, <1>6 DEF Recent!Touch

\* A process that moves outside of save_request's two halves of fs::write, alone
\* or as the first one, disturbs nothing.
LEMMA MoveKeepsOneAtATime ==
    ASSUME TypeOK, OneAtATime, NEW p \in Procs, NEW x, x \notin {"open", "write"},
           \A q \in Procs : st[q] # "idle" => q = p,
           st[p] # "write", st' = [st EXCEPT ![p] = x], file' = file
    PROVE  OneAtATime' /\ Visible' = Visible
<1>1. \A q \in Procs : st'[q] = IF q = p THEN x ELSE st[q]
  BY DEF TypeOK
<1>2. \A q \in Procs : q # p => st[q] = "idle" /\ st'[q] = "idle"
  BY <1>1
<1>3. \A q \in Procs : st'[q] \notin {"open", "write"}
  BY <1>1, <1>2
<1>4. OneAtATime'
  BY <1>2, <1>3 DEF OneAtATime
<1>5. \A q \in Procs : st[q] # "write"
  BY <1>2
<1> QED
  BY <1>3, <1>4, <1>5, VisibleUnlessWriting, VisibleUnlessWritingLater

\* Every step of an invocation on its own leaves what the user sees alone,
\* except for the truncation, which is the one use of its command.
LEMMA SerialStep ==
    ASSUME Serial, Faults \subseteq {"open"}, Inv, OneAtATime, [Next]_vars
    PROVE  OneAtATime' /\ [Recent!Next]_Visible
<1> USE DEF Inv
<1>1. ASSUME NEW p \in Procs, st[p] # "idle"
      PROVE  \A q \in Procs : st[q] # "idle" => q = p
  BY <1>1 DEF OneAtATime
<1>2. ASSUME NEW p \in Procs, MayStart(p)
      PROVE  st[p] # "write" /\ \A q \in Procs : st[q] # "idle" => q = p
  BY <1>2 DEF MayStart
<1>3. CASE UNCHANGED vars
  <2>1. UNCHANGED <<st, file, buf, cmd>>
    BY <1>3 DEF vars
  <2> QED
    BY <2>1 DEF OneAtATime, Updated, Retain, Visible
<1>4. ASSUME NEW p \in Procs, NEW c \in Commands, Request(p, c) \/ Select(p, c)
      PROVE  OneAtATime' /\ Visible' = Visible
  <2>1. st' = [st EXCEPT ![p] = "load"] /\ file' = file /\ st[p] # "write"
    BY <1>4 DEF Request, Select, MayStart
  <2>2. \A q \in Procs : st[q] # "idle" => q = p
    BY <1>1, <1>2, <1>4 DEF Request, Select
  <2> QED
    BY <2>1, <2>2, MoveKeepsOneAtATime
<1>5. ASSUME NEW p \in Procs, OpenMenu(p) \/ LeaveMenu(p) \/ SaveFails(p) \/ Execute(p)
      PROVE  OneAtATime' /\ Visible' = Visible
  <2>1. PICK x \in {"menu", "idle", "execute"} : st' = [st EXCEPT ![p] = x] /\ file' = file
    BY <1>5 DEF OpenMenu, LeaveMenu, SaveFails, Execute
  <2>2. st[p] # "write"
    BY <1>5 DEF OpenMenu, LeaveMenu, SaveFails, Execute, MayStart
  <2>3. \A q \in Procs : st[q] # "idle" => q = p
    BY <1>1, <1>2, <1>5 DEF OpenMenu, LeaveMenu, SaveFails, Execute
  <2> QED
    BY <2>1, <2>2, <2>3, MoveKeepsOneAtATime
<1>6. ASSUME NEW p \in Procs, Load(p)
      PROVE  OneAtATime' /\ Visible' = Visible
  <2>1. st[p] = "load" /\ st' = [st EXCEPT ![p] = "open"] /\ file' = file /\ cmd' = cmd
    BY <1>6 DEF Load
  <2>2. buf' = [buf EXCEPT ![p] = Updated(file.list, cmd[p])]
    BY <1>6 DEF Load
  <2>3. \A q \in Procs : q # p => st[q] = "idle"
    BY <1>1, <2>1
  <2>4. \A q \in Procs : st'[q] = (IF q = p THEN "open" ELSE st[q])
    BY <2>1 DEF TypeOK
  <2>5. buf'[p] = Updated(file.list, cmd[p])
    BY <2>2 DEF TypeOK
  <2>6. (\A q \in Procs : st[q] # "write") /\ \A q \in Procs : st'[q] # "write"
    BY <2>1, <2>3, <2>4
  <2>7. Updated(file.list, cmd[p])' = Updated(file.list, cmd[p])
    BY <2>1 DEF Updated, Retain
  <2>8. \A q \in Procs : st'[q] # "idle" => q = p
    BY <2>3, <2>4
  <2>9. \A q \in Procs : st'[q] = "open" => (buf[q] = Updated(file.list, cmd[q]))'
    BY <2>5, <2>7, <2>8
  <2>10. OneAtATime'
    BY <2>6, <2>8, <2>9 DEF OneAtATime
  <2> QED
    BY <2>1, <2>6, <2>10, VisibleUnlessWriting, VisibleUnlessWritingLater
<1>7. ASSUME NEW p \in Procs, Truncate(p)
      PROVE  OneAtATime' /\ Recent!Next
  <2>1. /\ st[p] = "open" /\ st' = [st EXCEPT ![p] = "write"]
        /\ file'.len = 0 /\ buf' = buf
    BY <1>7 DEF Truncate
  <2>2. \A q \in Procs : q # p => st[q] = "idle"
    BY <1>1, <2>1
  <2>3. \A q \in Procs : st'[q] = (IF q = p THEN "write" ELSE st[q])
    BY <2>1 DEF TypeOK
  <2>4. (\A q \in Procs : st[q] # "write") /\ st'[p] = "write" /\ \A q \in Procs : st'[q] # "idle" => q = p
    BY <2>1, <2>2, <2>3
  <2>5. OneAtATime'
    BY <2>1, <2>2, <2>3 DEF OneAtATime
  <2>6. Visible = file.list /\ Visible' = buf[p]
    BY <2>1, <2>4, VisibleUnlessWriting, VisibleWhileWritingLater
  <2>7. buf[p] = Updated(file.list, cmd[p])
    BY <2>1 DEF OneAtATime
  <2>8. file.list \in Seq(Commands) /\ cmd[p] \in Commands /\ Distinct(file.list)
    BY <2>1 DEF TypeOK, Prepared, NoDuplicates
  <2>9. Recent!Touch(cmd[p])
    BY <2>6, <2>7, <2>8, UpdatedTouches
  <2> QED
    BY <2>5, <2>8, <2>9 DEF Recent!Next
<1>8. ASSUME NEW p \in Procs, Write(p)
      PROVE  OneAtATime' /\ Visible' = Visible
  <2>1. /\ st[p] = "write" /\ st' = [st EXCEPT ![p] = "execute"]
        /\ file' = Overwrite(file, buf[p])
    BY <1>8 DEF Write
  <2>2. \A q \in Procs : st[q] # "idle" => q = p
    BY <1>1, <2>1
  <2>3. \A q \in Procs : st'[q] = (IF q = p THEN "execute" ELSE st[q])
    BY <2>1 DEF TypeOK
  <2>4. \A q \in Procs : (q # p => st'[q] = "idle") /\ st'[q] \notin {"open", "write"}
    BY <2>2, <2>3
  <2>5. file.len = 0 /\ Size(buf[p]) \in Nat
    BY <2>1, SizeType DEF OneAtATime, TypeOK
  <2>6. file'.list = buf[p]
    BY <2>1, <2>5 DEF Overwrite
  <2>7. OneAtATime'
    BY <2>4 DEF OneAtATime
  <2> QED
    BY <2>1, <2>2, <2>4, <2>6, <2>7, VisibleWhileWriting, VisibleUnlessWritingLater
<1>9. ASSUME NEW p \in Procs, WriteFails(p) \/ Crash(p)
      PROVE  FALSE
  BY <1>9 DEF WriteFails, Crash
<1> QED
  BY <1>3, <1>4, <1>5, <1>6, <1>7, <1>8, <1>9 DEF Next, Advance

\* As long as the user runs one rcurl at a time, and nothing worse happens than
\* that the file cannot be opened, the history file is the list of the most
\* recently used commands: each save is one use of its command, at the moment
\* the old list is truncated, and no other step can be noticed.
THEOREM FileIsRecentList ==
    ASSUME Serial, Faults \subseteq {"open"}
    PROVE  Spec => ImplementsRecentList
<1>1. Init => OneAtATime /\ Recent!Init
  <2> SUFFICES ASSUME Init PROVE OneAtATime /\ Recent!Init
    OBVIOUS
  <2>1. \A p \in Procs : st[p] = "idle"
    BY DEF Init
  <2>2. file.list = << >>
    BY DEF Init
  <2> QED
    BY <2>1, <2>2, VisibleUnlessWriting DEF OneAtATime, Recent!Init
<1>2. Inv /\ OneAtATime /\ [Next]_vars => OneAtATime' /\ [Recent!Next]_Visible
  BY SerialStep
<1> QED
  BY <1>1, <1>2, InvInit, InvStep, PTL DEF Spec, ImplementsRecentList, Recent!Spec
=============================================================================
