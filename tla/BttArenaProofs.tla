--------------------------- MODULE BttArenaProofs ---------------------------
(***************************************************************************)
(* Proofs about BttArena, for any number of blocks and lanes, any number   *)
(* of writes and any number of faults: the variables keep their types, and *)
(* metadata that is trusted is a partition of the internal blocks.         *)
(*                                                                         *)
(* The argument is about two functions, the newest log entry of each lane  *)
(* (Ents) and the block of each logical block (Look).  Good(E, L) is the   *)
(* partition with the bounds and the exclusion of two pending writes to    *)
(* one sector that make it inductive; the lemmas say how a map store, a    *)
(* log store, the bitmap test and a rewrite of the log act on it.          *)
(*                                                                         *)
(* Repair, recovery and atomicity follow, each with an invariant of its    *)
(* own (RepairInv, RecoverInv, AtomicInv) on top of IInv.                  *)
(***************************************************************************)
EXTENDS BttArena, TLAPS, WellFoundedInduction

Pend(E, L, i) ==
    E[i].new_map # L[E[i].lba] /\ E[i].old_map = L[E[i].lba]

Free(E, L, i) == IF Pend(E, L, i) THEN E[i].new_map ELSE E[i].old_map

EntsOK(E) ==
    \A i \in Lanes : E[i].lba \in Lba /\ E[i].old_map \in Blocks
                                      /\ E[i].new_map \in Blocks

Good(E, L) ==
    /\ EntsOK(E)
    /\ \A l \in Lba : L[l] \in Blocks
    /\ \A l, k \in Lba : L[l] = L[k] => l = k
    /\ \A i, j \in Lanes : Free(E, L, i) = Free(E, L, j) => i = j
    /\ \A l \in Lba, i \in Lanes : L[l] # Free(E, L, i)
    /\ \A b \in Blocks : \/ \E l \in Lba : L[l] = b
                         \/ \E i \in Lanes : Free(E, L, i) = b
    /\ \A i, j \in Lanes : Pend(E, L, i) /\ Pend(E, L, j)
                             /\ E[i].lba = E[j].lba => i = j

\* Storing the map entry of a pending write swaps the lane's new block and
\* the sector's old one and leaves no write of that lane pending.  The other
\* lanes' writes are pending afterwards exactly if they were before.
LEMMA RollForwardGood ==
    ASSUME NEW E, NEW L \in [Lba -> Nat], NEW i \in Lanes,
           Good(E, L), Pend(E, L, i)
    PROVE  LET M == [L EXCEPT ![E[i].lba] = E[i].new_map]
           IN  /\ Good(E, M)
               /\ ~ Pend(E, M, i)
               /\ \A j \in Lanes \ {i} : Pend(E, M, j) <=> Pend(E, L, j)
<1> DEFINE M == [L EXCEPT ![E[i].lba] = E[i].new_map]
<1> DEFINE a == E[i].lba
<1>1. /\ a \in Lba /\ M[a] = E[i].new_map /\ L[a] = E[i].old_map
      /\ \A l \in Lba : l # a => M[l] = L[l]
      /\ Free(E, L, i) = E[i].new_map
      /\ E[i].new_map # E[i].old_map
  BY DEF Good, EntsOK, Pend, Free
<1>2. ~ Pend(E, M, i) /\ Free(E, M, i) = E[i].old_map
  BY <1>1 DEF Pend, Free
<1>3. ASSUME NEW j \in Lanes \ {i}
      PROVE  (Pend(E, M, j) <=> Pend(E, L, j)) /\ Free(E, M, j) = Free(E, L, j)
  <2>1. E[j].lba \in Lba
    BY DEF Good, EntsOK
  <2>2. CASE E[j].lba # a
    BY <1>1, <2>1, <2>2 DEF Pend, Free
  <2>3. CASE E[j].lba = a
    <3>1. ~ Pend(E, L, j)
      BY <2>3 DEF Good
    <3>2. E[j].old_map # E[i].new_map
      BY <1>1, <3>1 DEF Good, Free
    <3>3. ~ Pend(E, M, j)
      BY <1>1, <2>3, <3>2 DEF Pend
    <3> QED BY <3>1, <3>3 DEF Free
  <2> QED BY <2>2, <2>3
<1> HIDE DEF M, a
<1>4. EntsOK(E) /\ \A l \in Lba : M[l] \in Blocks
  BY <1>1 DEF Good, EntsOK
<1>5. \A l, k \in Lba : M[l] = M[k] => l = k
  BY <1>1 DEF Good
<1>6. \A j, k \in Lanes : Free(E, M, j) = Free(E, M, k) => j = k
  <2>1. \A j \in Lanes \ {i} : Free(E, M, j) # E[i].old_map
    BY <1>1, <1>3 DEF Good
  <2>2. \A j, k \in Lanes \ {i} : Free(E, M, j) = Free(E, M, k) => j = k
    BY <1>3 DEF Good
  <2> QED BY <1>2, <2>1, <2>2
<1>7. \A l \in Lba, j \in Lanes : M[l] # Free(E, M, j)
  <2> TAKE l \in Lba, j \in Lanes
  <2>1. CASE j = i
    BY <1>1, <1>2, <2>1 DEF Good
  <2>2. CASE j # i
    <3>1. Free(E, M, j) = Free(E, L, j) /\ Free(E, L, j) # Free(E, L, i)
      BY <1>3, <2>2 DEF Good
    <3>2. Free(E, L, j) # L[l]
      BY DEF Good
    <3> QED BY <1>1, <3>1, <3>2
  <2> QED BY <2>1, <2>2
<1>8. \A b \in Blocks : \/ \E l \in Lba : M[l] = b
                        \/ \E j \in Lanes : Free(E, M, j) = b
  <2> TAKE b \in Blocks
  <2>1. CASE b = E[i].new_map \/ b = E[i].old_map
    BY <1>1, <1>2, <2>1
  <2>2. CASE b # E[i].new_map /\ b # E[i].old_map
    <3>1. (\E l \in Lba : L[l] = b) \/ (\E j \in Lanes : Free(E, L, j) = b)
      BY DEF Good
    <3> QED BY <1>1, <1>3, <2>2, <3>1
  <2> QED BY <2>1, <2>2
<1>9. \A j, k \in Lanes : Pend(E, M, j) /\ Pend(E, M, k)
                            /\ E[j].lba = E[k].lba => j = k
  BY <1>2, <1>3 DEF Good
<1>10. Good(E, M)
  BY <1>4, <1>5, <1>6, <1>7, <1>8, <1>9 DEF Good
<1> QED BY <1>2, <1>3, <1>10, Zenon DEF M

\* Logging a write to sector l makes it pending and moves no block: the
\* lane's free block is the write's new block.  No other lane may have a
\* write to l pending, which the lock of the map entry sees to.
LEMMA FlogGood ==
    ASSUME NEW E \in [Lanes -> LogEnt], NEW L \in [Lba -> Nat], NEW i \in Lanes,
           NEW l \in Lba, NEW q \in Nat, Good(E, L), ~ Pend(E, L, i),
           \A j \in Lanes : Pend(E, L, j) => E[j].lba # l
    PROVE  LET F == [E EXCEPT ![i] = [lba |-> l, old_map |-> L[l],
                                      new_map |-> E[i].old_map, seq |-> q]]
           IN  /\ Good(F, L)
               /\ Pend(F, L, i)
               /\ \A j \in Lanes \ {i} : Pend(F, L, j) <=> Pend(E, L, j)
<1> DEFINE F == [E EXCEPT ![i] = [lba |-> l, old_map |-> L[l],
                                  new_map |-> E[i].old_map, seq |-> q]]
<1>1. /\ F[i].lba = l /\ F[i].old_map = L[l] /\ F[i].new_map = E[i].old_map
      /\ \A j \in Lanes \ {i} : F[j] = E[j]
  OBVIOUS
<1> HIDE DEF F
<1>2. Free(E, L, i) = E[i].old_map
  BY DEF Free
<1>3. Pend(F, L, i) /\ Free(F, L, i) = Free(E, L, i)
  BY <1>1, <1>2 DEF Pend, Free, Good
<1>4. \A j \in Lanes \ {i} : /\ Pend(F, L, j) <=> Pend(E, L, j)
                             /\ Free(F, L, j) = Free(E, L, j)
  BY <1>1 DEF Pend, Free
<1>5. \A j \in Lanes : Free(F, L, j) = Free(E, L, j)
  BY <1>3, <1>4
<1>6. EntsOK(F)
  BY <1>1 DEF Good, EntsOK
<1>7. \A j, k \in Lanes : Pend(F, L, j) /\ Pend(F, L, k)
                            /\ F[j].lba = F[k].lba => j = k
  BY <1>1, <1>4 DEF Good
<1>8. Good(F, L)
  BY <1>5, <1>6, <1>7 DEF Good
<1> QED BY <1>3, <1>4, <1>8, Zenon DEF F

\* What the entry checks and the bitmap test establish is Good: a write that
\* is still pending references its old block twice.
LEMMA BitmapGood ==
    ASSUME NEW E, NEW L, EntsOK(E),
           \A l \in Lba : L[l] \in Blocks,
           \A l, k \in Lba : L[l] = L[k] => l = k,
           \A i \in Lanes : E[i].old_map \notin {L[l] : l \in Lba},
           \A i, j \in Lanes : E[i].old_map = E[j].old_map => i = j,
           {L[l] : l \in Lba} \cup {E[i].old_map : i \in Lanes} = Blocks
    PROVE  Good(E, L)
<1>1. \A i \in Lanes : ~ Pend(E, L, i)
  BY DEF Pend, EntsOK
<1>2. \A i \in Lanes : Free(E, L, i) = E[i].old_map
  BY <1>1 DEF Free
<1>3. \A b \in Blocks : \/ \E l \in Lba : L[l] = b
                        \/ \E i \in Lanes : E[i].old_map = b
  OBVIOUS
<1> QED BY <1>1, <1>2, <1>3 DEF Good

\* Good does not depend on the sequence numbers.
LEMMA SameGood ==
    ASSUME NEW E, NEW F, NEW L, Good(E, L),
           \A i \in Lanes : /\ F[i].lba = E[i].lba
                            /\ F[i].old_map = E[i].old_map
                            /\ F[i].new_map = E[i].new_map
    PROVE  Good(F, L) /\ \A i \in Lanes : Pend(F, L, i) <=> Pend(E, L, i)
<1>1. \A i \in Lanes : /\ Pend(F, L, i) <=> Pend(E, L, i)
                       /\ Free(F, L, i) = Free(E, L, i)
  BY DEF Pend, Free
<1>2. EntsOK(F)
  BY DEF Good, EntsOK
<1> QED BY <1>1, <1>2 DEF Good

-----------------------------------------------------------------------------
(* The log groups.                                                         *)

GroupOK(g, s) ==
    /\ g[0].seq # g[s].seq /\ g[0].seq <= 3 /\ g[s].seq <= 3
    /\ \A j \in Slots \ {0, s} : g[j] = Pad

Layout(lg, s) == \A i \in Lanes : GroupOK(lg[i], s)

\* The sequence numbers 1, 2, 3, 1, ... of the kernel.
LEMMA NextSeq ==
    \A n \in 1 .. 3 : (n % 3) + 1 = IF n = 3 THEN 1 ELSE n + 1
  BY Z3

LEMMA ReadType ==
    ASSUME NEW g \in [Slots -> LogEnt], NEW s \in {1, 2}
    PROVE  /\ btt_log_read(g, s) \in LogEnt
           /\ OldSlot(g, s) \in {0, s}
           /\ 0 \in Slots /\ s \in Slots
  BY DEF btt_log_read, OldSlot, Slots

\* After a log store into the older slot the entry just stored is the newest.
LEMMA FlogGroup ==
    ASSUME NEW g \in [Slots -> LogEnt], NEW s \in {1, 2}, GroupOK(g, s),
           btt_log_read(g, s).seq # 0, NEW e \in LogEnt,
           e.seq = (btt_log_read(g, s).seq % 3) + 1
    PROVE  LET h == [g EXCEPT ![OldSlot(g, s)] = e]
           IN  GroupOK(h, s) /\ btt_log_read(h, s) = e /\ e.seq # 0
<1> DEFINE o == OldSlot(g, s)
<1> DEFINE h == [g EXCEPT ![o] = e]
<1> DEFINE n == btt_log_read(g, s).seq
<1>1. /\ o \in {0, s} /\ 0 \in Slots /\ s \in Slots /\ s # 0
      /\ n \in Nat /\ n = g[IF o = 0 THEN s ELSE 0].seq
      /\ \A j \in Slots : g[j].seq \in Nat
  BY ReadType DEF OldSlot, btt_log_read, LogEnt
<1>2. n \in 1 .. 3
  BY <1>1 DEF GroupOK
<1>3. e.seq = IF n = 3 THEN 1 ELSE n + 1
  BY <1>2, NextSeq
<1>4. h[o] = e /\ \A j \in Slots : j # o => h[j] = g[j]
  BY <1>1
<1> HIDE DEF h, n, o
<1>5. CASE o = 0
  <2>1. h[0] = e /\ h[s].seq = n
    BY <1>1, <1>4, <1>5
  <2>2. btt_log_get_old(h, s) = 1
    BY <1>2, <1>3, <2>1 DEF btt_log_get_old
  <2>3. GroupOK(h, s)
    BY <1>1, <1>2, <1>3, <1>4, <1>5, <2>1 DEF GroupOK
  <2> QED BY <1>2, <1>3, <2>1, <2>2, <2>3 DEF btt_log_read, h, o
<1>6. CASE o = s
  <2>1. h[s] = e /\ h[0].seq = n
    BY <1>1, <1>4, <1>6
  <2>2. btt_log_get_old(h, s) = 0
    BY <1>2, <1>3, <2>1 DEF btt_log_get_old
  <2>3. GroupOK(h, s)
    BY <1>1, <1>2, <1>3, <1>4, <1>6, <2>1 DEF GroupOK
  <2> QED BY <1>2, <1>3, <2>1, <2>2, <2>3 DEF btt_log_read, h, o
<1> QED BY <1>1, <1>5, <1>6

\* btt_rewrite_log() keeps the newest entry of a group, as its only one.
LEMMA FreshGroupRead ==
    ASSUME NEW g \in [Slots -> LogEnt], NEW s \in {1, 2}, NEW e \in LogEnt,
           g = [j \in Slots |-> IF j = 0 THEN [e EXCEPT !.seq = 1] ELSE Pad]
    PROVE  /\ GroupOK(g, s)
           /\ btt_log_read(g, s).lba = e.lba
           /\ btt_log_read(g, s).old_map = e.old_map
           /\ btt_log_read(g, s).new_map = e.new_map
<1>1. /\ g[0] = [e EXCEPT !.seq = 1] /\ g[s] = Pad
      /\ \A j \in Slots \ {0, s} : g[j] = Pad
  BY DEF Slots
<1>2. g[0].seq = 1 /\ g[s].seq = 0
  BY <1>1 DEF LogEnt, Pad
<1>3. btt_log_read(g, s) = g[0]
  BY <1>2 DEF btt_log_read, btt_log_get_old
<1>4. g[0].lba = e.lba /\ g[0].old_map = e.old_map /\ g[0].new_map = e.new_map
  BY <1>1 DEF LogEnt
<1>5. GroupOK(g, s)
  <2>1. g[0].seq # g[s].seq /\ g[0].seq <= 3 /\ g[s].seq <= 3
    BY <1>2
  <2> QED BY <1>1, <2>1 DEF GroupOK
<1> QED BY <1>3, <1>4, <1>5, Zenon

\* Two openers that see different second slots in a sound log read the same
\* entries: log_set_indices() deduces another slot only when neither is used.
LEMMA IndexChange ==
    ASSUME NEW lg \in [Lanes -> [Slots -> LogEnt]], NEW s \in {1, 2},
           NEW t \in {1, 2}, Layout(lg, s),
           LogIndex(lg, t) \/ (t = 2 /\ \A i \in Lanes : ent_is_padding(lg[i][1]))
    PROVE  /\ Layout(lg, t)
           /\ \A i \in Lanes : btt_log_read(lg[i], t) = btt_log_read(lg[i], s)
<1>0. CASE s = t
  BY <1>0
<1>1. CASE s # t
  <2>1. \A i \in Lanes : lg[i][t] = Pad
    BY <1>1 DEF Layout, GroupOK, Slots
  <2>2. \A i \in Lanes : lg[i][s] = Pad
    <3>1. CASE t = 2 /\ \A i \in Lanes : ent_is_padding(lg[i][1])
      BY <1>1, <3>1 DEF ent_is_padding
    <3>2. CASE LogIndex(lg, t)
      <4> DEFINE others == {p \in Valid(lg) : p[2] # 0}
      <4>1. \A p \in others : p[1] \in Lanes /\ p[2] = s
        BY DEF Valid, Layout, GroupOK, Slots, ent_is_padding
      <4>2. CASE others = {}
        <5>1. ASSUME NEW i \in Lanes, lg[i][s] # Pad
              PROVE  FALSE
          <6>1. <<i, s>> \in others
            BY <5>1 DEF Valid, Slots, ent_is_padding
          <6> QED BY <4>2, <6>1
        <5> QED BY <5>1
      <4>3. ASSUME NEW p1 \in others,
                   t = IF \A i \in Lanes : Unused(lg, i, p1) THEN 1 ELSE p1[2]
            PROVE  FALSE
        <5>1. p1[1] \in Lanes /\ p1[2] = s
          BY <4>1
        <5>2. Unused(lg, p1[1], p1)
          BY <1>1, <4>3, <5>1
        <5>3. PICK k \in Slots : \A j \in Slots \ {k} : Before(<<p1[1], j>>, p1)
          BY <5>2 DEF Unused
        <5>4. \A j \in Slots \ {k} : j < s
          BY <5>1, <5>3 DEF Before, Lanes
        <5> QED BY <5>4 DEF Slots
      <4> QED BY <3>2, <4>2, <4>3, Zenon DEF LogIndex
    <3> QED BY <3>1, <3>2
  <2>3. ASSUME NEW i \in Lanes
        PROVE  GroupOK(lg[i], t) /\ btt_log_read(lg[i], t) = btt_log_read(lg[i], s)
    <3>1. lg[i][t] = Pad /\ lg[i][s] = Pad
      BY <2>1, <2>2
    <3> QED BY <3>1 DEF Layout, GroupOK, btt_log_read, btt_log_get_old
  <2> QED BY <2>3 DEF Layout
<1> QED BY <1>0, <1>1

\* log_set_indices() and the sequence number test of btt_check_log_entries()
\* together leave only logs with entries in slots 0 and log_index[1].
LEMMA IndexLayout ==
    ASSUME NEW lg \in [Lanes -> [Slots -> LogEnt]], NEW s \in {1, 2},
           LogIndex(lg, s),
           \A i \in Lanes : /\ lg[i][0].seq # lg[i][s].seq
                            /\ lg[i][0].seq <= 3 /\ lg[i][s].seq <= 3
    PROVE  Layout(lg, s)
<1> DEFINE others == {p \in Valid(lg) : p[2] # 0}
<1>1. ASSUME NEW i \in Lanes, NEW j \in Slots \ {0, s}, lg[i][j] # Pad
      PROVE  FALSE
  <2>1. <<i, j>> \in others
    BY <1>1 DEF Valid, ent_is_padding
  <2>2. PICK p1 \in others :
           /\ FirstIn(p1, others)
           /\ \A q \in Lanes \X Slots : Before(p1, q) =>
                 (q[2] \notin {0, p1[2]} => q \notin Valid(lg))
           /\ s = IF \A k \in Lanes : Unused(lg, k, p1) THEN 1 ELSE p1[2]
    BY <2>1, Zenon DEF LogIndex
  <2>3. p1[1] \in Lanes /\ p1[2] \in Slots
    BY DEF Valid
  <2>4. p1[2] = s
    <3>1. CASE \A k \in Lanes : Unused(lg, k, p1)
      <4>1. PICK k \in Slots : \A m \in Slots \ {k} :
               lg[p1[1]][m] = Pad /\ Before(<<p1[1], m>>, p1)
        BY <2>3, <3>1 DEF Unused, ent_is_padding
      <4>2. \A m \in Slots \ {k} : m < p1[2]
        BY <2>3, <4>1 DEF Before, Lanes
      <4>3. k = 3
        BY <2>3, <4>2 DEF Slots
      <4>4. 0 \in Slots \ {k} /\ s \in Slots \ {k}
        BY <4>3 DEF Slots
      <4>5. lg[p1[1]][0] = Pad /\ lg[p1[1]][s] = Pad
        BY <4>1, <4>4, Zenon
      <4> QED BY <2>3, <4>5
    <3> QED BY <2>2, <3>1
  <2>5. CASE <<i, j>> = p1
    BY <2>4, <2>5
  <2>6. CASE Before(p1, <<i, j>>)
    <3>1. <<i, j>> \in Lanes \X Slots /\ <<i, j>>[2] = j /\ j \notin {0, p1[2]}
      BY <2>4
    <3>2. <<i, j>> \notin Valid(lg)
      BY <2>2, <2>6, <3>1
    <3> QED BY <2>1, <3>2
  <2> QED BY <2>1, <2>2, <2>5, <2>6 DEF FirstIn
<1> QED BY <1>1 DEF Layout, GroupOK

-----------------------------------------------------------------------------
(* Types.                                                                  *)

Ents == [i \in Lanes |-> Ent(i)]
Look == [l \in Lba |-> btt_map_lookup(map, l)]

LEMMA EntType ==
    ASSUME TypeOK
    PROVE  /\ \A i \in Lanes : Ent(i) \in LogEnt /\ Ents[i] = Ent(i)
           /\ Ents \in [Lanes -> LogEnt]
           /\ Look \in [Lba -> Nat]
           /\ \A l \in Lba : Look[l] = btt_map_lookup(map, l)
<1>1. \A i \in Lanes : log[i] \in [Slots -> LogEnt] /\ log_index \in {1, 2}
  BY DEF TypeOK
<1>2. \A i \in Lanes : Ent(i) \in LogEnt
  BY <1>1, ReadType DEF Ent
<1>3. \A l \in Lba : btt_map_lookup(map, l) \in Nat
  BY SizesAssumption DEF TypeOK, MapEnt, btt_map_lookup, Lba
<1> QED BY <1>2, <1>3 DEF Ents, Look

\* Storing a map entry keeps the map a map.
LEMMA RollForwardType ==
    ASSUME TypeOK, NEW i \in Lanes, RollForward(i)
    PROVE  map' \in [Lba -> MapEnt]
<1>1. [flags |-> "normal", blk |-> Ent(i).new_map] \in MapEnt
  BY EntType DEF MapEnt, LogEnt
<1> QED BY <1>1, Zenon DEF TypeOK, RollForward

\* A variable's new value has its type, one fact per kind of store.
LEMMA NoWriteType == NoWrite \in [pc : {"idle", "data", "logged"}, lba : Lba]
  BY SizesAssumption DEF NoWrite, Lba

LEMMA FlogType ==
    ASSUME TypeOK, NEW i \in Lanes, KernelFlog(i)
    PROVE  log' \in [Lanes -> [Slots -> LogEnt]]
<1> DEFINE l == lanes[i].lba
<1> DEFINE o == OldSlot(log[i], log_index)
<1> DEFINE e == [lba |-> l, old_map |-> btt_map_lookup(map, l),
                 new_map |-> Ent(i).old_map, seq |-> (Ent(i).seq % 3) + 1]
<1>1. l \in Lba /\ l \in Nat
  BY SizesAssumption DEF TypeOK, Lba
<1>2. btt_map_lookup(map, l) \in Nat
  BY <1>1, EntType
<1>3. Ent(i) \in LogEnt
  BY EntType
<1>4. (Ent(i).seq % 3) + 1 \in Nat /\ Ent(i).old_map \in Nat
  BY <1>3 DEF LogEnt
<1>5. e \in LogEnt
  BY <1>1, <1>2, <1>4 DEF LogEnt
<1>6. log' = [log EXCEPT ![i][o] = e]
  BY DEF KernelFlog
<1> HIDE DEF e, o
<1> QED BY <1>5, <1>6, Zenon DEF TypeOK

LEMMA FreshGroupType ==
    ASSUME TypeOK, NEW i \in Lanes
    PROVE  FreshGroup(i) \in [Slots -> LogEnt]
<1>1. Ent(i) \in LogEnt
  BY EntType
<1>2. [Ent(i) EXCEPT !.seq = 1] \in LogEnt /\ Pad \in LogEnt
  BY <1>1 DEF LogEnt, Pad
<1> QED BY <1>2 DEF FreshGroup

LEMMA LogEntriesErrorType ==
    LogEntriesError \in {"BTT_OK", "BTT_LOG_EQL_SEQ", "BTT_LOG_OOB_SEQ",
                         "BTT_LOG_OOB_LBA", "BTT_LOG_OOB_OLD", "BTT_LOG_OOB_NEW"}
  BY DEF LogEntriesError

LEMMA CountType == ASSUME TypeOK PROVE faults + 1 \in Nat /\ writes + 1 \in Nat
  BY DEF TypeOK

LEMMA NoCheckType == NoCheck \in CheckState
  BY DEF NoCheck, CheckState, CheckPcs, CheckCodes

LEMMA GotoType ==
    ASSUME chk \in CheckState, NEW pc \in CheckPcs, Goto(pc)
    PROVE  chk' \in CheckState
  BY Zenon DEF CheckState, Goto

LEMMA NextLaneType ==
    ASSUME chk \in CheckState, NEW b \in BOOLEAN, NextLane(b)
    PROVE  chk' \in CheckState
<1>1. chk.lane + 1 \in Nat
  BY DEF CheckState
<1> QED BY <1>1, Zenon DEF CheckState, NextLane

LEMMA FinishType ==
    ASSUME chk \in CheckState, trusted \in BOOLEAN, NEW rc \in CheckCodes, Finish(rc)
    PROVE  chk' \in CheckState /\ trusted' \in BOOLEAN
<1>1. "done" \in CheckPcs
  BY DEF CheckPcs
<1>2. chk' \in CheckState
  BY <1>1, Zenon DEF CheckState, Finish
<1>3. trusted' \in BOOLEAN
  BY Zenon DEF Finish
<1> QED BY <1>2, <1>3

LEMMA KernelType == ASSUME TypeOK, Kernel PROVE TypeOK'
<1>1. ASSUME NEW s \in {1, 2}, KernelAttach(s) PROVE TypeOK'
  BY <1>1, NoCheckType DEF KernelAttach, TypeOK
<1>2. ASSUME NEW i \in Lanes, KernelRecover(i) PROVE TypeOK'
  <2>1. map' \in [Lba -> MapEnt]
    BY <1>2, RollForwardType DEF KernelRecover
  <2> QED BY <1>2, <2>1 DEF KernelRecover, TypeOK
<1>3. ASSUME NEW i \in Lanes, KernelFlog(i) PROVE TypeOK'
  <2>1. log' \in [Lanes -> [Slots -> LogEnt]]
    BY <1>3, FlogType
  <2>2. lanes' \in [Lanes -> [pc : {"idle", "data", "logged"}, lba : Lba]]
    BY <1>3 DEF KernelFlog, TypeOK
  <2> QED BY <1>3, <2>1, <2>2 DEF KernelFlog, TypeOK
<1>4. ASSUME NEW i \in Lanes, KernelMap(i) PROVE TypeOK'
  <2>1. map' \in [Lba -> MapEnt]
    BY <1>4, RollForwardType DEF KernelMap
  <2>2. lanes' \in [Lanes -> [pc : {"idle", "data", "logged"}, lba : Lba]]
    BY <1>4, NoWriteType DEF KernelMap, TypeOK
  <2> QED BY <1>4, <2>1, <2>2 DEF KernelMap, TypeOK
<1>5. ASSUME NEW i \in Lanes, NEW l \in Lba, NEW v \in Vals, KernelData(i, l, v)
      PROVE  TypeOK'
  <2>1. data' \in [Blocks -> Vals]
    BY <1>5, Zenon DEF KernelData, TypeOK
  <2>2. lanes' \in [Lanes -> [pc : {"idle", "data", "logged"}, lba : Lba]]
    BY <1>5 DEF KernelData, TypeOK
  <2>3. writes' \in Nat
    BY <1>5, CountType DEF KernelData
  <2> QED BY <1>5, <2>1, <2>2, <2>3 DEF KernelData, TypeOK
<1>6. CASE KernelOnline
  BY <1>6 DEF KernelOnline, TypeOK
<1>7. CASE KernelDetach
  BY <1>7 DEF KernelDetach, TypeOK
<1> QED BY <1>1, <1>2, <1>3, <1>4, <1>5, <1>6, <1>7 DEF Kernel

LEMMA CheckerType == ASSUME TypeOK, Checker PROVE TypeOK'
<1> DEFINE Ctl == chk' \in CheckState /\ trusted' \in BOOLEAN
<1>0. chk \in CheckState /\ trusted \in BOOLEAN
  BY DEF TypeOK
<1>a. ASSUME NEW pc \in CheckPcs, Goto(pc), UNCHANGED trusted PROVE Ctl
  BY <1>0, <1>a, GotoType
<1>b. ASSUME NEW rc \in CheckCodes, Finish(rc) PROVE Ctl
  BY <1>0, <1>b, FinishType
<1>c. ASSUME NEW b \in BOOLEAN, NextLane(b), UNCHANGED trusted PROVE Ctl
  BY <1>0, <1>c, NextLaneType
<1> HIDE DEF Ctl
<1> USE DEF CheckStep, NoStore, media
<1>1. CASE Discover
  <2>1. Ctl
    BY <1>1, <1>a, <1>b DEF Discover, CheckPcs, CheckCodes
  <2>2. faults' \in Nat
    <3>1. faults \in Nat /\ faults + 1 \in Nat
      BY CountType DEF TypeOK
    <3> QED BY <1>1, <3>1, Zenon DEF Discover
  <2>3. info' \in BOOLEAN
    BY <1>1, Zenon DEF Discover, TypeOK
  <2> QED BY <1>1, <2>1, <2>2, <2>3, Zenon DEF Discover, TypeOK, Ctl
<1>2. CASE SetIndices
  <2>1. Ctl
    BY <1>2, <1>a, <1>b, Zenon DEF SetIndices, CheckPcs, CheckCodes
  <2>2. log_index' \in {1, 2}
    BY <1>2 DEF SetIndices, LogIndex, TypeOK
  <2> QED BY <1>2, <2>1, <2>2 DEF SetIndices, TypeOK, Ctl
<1>3. CASE CheckLogEntries
  <2>1. Ctl
    BY <1>3, <1>a, <1>b, LogEntriesErrorType DEF CheckLogEntries, CheckPcs, CheckCodes
  <2> QED BY <1>3, <2>1 DEF CheckLogEntries, TypeOK, Ctl
<1>4. CASE CheckMapEntries
  <2>1. Ctl
    BY <1>4, <1>a, <1>b, SMTT(30) DEF CheckMapEntries, CheckPcs, CheckCodes
  <2> QED BY <1>4, <2>1 DEF CheckMapEntries, TypeOK, Ctl
<1>5. CASE CheckLogMap
  <2>1. chk.lane \in Lanes
    BY <1>0, <1>5, SizesAssumption DEF CheckLogMap, Lanes, CheckState
  <2>2. map' \in [Lba -> MapEnt]
    BY <1>5, <2>1, RollForwardType, Zenon DEF CheckLogMap, TypeOK
  <2>3. faults' \in Nat
    <3>1. faults \in Nat /\ faults + 1 \in Nat
      BY CountType DEF TypeOK
    <3> QED BY <1>5, <3>1, Zenon DEF CheckLogMap
  <2>4. Ctl
    <3>1. chk.saved \in BOOLEAN
      BY <1>0 DEF CheckState
    <3> QED BY <1>5, <1>c, <3>1, Zenon DEF CheckLogMap
  <2> QED BY <1>5, <2>2, <2>3, <2>4 DEF CheckLogMap, TypeOK, Ctl
<1>6. CASE CheckLogMapDone
  <2>1. Ctl
    BY <1>6, <1>a, <1>b DEF CheckLogMapDone, CheckPcs, CheckCodes
  <2> QED BY <1>6, <2>1 DEF CheckLogMapDone, TypeOK, Ctl
<1>7. CASE CheckInfo2
  <2>1. Ctl
    BY <1>7, <1>a, <1>b DEF CheckInfo2, CheckPcs, CheckCodes
  <2>2. info2' \in BOOLEAN
    BY <1>7, Zenon DEF CheckInfo2
  <2>3. faults' \in Nat
    <3>1. faults \in Nat /\ faults + 1 \in Nat
      BY CountType DEF TypeOK
    <3> QED BY <1>7, <3>1, Zenon DEF CheckInfo2
  <2> QED BY <1>7, <2>1, <2>2, <2>3, Zenon DEF CheckInfo2, TypeOK, Ctl
<1>8. CASE CheckBitmap
  <2>1. Ctl
    BY <1>8, <1>a, <1>b DEF CheckBitmap, CheckPcs, CheckCodes
  <2> QED BY <1>8, <2>1 DEF CheckBitmap, TypeOK, Ctl
<1>9. CASE RewriteLog
  <2>1. PICK i \in Lanes : RewriteGroup(i)
    BY <1>9, Zenon DEF RewriteLog
  <2>2. log' \in [Lanes -> [Slots -> LogEnt]]
    BY <2>1, FreshGroupType DEF RewriteGroup, TypeOK
  <2> QED BY <2>1, <2>2, Zenon DEF RewriteGroup, TypeOK
<1>10. CASE RewriteDone
  <2>1. Ctl
    BY <1>10, <1>b DEF RewriteDone, CheckCodes
  <2> QED BY <1>10, <2>1 DEF RewriteDone, TypeOK, Ctl
<1> QED BY <1>1, <1>2, <1>3, <1>4, <1>5, <1>6, <1>7, <1>8, <1>9, <1>10, Zenon
        DEF Checker

LEMMA TypeStep == TypeOK /\ [Next]_vars => TypeOK'
<1> SUFFICES ASSUME TypeOK, [Next]_vars PROVE TypeOK'
  OBVIOUS
<1>0. chk \in CheckState /\ trusted \in BOOLEAN
  BY DEF TypeOK
<1>1. CASE Kernel
  BY <1>1, KernelType
<1>2. CASE Checker
  BY <1>2, CheckerType
<1>3. ASSUME NEW repair \in BOOLEAN, NEW logfix \in BOOLEAN,
             CheckStart(repair, logfix)
      PROVE  TypeOK'
  <2>1. chk' \in CheckState
    BY <1>3, Zenon DEF CheckStart, NoCheck, CheckState, CheckPcs, CheckCodes
  <2> QED BY <1>3, <2>1 DEF CheckStart, TypeOK
<1>4. CASE Crash
  BY <1>4, NoWriteType, NoCheckType, Zenon DEF Crash, TypeOK
<1>5. CASE Sigbus
  <2>1. chk' \in CheckState /\ trusted' \in BOOLEAN
    BY <1>0, <1>5, FinishType DEF Sigbus, CheckCodes
  <2> QED BY <1>5, <2>1 DEF Sigbus, TypeOK
<1>6. CASE RewriteTorn
  <2>2. log' \in [Lanes -> [Slots -> LogEnt]]
    <3>1. PICK i \in Lanes, torn \in SUBSET Slots :
             log' = [log EXCEPT ![i] =
                        [j \in Slots |-> IF j \in torn THEN FreshGroup(i)[j]
                                         ELSE log[i][j]]]
      BY <1>6, Zenon DEF RewriteTorn
    <3>2. FreshGroup(i) \in [Slots -> LogEnt] /\ log[i] \in [Slots -> LogEnt]
      BY FreshGroupType DEF TypeOK
    <3> QED BY <3>1, <3>2, Zenon DEF TypeOK
  <2>3. faults' \in Nat
    BY <1>6, CountType DEF RewriteTorn
  <2> QED BY <1>6, <2>2, <2>3, NoCheckType, Zenon DEF RewriteTorn, CheckStep, TypeOK
<1>7. ASSUME NEW l \in Lba, NEW m \in ScribbleMaps, ScribbleMap(l, m)
      PROVE  TypeOK'
  <2>1. map' \in [Lba -> MapEnt]
    BY <1>7, ScribblesAssumption DEF ScribbleMap, TypeOK
  <2>2. faults' \in Nat
    BY <1>7, CountType DEF ScribbleMap, Fault
  <2> QED BY <1>7, <2>1, <2>2, Zenon DEF ScribbleMap, Fault, TypeOK
<1>8. ASSUME NEW i \in Lanes, NEW j \in Slots, NEW e \in ScribbleEnts,
             ScribbleLog(i, j, e)
      PROVE  TypeOK'
  <2>1. log' \in [Lanes -> [Slots -> LogEnt]]
    BY <1>8, ScribblesAssumption DEF ScribbleLog, TypeOK
  <2>2. faults' \in Nat
    BY <1>8, CountType DEF ScribbleLog, Fault
  <2> QED BY <1>8, <2>1, <2>2, Zenon DEF ScribbleLog, Fault, TypeOK
<1>9. CASE WipeInfo
  <2>1. faults' \in Nat
    BY <1>9, CountType DEF WipeInfo, Fault
  <2> QED BY <1>9, <2>1, Zenon DEF WipeInfo, Fault, TypeOK
<1>10. CASE UNCHANGED vars
  BY <1>10 DEF vars, TypeOK
<1> QED BY <1>1, <1>2, <1>3, <1>4, <1>5, <1>6, <1>7, <1>8, <1>9, <1>10
        DEF Next, Scribble

LEMMA TypeInit == Init => TypeOK
<1> SUFFICES ASSUME Init PROVE TypeOK
  BY Zenon
<1>1. map \in [Lba -> MapEnt]
  BY Zenon DEF Init, MapEnt
<1>2. log \in [Lanes -> [Slots -> LogEnt]]
  BY SizesAssumption, SMTT(30) DEF Init, LogEnt, Pad, Lanes
<1>3. lanes \in [Lanes -> [pc : {"idle", "data", "logged"}, lba : Lba]]
  BY NoWriteType DEF Init
<1> QED BY <1>1, <1>2, <1>3, NoCheckType, Zenon DEF Init, TypeOK

\* Type correctness: whatever the driver, the checker and the faults do, the
\* stores of check.c leave map, log and info blocks of the right form.
THEOREM TypeCorrect == Spec => []TypeOK
  BY TypeInit, TypeStep, PTL DEF Spec

-----------------------------------------------------------------------------
(* The inductive invariant.                                                *)

\* Metadata that is trusted, or that is being rewritten after it passed.
MetaInv ==
    trusted \/ chk.pc = "rewrite" => Layout(log, log_index) /\ Good(Ents, Look)

\* The driver has the arena only when it is trusted and nobody checks it, and
\* its lanes know which writes are pending.
KernInv ==
    /\ kern # "off" => /\ trusted /\ chk.pc = "idle"
                       /\ \A i \in Lanes : Ents[i].seq # 0
    /\ kern # "on" => \A i \in Lanes : lanes[i].pc = "idle"
    /\ kern = "on" => \A i \in Lanes :
          /\ lanes[i].pc = "logged" <=> Pend(Ents, Look, i)
          /\ lanes[i].pc = "logged" => Ents[i].lba = lanes[i].lba

\* What the checks made so far have established.
CheckInv ==
    /\ chk.pc = "log_entries" => LogIndex(log, log_index)
    /\ chk.pc \in {"map_entries", "log_map", "info2", "bitmap"} =>
          Layout(log, log_index) /\ EntsOK(Ents)
    /\ chk.pc \in {"log_map", "info2", "bitmap"} =>
          \A l \in Lba : Look[l] \in Blocks

IInv == TypeOK /\ MetaInv /\ KernInv /\ CheckInv

\* The model's operators in terms of Ents and Look.
LEMMA PendingIsPend ==
    ASSUME TypeOK, EntsOK(Ents), NEW i \in Lanes
    PROVE  /\ Pending(i) <=> Pend(Ents, Look, i)
           /\ FreeBlk(i) = Free(Ents, Look, i)
<1>1. Ents[i] = Ent(i) /\ Ent(i).lba \in Lba
  BY EntType DEF EntsOK
<1>2. Look[Ent(i).lba] = btt_map_lookup(map, Ent(i).lba)
  BY <1>1, EntType, Zenon
<1>3. Pending(i) <=> Pend(Ents, Look, i)
  BY <1>1, <1>2, Zenon DEF Pending, Pend
<1> QED BY <1>1, <1>3 DEF FreeBlk, Free

LEMMA GoodIsPartition ==
    ASSUME TypeOK, Good(Ents, Look)
    PROVE  Partition
<1>1. EntsOK(Ents)
  BY DEF Good
<1>2. \A i \in Lanes : FreeBlk(i) = Free(Ents, Look, i)
  BY <1>1, PendingIsPend
<1>3. \A l \in Lba : Look[l] = btt_map_lookup(map, l)
  BY EntType
<1>4. \A i \in Lanes : Free(Ents, Look, i) \in Blocks
  BY <1>1 DEF EntsOK, Free
<1> QED BY <1>2, <1>3, <1>4 DEF Good, Partition

LEMMA SameEnts ==
    ASSUME UNCHANGED <<log, log_index>> PROVE Ents' = Ents
  BY DEF Ents, Ent

LEMMA SameLook ==
    ASSUME UNCHANGED map PROVE Look' = Look
  BY DEF Look

LEMMA RollForwardLook ==
    ASSUME TypeOK, NEW i \in Lanes, Ents[i].lba \in Lba, RollForward(i)
    PROVE  Look' = [Look EXCEPT ![Ents[i].lba] = Ents[i].new_map]
<1> DEFINE a == Ents[i].lba
<1> DEFINE m == [flags |-> "normal", blk |-> Ents[i].new_map]
<1>1. map' = [map EXCEPT ![a] = m]
  BY EntType, Zenon DEF RollForward
<1>2. \A l \in Lba : map'[l] = IF l = a THEN m ELSE map[l]
  BY <1>1 DEF TypeOK
<1>3. m.flags = "normal" /\ m.blk = Ents[i].new_map
  BY Zenon
<1> HIDE DEF a, m
<1>4. \A l \in Lba : btt_map_lookup(map', l) = IF l = a THEN Ents[i].new_map
                                                 ELSE btt_map_lookup(map, l)
  BY <1>2, <1>3 DEF btt_map_lookup
<1>5. Look' = [l \in Lba |-> IF l = a THEN Ents[i].new_map
                             ELSE btt_map_lookup(map, l)]
  BY <1>4 DEF Look
<1> QED BY <1>5, Zenon DEF Look, a

\* A map store for a pending write keeps trusted metadata good.
LEMMA RollForwardStep ==
    ASSUME TypeOK, Good(Ents, Look), NEW i \in Lanes, Pending(i), RollForward(i),
           UNCHANGED <<log, log_index>>
    PROVE  /\ Good(Ents, Look)' /\ Ents' = Ents
           /\ ~ Pend(Ents', Look', i)
           /\ \A j \in Lanes \ {i} : Pend(Ents', Look', j) <=> Pend(Ents, Look, j)
<1>1. EntsOK(Ents) /\ Ents[i].lba \in Lba
  BY DEF Good, EntsOK
<1>2. Pend(Ents, Look, i)
  BY <1>1, PendingIsPend
<1>3. Ents' = Ents
  BY SameEnts
<1>4. Look' = [Look EXCEPT ![Ents[i].lba] = Ents[i].new_map]
  BY <1>1, RollForwardLook
<1>5. Look \in [Lba -> Nat]
  BY EntType, Zenon
<1> DEFINE M == [Look EXCEPT ![Ents[i].lba] = Ents[i].new_map]
<1>6. /\ Good(Ents, M) /\ ~ Pend(Ents, M, i)
      /\ \A j \in Lanes \ {i} : Pend(Ents, M, j) <=> Pend(Ents, Look, j)
  BY <1>2, <1>5, RollForwardGood, Zenon
<1>7. Look' = M
  BY <1>4
<1> HIDE DEF M
<1> QED BY <1>3, <1>6, <1>7, SMTT(30)

\* A step that leaves map, log and log_index alone keeps what is said of them.
LEMMA FrameStep ==
    ASSUME UNCHANGED <<map, log, log_index>>
    PROVE  /\ Ents' = Ents /\ Look' = Look
           /\ Layout(log, log_index)' <=> Layout(log, log_index)
           /\ Good(Ents, Look)' <=> Good(Ents, Look)
           /\ EntsOK(Ents)' <=> EntsOK(Ents)
           /\ LogIndex(log, log_index)' <=> LogIndex(log, log_index)
           /\ \A i \in Lanes : Pend(Ents, Look, i)' <=> Pend(Ents, Look, i)
<1>1. Ents' = Ents /\ Look' = Look
  BY SameEnts, SameLook
<1>2. log' = log /\ log_index' = log_index
  OBVIOUS
<1>3. Layout(log, log_index)' <=> Layout(log, log_index)
  BY <1>2
<1>4. LogIndex(log, log_index)' <=> LogIndex(log, log_index)
  BY <1>2
<1>5. Good(Ents, Look)' <=> Good(Ents, Look)
  BY <1>1
<1>6. EntsOK(Ents)' <=> EntsOK(Ents)
  BY <1>1
<1>7. ASSUME NEW i \in Lanes PROVE Pend(Ents, Look, i)' <=> Pend(Ents, Look, i)
  BY <1>1
<1> QED BY <1>1, <1>3, <1>4, <1>5, <1>6, <1>7

LEMMA AttachStep ==
    ASSUME IInv, TypeOK', NEW s \in {1, 2}, KernelAttach(s)
    PROVE  IInv'
<1>1. Layout(log, log_index) /\ Good(Ents, Look) /\ log_index \in {1, 2}
         /\ log \in [Lanes -> [Slots -> LogEnt]]
  BY DEF IInv, MetaInv, TypeOK, KernelAttach
<1>2. /\ Layout(log, s)
      /\ \A i \in Lanes : btt_log_read(log[i], s) = btt_log_read(log[i], log_index)
  <2>1. LogIndex(log, s) \/ (s = 2 /\ \A i \in Lanes : ent_is_padding(log[i][1]))
    BY SMTT(30) DEF KernelAttach
  <2> QED BY <1>1, <2>1, IndexChange, SMTT(30)
<1>3. log' = log /\ log_index' = s /\ map' = map
  BY DEF KernelAttach
<1>4. Ents' = Ents /\ Look' = Look
  BY <1>2, <1>3 DEF Ents, Ent, Look
<1>5. Layout(log, log_index)' /\ Good(Ents, Look)'
  BY <1>1, <1>2, <1>3, <1>4, Zenon
<1>6. \A i \in Lanes : Ents'[i].seq # 0
  BY <1>2, <1>4, Zenon DEF Ents, Ent, KernelAttach
<1>7. kern' = "attach" /\ chk'.pc = "idle" /\ trusted' /\ lanes' = lanes
  BY SMTT(30) DEF KernelAttach, NoCheck
<1>8. KernInv'
  BY <1>6, <1>7 DEF IInv, KernInv, KernelAttach
<1>9. MetaInv' /\ CheckInv'
  BY <1>5, <1>7 DEF MetaInv, CheckInv
<1> QED BY <1>8, <1>9, Zenon DEF IInv

LEMMA RecoverStep ==
    ASSUME IInv, TypeOK', NEW i \in Lanes, KernelRecover(i)
    PROVE  IInv'
<1>1. kern = "attach" /\ trusted /\ chk.pc = "idle"
         /\ UNCHANGED <<log, log_index, kern, chk, trusted, lanes>>
  BY DEF KernelRecover, IInv, KernInv
<1>2. TypeOK /\ Layout(log, log_index) /\ Good(Ents, Look)
  BY <1>1 DEF IInv, MetaInv
<1>3. Good(Ents, Look)' /\ Ents' = Ents
  BY <1>1, <1>2, RollForwardStep DEF KernelRecover
<1>4. Layout(log, log_index)'
  BY <1>1, <1>2
<1>5. MetaInv' /\ CheckInv'
  BY <1>1, <1>3, <1>4, Zenon DEF MetaInv, CheckInv
<1>6. KernInv'
  BY <1>1, <1>3, Zenon DEF IInv, KernInv
<1> QED BY <1>5, <1>6, ZenonT(40) DEF IInv

LEMMA MapStep ==
    ASSUME IInv, TypeOK', NEW i \in Lanes, KernelMap(i)
    PROVE  IInv'
<1>1. kern = "on" /\ trusted /\ chk.pc = "idle" /\ lanes[i].pc = "logged"
         /\ UNCHANGED <<log, log_index, kern, chk, trusted>>
         /\ lanes' = [lanes EXCEPT ![i] = NoWrite]
  BY Zenon DEF KernelMap, IInv, KernInv
<1>2. TypeOK /\ Layout(log, log_index) /\ Good(Ents, Look) /\ EntsOK(Ents)
  BY <1>1, Zenon DEF IInv, MetaInv, Good
<1>3. Pending(i)
  BY <1>1, <1>2, PendingIsPend, Zenon DEF IInv, KernInv
<1>4. /\ Good(Ents, Look)' /\ Ents' = Ents
      /\ ~ Pend(Ents', Look', i)
      /\ \A j \in Lanes \ {i} : Pend(Ents', Look', j) <=> Pend(Ents, Look, j)
  BY <1>1, <1>2, <1>3, RollForwardStep DEF KernelMap
<1>5. Layout(log, log_index)'
  BY <1>1, <1>2
<1>6. MetaInv' /\ CheckInv'
  BY <1>1, <1>4, <1>5, Zenon DEF MetaInv, CheckInv
<1>7. lanes'[i].pc = "idle" /\ \A j \in Lanes \ {i} : lanes'[j] = lanes[j]
  BY <1>1, Zenon DEF IInv, TypeOK, NoWrite
<1>8. KernInv'
  BY <1>1, <1>4, <1>7, Zenon DEF IInv, KernInv
<1> QED BY <1>6, <1>8 DEF IInv

\* What the driver's log store does to the newest entries: the lane's new one
\* is read back, and its write is the only one that becomes pending.
LEMMA FlogEnts ==
    ASSUME IInv, NEW i \in Lanes, KernelFlog(i)
    PROVE  LET l == lanes[i].lba
               F == [Ents EXCEPT ![i] =
                        [lba |-> l, old_map |-> Look[l],
                         new_map |-> Ents[i].old_map,
                         seq |-> (Ents[i].seq % 3) + 1]]
           IN  /\ Ents' = F /\ Look' = Look /\ Layout(log, log_index)'
               /\ F[i].seq # 0 /\ F[i].lba = l /\ Good(F, Look)
               /\ ~ Pend(Ents, Look, i) /\ Pend(F, Look, i)
               /\ \A j \in Lanes : Pend(Ents, Look, j) => Ents[j].lba # l
               /\ \A j \in Lanes \ {i} : Pend(F, Look, j) <=> Pend(Ents, Look, j)
               /\ \A j \in Lanes \ {i} : F[j] = Ents[j]
<1> DEFINE l == lanes[i].lba
<1> DEFINE q == (Ents[i].seq % 3) + 1
<1> DEFINE e == [lba |-> l, old_map |-> Look[l], new_map |-> Ents[i].old_map, seq |-> q]
<1> DEFINE o == OldSlot(log[i], log_index)
<1> DEFINE F == [Ents EXCEPT ![i] = e]
<1>1. kern = "on" /\ trusted /\ UNCHANGED <<map, log_index>>
  BY DEF KernelFlog, IInv, KernInv
<1>2. TypeOK /\ Layout(log, log_index) /\ Good(Ents, Look) /\ l \in Lba
         /\ log[i] \in [Slots -> LogEnt] /\ log_index \in {1, 2}
         /\ log \in [Lanes -> [Slots -> LogEnt]]
  BY <1>1, Zenon DEF IInv, MetaInv, TypeOK
<1>3. Ents \in [Lanes -> LogEnt] /\ Look \in [Lba -> Nat] /\ Ents[i] = Ent(i)
         /\ Look[l] = btt_map_lookup(map, l) /\ l \in Nat
  BY <1>2, EntType, SizesAssumption, SMTT(30) DEF Lba
<1>4. q \in Nat /\ Ents[i].seq # 0 /\ Ents[i].seq \in Nat /\ Ents[i].old_map \in Nat
  BY <1>1, <1>3, SMTT(30) DEF IInv, KernInv, LogEnt
<1>5. e \in LogEnt /\ e.seq = q
  <2> HIDE DEF q
  <2>1. Look[l] \in Nat
    BY <1>2, <1>3
  <2> QED BY <1>3, <1>4, <2>1, Zenon DEF LogEnt
<1>6. log' = [log EXCEPT ![i][o] = e]
  BY <1>3 DEF KernelFlog
<1>7. ~ Pend(Ents, Look, i) /\ \A j \in Lanes : Pend(Ents, Look, j) => Ents[j].lba # l
  BY <1>1, Zenon DEF IInv, KernInv, KernelFlog
<1>8. /\ Good(F, Look) /\ Pend(F, Look, i)
      /\ \A j \in Lanes \ {i} : Pend(F, Look, j) <=> Pend(Ents, Look, j)
  BY <1>2, <1>3, <1>4, <1>7, FlogGood, ZenonT(30)
<1>9. GroupOK(log[i], log_index) /\ Ents[i] = btt_log_read(log[i], log_index)
  BY <1>2, <1>3, Zenon DEF Layout, Ent
<1> DEFINE h == [log[i] EXCEPT ![o] = e]
<1>10. GroupOK(h, log_index) /\ btt_log_read(h, log_index) = e /\ e.seq # 0
  <2>1. e.seq = (btt_log_read(log[i], log_index).seq % 3) + 1
    BY <1>5, <1>9, ZenonT(30)
  <2>2. btt_log_read(log[i], log_index).seq # 0
    BY <1>4, <1>9, Zenon
  <2> HIDE DEF e, q
  <2> QED BY <1>2, <1>5, <1>9, <2>1, <2>2, FlogGroup, ZenonT(30)
<1>11. log'[i] = h /\ \A j \in Lanes \ {i} : log'[j] = log[j]
  BY <1>2, <1>6, Zenon
<1>12. e.lba = l
  BY Zenon
<1> HIDE DEF e, o, h, q
<1>13. F[i] = e /\ \A j \in Lanes \ {i} : F[j] = Ents[j]
  BY <1>3
<1>14. F = [j \in Lanes |-> F[j]]
  BY <1>3, Zenon
<1> HIDE DEF F, l
<1>15. Ents' = F
  <2>1. Ents'[i] = e /\ \A j \in Lanes \ {i} : Ents'[j] = Ents[j]
    BY <1>1, <1>10, <1>11 DEF Ents, Ent
  <2>2. Ents' = [j \in Lanes |-> Ents'[j]]
    BY DEF Ents
  <2> QED BY <1>13, <1>14, <2>1, <2>2, SMTT(30)
<1>16. Look' = Look
  BY <1>1, SameLook, Zenon
<1>17. Layout(log, log_index)'
  BY <1>1, <1>2, <1>10, <1>11, Zenon DEF Layout
<1> QED BY <1>7, <1>8, <1>10, <1>12, <1>13, <1>15, <1>16, <1>17, Zenon DEF F, l, e, q

LEMMA FlogStep ==
    ASSUME IInv, TypeOK', NEW i \in Lanes, KernelFlog(i)
    PROVE  IInv'
<1> DEFINE l == lanes[i].lba
<1> DEFINE F == [Ents EXCEPT ![i] =
                    [lba |-> l, old_map |-> Look[l], new_map |-> Ents[i].old_map,
                     seq |-> (Ents[i].seq % 3) + 1]]
<1>1. kern = "on" /\ trusted /\ chk.pc = "idle" /\ lanes[i].pc = "data"
         /\ UNCHANGED <<kern, chk, trusted>>
         /\ lanes' = [lanes EXCEPT ![i].pc = "logged"]
  BY Zenon DEF KernelFlog, IInv, KernInv
<1>2. /\ Ents' = F /\ Look' = Look /\ Layout(log, log_index)'
      /\ F[i].seq # 0 /\ F[i].lba = l /\ Good(F, Look) /\ Pend(F, Look, i)
      /\ \A j \in Lanes \ {i} : Pend(F, Look, j) <=> Pend(Ents, Look, j)
      /\ \A j \in Lanes \ {i} : F[j] = Ents[j]
  BY FlogEnts, Zenon
<1> HIDE DEF F
<1>3. Good(Ents, Look)'
  BY <1>2, Zenon
<1>4. MetaInv' /\ CheckInv'
  BY <1>1, <1>2, <1>3 DEF MetaInv, CheckInv
<1>5. /\ lanes'[i].pc = "logged" /\ lanes'[i].lba = l
      /\ \A j \in Lanes \ {i} : lanes'[j] = lanes[j]
  BY <1>1 DEF IInv, TypeOK
<1>6. \A j \in Lanes : Ents'[j].seq # 0
  BY <1>1, <1>2 DEF IInv, KernInv
<1>7. KernInv'
  BY <1>1, <1>2, <1>5, <1>6, SMTT(30) DEF IInv, KernInv
<1> QED BY <1>4, <1>7 DEF IInv

LEMMA OnlineStep == ASSUME IInv, TypeOK', KernelOnline PROVE IInv'
<1>1. kern = "attach" /\ kern' = "on" /\ trusted /\ chk.pc = "idle"
         /\ UNCHANGED <<map, log, log_index, chk, trusted, lanes>>
  BY DEF KernelOnline, IInv, KernInv
<1>2. TypeOK /\ EntsOK(Ents)
  BY <1>1 DEF IInv, MetaInv, Good
<1>3. \A i \in Lanes : ~ Pend(Ents, Look, i)
  BY <1>2, PendingIsPend, Zenon DEF KernelOnline
<1> QED BY <1>1, <1>3, FrameStep, Zenon DEF IInv, MetaInv, KernInv, CheckInv

LEMMA DataStep ==
    ASSUME IInv, TypeOK', NEW i \in Lanes, NEW l \in Lba, NEW v \in Vals,
           KernelData(i, l, v)
    PROVE  IInv'
<1>1. kern = "on" /\ lanes[i].pc = "idle"
         /\ UNCHANGED <<map, log, log_index, kern, chk, trusted>>
         /\ lanes' = [lanes EXCEPT ![i] = [pc |-> "data", lba |-> l]]
  BY DEF KernelData
<1>2. lanes'[i].pc = "data" /\ \A j \in Lanes \ {i} : lanes'[j] = lanes[j]
  BY <1>1, Zenon DEF IInv, TypeOK
<1> QED BY <1>1, <1>2, FrameStep, ZenonT(40) DEF IInv, MetaInv, KernInv, CheckInv

LEMMA OfflineStep == ASSUME IInv, TypeOK', KernelDetach \/ Crash PROVE IInv'
<1>1. kern' = "off" /\ UNCHANGED <<map, log, log_index, trusted>>
  BY DEF KernelDetach, Crash
<1>2. \A i \in Lanes : lanes'[i].pc = "idle"
  BY SMTT(30) DEF KernelDetach, Crash, NoWrite
<1>3. chk'.pc = "idle"
  BY DEF KernelDetach, Crash, NoCheck, IInv, KernInv
<1>4. kern # "off" \/ chk.pc \notin {"idle", "done"}
  BY Zenon DEF KernelDetach, Crash
<1> QED BY <1>1, <1>2, <1>3, FrameStep, Zenon DEF IInv, MetaInv, KernInv, CheckInv

LEMMA FaultStep ==
    ASSUME IInv, TypeOK', Fault \/ RewriteTorn
    PROVE  IInv'
<1>1. kern = "off" /\ kern' = "off" /\ ~ trusted' /\ chk'.pc = "idle"
         /\ lanes' = lanes
  <2>1. kern = "off"
    BY Zenon DEF Fault, RewriteTorn, CheckStep, IInv, KernInv
  <2>2. kern' = kern /\ ~ trusted' /\ lanes' = lanes
    BY Zenon DEF Fault, RewriteTorn, CheckStep
  <2>3. chk' = NoCheck \/ (chk' = chk /\ chk.pc = "idle")
    BY Zenon DEF Fault, RewriteTorn
  <2> QED BY <2>1, <2>2, <2>3 DEF NoCheck
<1>2. MetaInv' /\ CheckInv'
  BY <1>1, Zenon DEF MetaInv, CheckInv
<1>3. KernInv'
  <2>1. \A i \in Lanes : lanes[i].pc = "idle"
    BY <1>1, Zenon DEF IInv, KernInv
  <2>2. \A i \in Lanes : lanes'[i].pc = "idle"
    BY <1>1, <2>1, ZenonT(40)
  <2> QED BY <1>1, <2>2 DEF KernInv
<1> QED BY <1>2, <1>3, Zenon DEF IInv

LEMMA StartStep ==
    ASSUME IInv, TypeOK', NEW repair, NEW logfix, CheckStart(repair, logfix)
    PROVE  IInv'
<1>1. kern = "off" /\ UNCHANGED <<map, log, log_index, kern, lanes, trusted>>
  BY DEF CheckStart
<1>2. chk'.pc \in {"discover", "done"}
  BY Zenon DEF CheckStart, NoCheck
<1> QED BY <1>1, <1>2, FrameStep DEF IInv, MetaInv, KernInv, CheckInv

\* The checker runs only while the driver is away, and leaves it there.
LEMMA CheckerOffline ==
    ASSUME IInv, chk.pc # "idle", UNCHANGED <<kern, lanes>>
    PROVE  KernInv' /\ kern = "off"
  BY SMTT(30) DEF IInv, KernInv

\* A check that ends without BTT_OK, having stored nothing in this step.
LEMMA FailStep ==
    ASSUME IInv, TypeOK', chk.pc # "idle", UNCHANGED <<kern, lanes>>,
           UNCHANGED <<map, log, log_index>>, NEW rc, rc # "BTT_OK", Finish(rc)
    PROVE  IInv'
<1>1. chk'.pc = "done"
  BY DEF Finish, IInv, TypeOK, CheckState
<1>2. trusted' = trusted
  BY Zenon DEF Finish, IInv, TypeOK
<1>3. KernInv'
  BY CheckerOffline, SMTT(30)
<1> QED BY <1>1, <1>2, <1>3, FrameStep DEF IInv, MetaInv, CheckInv

\* A check that goes on without a store to map or log.
LEMMA GotoStep ==
    ASSUME IInv, TypeOK', chk.pc # "idle", UNCHANGED <<kern, lanes>>,
           UNCHANGED <<map, log, log_index, trusted>>, NEW pc, Goto(pc),
           pc = "rewrite" => Layout(log, log_index) /\ Good(Ents, Look),
           pc = "log_entries" => LogIndex(log, log_index),
           pc \in {"map_entries", "log_map", "info2", "bitmap"} =>
              Layout(log, log_index) /\ EntsOK(Ents),
           pc \in {"log_map", "info2", "bitmap"} => \A l \in Lba : Look[l] \in Blocks
    PROVE  IInv'
<1>1. chk'.pc = pc
  BY DEF Goto, IInv, TypeOK, CheckState
<1>2. KernInv'
  BY CheckerOffline
<1> QED BY <1>1, <1>2, FrameStep DEF IInv, MetaInv, CheckInv

LEMMA SetIndicesStep == ASSUME IInv, TypeOK', SetIndices PROVE IInv'
<1>1. chk.pc = "indices" /\ UNCHANGED <<kern, lanes>> /\ UNCHANGED <<map, log>>
  BY Zenon DEF SetIndices, CheckStep, NoStore, media
<1>2. ASSUME NEW s \in Slots, LogIndex(log, s), log_index' = s,
             Goto("log_entries"), UNCHANGED trusted
      PROVE  IInv'
  <2>1. s \in {1, 2} /\ chk'.pc = "log_entries"
    BY <1>2 DEF LogIndex, Goto, IInv, TypeOK, CheckState
  <2>2. LogIndex(log, log_index)'
    <3>1. log' = log /\ log_index' = s
      BY <1>1, <1>2
    <3> QED BY <1>2, <3>1
  <2>3. ASSUME trusted PROVE Layout(log, log_index)' /\ Good(Ents, Look)'
    <3>1. Layout(log, log_index) /\ Good(Ents, Look) /\ log_index \in {1, 2}
             /\ log \in [Lanes -> [Slots -> LogEnt]]
      BY <2>3, SMTT(30) DEF IInv, MetaInv, TypeOK
    <3>2. /\ Layout(log, s)
          /\ \A i \in Lanes : btt_log_read(log[i], s) = btt_log_read(log[i], log_index)
      BY <1>2, <2>1, <3>1, IndexChange, SMTT(30)
    <3>3. Ents' = Ents /\ Look' = Look
      BY <1>1, <1>2, <3>2 DEF Ents, Ent, Look
    <3> QED BY <1>1, <1>2, <3>1, <3>2, <3>3, Zenon
  <2>4. KernInv'
    BY <1>1, CheckerOffline
  <2> QED BY <1>2, <2>1, <2>2, <2>3, <2>4, Zenon DEF IInv, MetaInv, CheckInv
<1>3. CASE Finish("ENXIO") /\ UNCHANGED log_index
  BY <1>1, <1>3, FailStep
<1> QED BY <1>2, <1>3 DEF SetIndices

LEMMA LogEntriesStep == ASSUME IInv, TypeOK', CheckLogEntries PROVE IInv'
<1>1. chk.pc = "log_entries" /\ UNCHANGED <<kern, lanes>>
         /\ UNCHANGED <<map, log, log_index>>
  BY DEF CheckLogEntries, CheckStep, NoStore, media
<1>2. CASE LogEntriesError = "BTT_OK" /\ Goto("map_entries") /\ UNCHANGED trusted
  <2>1. LogIndex(log, log_index) /\ log_index \in {1, 2}
           /\ log \in [Lanes -> [Slots -> LogEnt]]
    BY <1>1, SMTT(30) DEF IInv, CheckInv, TypeOK
  <2>2. \A i \in Lanes :
           /\ log[i][0].seq # log[i][log_index].seq
           /\ ~ (log[i][0].seq > 3) /\ ~ (log[i][log_index].seq > 3)
           /\ ~ (Ent(i).lba >= ExtNlba) /\ ~ (Ent(i).old_map >= InternalNlba)
           /\ ~ (Ent(i).new_map >= InternalNlba)
    BY <1>2 DEF LogEntriesError
  <2>3. \A i \in Lanes : Ent(i) \in LogEnt /\ Ents[i] = Ent(i)
    BY EntType, SMTT(30) DEF IInv
  <2>4. EntsOK(Ents)
    BY <2>2, <2>3, SizesAssumption DEF EntsOK, LogEnt, Lba, Blocks, InternalNlba
  <2>5. \A i \in Lanes : log[i][0].seq \in Nat /\ log[i][log_index].seq \in Nat
    BY <2>1, SMTT(30) DEF LogEnt, Slots
  <2>6. Layout(log, log_index)
    BY <2>1, <2>2, <2>5, IndexLayout
  <2> QED BY <1>1, <1>2, <2>4, <2>6, GotoStep, SMTT(30)
<1>3. CASE LogEntriesError # "BTT_OK" /\ Finish(LogEntriesError)
  BY <1>1, <1>3, FailStep
<1> QED BY <1>2, <1>3 DEF CheckLogEntries

LEMMA MapEntriesStep == ASSUME IInv, TypeOK', CheckMapEntries PROVE IInv'
<1>1. chk.pc = "map_entries" /\ UNCHANGED <<kern, lanes>>
         /\ UNCHANGED <<map, log, log_index>>
  BY DEF CheckMapEntries, CheckStep, NoStore, media
<1>2. CASE MapInBounds /\ Goto("log_map") /\ UNCHANGED trusted
  <2>1. \A l \in Lba : Look[l] \in Nat /\ Look[l] < InternalNlba
    BY <1>2, EntType DEF MapInBounds, IInv
  <2>2. \A l \in Lba : Look[l] \in Blocks
    BY <2>1, SizesAssumption, SMTT(30) DEF Blocks, InternalNlba
  <2>3. Layout(log, log_index) /\ EntsOK(Ents)
    BY <1>1 DEF IInv, CheckInv
  <2> QED BY <1>1, <1>2, <2>2, <2>3, GotoStep, Zenon
<1>3. CASE ~ MapInBounds /\ Finish("BTT_MAP_OOB")
  BY <1>1, <1>3, FailStep
<1> QED BY <1>2, <1>3 DEF CheckMapEntries

LEMMA LogMapStep == ASSUME IInv, TypeOK', CheckLogMap PROVE IInv'
<1> DEFINE i == chk.lane
<1>1. chk.pc = "log_map" /\ UNCHANGED <<kern, lanes>>
         /\ UNCHANGED <<log, log_index, trusted>>
  BY SMTT(30) DEF CheckLogMap, CheckStep
<1>2. i \in Lanes /\ TypeOK /\ chk \in CheckState
  BY SizesAssumption DEF CheckLogMap, IInv, TypeOK, CheckState, Lanes
<1>3. Layout(log, log_index) /\ EntsOK(Ents) /\ \A l \in Lba : Look[l] \in Blocks
  BY <1>1 DEF IInv, CheckInv
<1>4. chk'.pc = "log_map"
  BY <1>1, <1>2, Zenon DEF CheckLogMap, NextLane, CheckState
<1>5. KernInv'
  BY <1>1, CheckerOffline, Zenon
<1>6. CASE UNCHANGED map
  BY <1>1, <1>4, <1>5, <1>6, FrameStep, SMTT(30) DEF IInv, MetaInv, CheckInv
<1>7. CASE Pending(i) /\ RollForward(i)
  <2>1. Ents[i].lba \in Lba /\ Ents[i].new_map \in Blocks
    BY <1>2, <1>3, Zenon DEF EntsOK
  <2>2. Look' = [Look EXCEPT ![Ents[i].lba] = Ents[i].new_map] /\ Look \in [Lba -> Nat]
    BY <1>2, <1>7, <2>1, RollForwardLook, EntType, SMTT(30)
  <2>3. \A l \in Lba : Look'[l] \in Blocks
    BY <1>3, <2>1, <2>2
  <2>4. Ents' = Ents
    BY <1>1, SameEnts
  <2>5. EntsOK(Ents)' /\ Layout(log, log_index)'
    BY <1>1, <1>3, <2>4, SMTT(30)
  <2>6. ASSUME trusted PROVE Good(Ents, Look)'
    <3>1. Good(Ents, Look)
      BY <2>6 DEF IInv, MetaInv
    <3> QED BY <1>1, <1>2, <1>7, <3>1, RollForwardStep
  <2> QED BY <1>1, <1>4, <1>5, <2>3, <2>5, <2>6, Zenon DEF IInv, MetaInv, CheckInv
<1> QED BY <1>6, <1>7, Zenon DEF CheckLogMap

LEMMA BitmapStep == ASSUME IInv, TypeOK', CheckBitmap PROVE IInv'
<1>1. chk.pc = "bitmap" /\ UNCHANGED <<kern, lanes>>
         /\ UNCHANGED <<map, log, log_index>>
  BY DEF CheckBitmap, CheckStep, NoStore, media
<1>2. Layout(log, log_index) /\ EntsOK(Ents) /\ \A l \in Lba : Look[l] \in Blocks
  BY <1>1, Zenon DEF IInv, CheckInv
<1>3. ASSUME BitmapFull PROVE Good(Ents, Look)
  <2>1. /\ \A i \in Lanes : Ents[i] = Ent(i)
        /\ \A l \in Lba : Look[l] = btt_map_lookup(map, l)
    BY EntType, Zenon DEF IInv
  <2>2. /\ {Look[l] : l \in Lba} = {btt_map_lookup(map, l) : l \in Lba}
        /\ {Ents[i].old_map : i \in Lanes} = {Ent(i).old_map : i \in Lanes}
    BY <2>1, Zenon
  <2>3. /\ \A l, k \in Lba : Look[l] = Look[k] => l = k
        /\ \A i \in Lanes : Ents[i].old_map \notin {Look[l] : l \in Lba}
        /\ \A i, j \in Lanes : Ents[i].old_map = Ents[j].old_map => i = j
        /\ {Look[l] : l \in Lba} \cup {Ents[i].old_map : i \in Lanes} = Blocks
    BY <1>3, <2>1, <2>2, SMTT(30) DEF BitmapFull
  <2> QED BY <1>2, <2>3, BitmapGood, Zenon
<1>4. CASE BitmapFull /\ Goto("rewrite") /\ UNCHANGED trusted
  BY <1>1, <1>2, <1>3, <1>4, GotoStep, Zenon
<1>5. CASE BitmapFull /\ Finish("BTT_OK")
  <2>1. chk'.pc = "done" /\ KernInv'
    BY <1>1, <1>5, CheckerOffline, Zenon DEF Finish, IInv, TypeOK, CheckState
  <2> QED BY <1>1, <1>2, <1>3, <1>5, <2>1, FrameStep, Zenon
          DEF IInv, MetaInv, CheckInv
<1>6. CASE Finish("BTT_BITMAP_ERROR")
  BY <1>1, <1>6, FailStep, Zenon
<1> QED BY <1>4, <1>5, <1>6, Zenon DEF CheckBitmap

LEMMA RewriteStep ==
    ASSUME IInv, TypeOK', NEW i \in Lanes, RewriteGroup(i) PROVE IInv'
<1>1. chk.pc = "rewrite" /\ UNCHANGED <<kern, lanes>>
         /\ UNCHANGED <<map, log_index, trusted>>
  BY Zenon DEF RewriteGroup, CheckStep
<1>2. TypeOK /\ chk \in CheckState /\ log_index \in {1, 2}
         /\ log \in [Lanes -> [Slots -> LogEnt]]
  BY DEF IInv, TypeOK
<1>3. Layout(log, log_index) /\ Good(Ents, Look)
  BY <1>1 DEF IInv, MetaInv
<1>4. log'[i] = FreshGroup(i) /\ \A j \in Lanes \ {i} : log'[j] = log[j]
  BY <1>2 DEF RewriteGroup
<1>5. FreshGroup(i) \in [Slots -> LogEnt] /\ Ent(i) \in LogEnt
  BY <1>2, FreshGroupType, EntType
<1>6. /\ GroupOK(FreshGroup(i), log_index)
      /\ btt_log_read(FreshGroup(i), log_index).lba = Ent(i).lba
      /\ btt_log_read(FreshGroup(i), log_index).old_map = Ent(i).old_map
      /\ btt_log_read(FreshGroup(i), log_index).new_map = Ent(i).new_map
  BY <1>2, <1>5, FreshGroupRead, Zenon DEF FreshGroup
<1>7. \A j \in Lanes : /\ Ents'[j].lba = Ents[j].lba
                       /\ Ents'[j].old_map = Ents[j].old_map
                       /\ Ents'[j].new_map = Ents[j].new_map
  BY <1>1, <1>4, <1>6, Zenon DEF Ents, Ent
<1>8. Look' = Look
  BY <1>1, SameLook, SMTT(30)
<1>9. Good(Ents', Look)
  BY <1>3, <1>7, SameGood
<1>10. Good(Ents, Look)'
  BY <1>8, <1>9, Zenon
<1>11. Layout(log, log_index)'
  BY <1>1, <1>3, <1>4, <1>6, SMTT(30) DEF Layout
<1>12. chk'.pc = "rewrite" /\ KernInv'
  BY <1>1, <1>2, CheckerOffline DEF RewriteGroup
<1> QED BY <1>10, <1>11, <1>12, Zenon DEF IInv, MetaInv, CheckInv

LEMMA OtherCheckerStep ==
    ASSUME IInv, TypeOK',
           Discover \/ CheckLogMapDone \/ CheckInfo2 \/ RewriteDone \/ Sigbus
    PROVE  IInv'
<1>1. CASE Discover
  <2>1. chk.pc = "discover" /\ UNCHANGED <<kern, lanes>>
           /\ UNCHANGED <<map, log, log_index>>
    BY <1>1, Zenon DEF Discover, CheckStep
  <2>2. CASE Goto("indices") /\ UNCHANGED trusted
    BY <2>1, <2>2, GotoStep, Zenon
  <2>3. CASE Finish("EIO") \/ Finish("ENXIO")
    BY <2>1, <2>3, FailStep, SMTT(30)
  <2> QED BY <1>1, <2>2, <2>3, SMTT(30) DEF Discover
<1>2. CASE CheckLogMapDone
  <2>1. chk.pc = "log_map" /\ UNCHANGED <<kern, lanes>>
           /\ UNCHANGED <<map, log, log_index>>
    BY <1>2, ZenonT(40) DEF CheckLogMapDone, CheckStep, NoStore, media
  <2>2. CASE Goto("info2") /\ UNCHANGED trusted
    BY <2>1, <2>2, GotoStep DEF IInv, CheckInv
  <2>3. CASE Finish("BTT_LOG_MAP_ERR")
    BY <2>1, <2>3, FailStep, Zenon
  <2> QED BY <1>2, <2>2, <2>3, SMTT(30) DEF CheckLogMapDone
<1>3. CASE CheckInfo2
  <2>1. chk.pc = "info2" /\ UNCHANGED <<kern, lanes>>
           /\ UNCHANGED <<map, log, log_index>>
    BY <1>3, ZenonT(40) DEF CheckInfo2, CheckStep
  <2>2. CASE Goto("bitmap") /\ UNCHANGED trusted
    BY <2>1, <2>2, GotoStep DEF IInv, CheckInv
  <2>3. CASE Finish("EIO")
    BY <2>1, <2>3, FailStep, Zenon
  <2> QED BY <1>3, <2>2, <2>3, Zenon DEF CheckInfo2
<1>4. CASE RewriteDone
  <2>1. chk.pc = "rewrite" /\ UNCHANGED <<kern, lanes>> /\ Finish("BTT_OK")
           /\ UNCHANGED <<map, log, log_index>>
    BY <1>4 DEF RewriteDone, CheckStep, NoStore, media
  <2>2. chk'.pc = "done" /\ KernInv'
    BY <2>1, CheckerOffline, SMTT(30) DEF Finish, IInv, TypeOK, CheckState
  <2> QED BY <2>1, <2>2, FrameStep, Zenon DEF IInv, MetaInv, CheckInv
<1>5. CASE Sigbus
  <2>1. chk.pc # "idle" /\ UNCHANGED <<kern, lanes>> /\ Finish("EFAULT")
           /\ UNCHANGED <<map, log, log_index>>
    BY <1>5 DEF Sigbus
  <2> QED BY <2>1, FailStep, Zenon
<1> QED BY <1>1, <1>2, <1>3, <1>4, <1>5, Zenon

LEMMA InductiveStep == IInv /\ [Next]_vars => IInv'
<1> SUFFICES ASSUME IInv, [Next]_vars PROVE IInv'
  OBVIOUS
<1>1. TypeOK'
  BY TypeStep, Zenon DEF IInv
<1>2. CASE Kernel
  BY Zenon, <1>1, <1>2, AttachStep, RecoverStep, FlogStep, MapStep, DataStep, OnlineStep,
     OfflineStep DEF Kernel
<1>3. CASE Checker
  BY SMTT(30), <1>1, <1>3, SetIndicesStep, LogEntriesStep, MapEntriesStep, LogMapStep,
     BitmapStep, RewriteStep, OtherCheckerStep DEF Checker, RewriteLog
<1>4. CASE \E repair, logfix \in BOOLEAN : CheckStart(repair, logfix)
  BY <1>1, <1>4, StartStep
<1>5. CASE Crash \/ Sigbus \/ RewriteTorn
  BY <1>1, <1>5, OfflineStep, OtherCheckerStep, FaultStep
<1>6. CASE Scribble
  BY <1>1, <1>6, FaultStep, Zenon DEF Scribble, ScribbleMap, ScribbleLog, WipeInfo
<1>7. CASE UNCHANGED vars
  <2>1. UNCHANGED <<map, log, log_index>> /\ UNCHANGED <<kern, lanes, chk, trusted>>
    BY <1>7 DEF vars
  <2> QED BY <1>1, <2>1, FrameStep, Zenon DEF IInv, MetaInv, KernInv, CheckInv
<1> QED BY <1>2, <1>3, <1>4, <1>5, <1>6, <1>7 DEF Next

LEMMA InductiveInit == Init => IInv
<1> SUFFICES ASSUME Init PROVE IInv
  BY Zenon
<1>1. TypeOK
  BY TypeInit
<1> DEFINE e(i) == [lba |-> i, old_map |-> ExtNlba + i,
                    new_map |-> ExtNlba + i, seq |-> 1]
<1> DEFINE g(i) == [j \in Slots |-> IF j = 0 THEN e(i) ELSE Pad]
<1>2. \A i \in Lanes : log[i] = g(i)
  <2>1. log = [i \in Lanes |-> g(i)]
    BY Zenon DEF Init
  <2> HIDE DEF g
  <2> QED BY <2>1, Zenon
<1>3. log_index = 1 /\ 0 \in Slots /\ 1 \in Slots \ {0} /\ Pad.seq = 0
  BY SMTT(30) DEF Init, Slots, Pad
<1>4. ASSUME NEW i \in Lanes
      PROVE  /\ log[i][0] = e(i) /\ log[i][0].seq = 1 /\ log[i][1].seq = 0
             /\ \A j \in Slots \ {0} : log[i][j] = Pad
  <2>1. e(i).seq = 1
    BY Zenon
  <2> HIDE DEF e
  <2>2. log[i] = g(i)
    BY <1>2
  <2>3. \A j \in Slots : log[i][j] = IF j = 0 THEN e(i) ELSE Pad
    BY <2>2
  <2>4. log[i][0] = e(i)
    BY <1>3, <2>3, Zenon
  <2>5. \A j \in Slots \ {0} : log[i][j] = Pad
    BY <2>3
  <2> QED BY <1>3, <2>1, <2>4, <2>5, Zenon
<1>5. Layout(log, log_index)
  <2>1. ASSUME NEW i \in Lanes PROVE GroupOK(log[i], 1)
    <3>1. log[i][0].seq = 1 /\ log[i][1].seq = 0
             /\ \A j \in Slots \ {0} : log[i][j] = Pad
      BY <1>4, Zenon
    <3> QED BY <3>1 DEF GroupOK
  <2> QED BY <1>3, <2>1, SMTT(30) DEF Layout
<1>6. ASSUME NEW i \in Lanes PROVE Ents[i] = e(i)
  <2>1. log[i][0].seq = 1 /\ log[i][1].seq = 0 /\ log[i][0] = e(i)
    BY <1>4, ZenonT(30)
  <2>2. btt_log_get_old(log[i], 1) = 1
    BY <2>1, SMTT(30) DEF btt_log_get_old
  <2>3. Ent(i) = log[i][0]
    BY <1>3, <2>2, SMTT(30) DEF Ent, btt_log_read
  <2> HIDE DEF e
  <2> QED BY <1>1, <2>1, <2>3, EntType
<1>7. ASSUME NEW i \in Lanes
      PROVE  Ents[i].lba = i /\ Ents[i].old_map = ExtNlba + i
                /\ Ents[i].new_map = ExtNlba + i /\ Ents[i].seq = 1
  <2>1. e(i).lba = i /\ e(i).old_map = ExtNlba + i
           /\ e(i).new_map = ExtNlba + i /\ e(i).seq = 1
    OBVIOUS
  <2>2. Ents[i] = e(i)
    BY <1>6, Zenon
  <2> HIDE DEF e
  <2> QED BY <2>1, <2>2, Zenon
<1>8. \A l \in Lba : Look[l] = l
  BY Zenon DEF Init, Look, btt_map_lookup
<1>9. EntsOK(Ents)
  BY <1>7, SizesAssumption DEF EntsOK, Lanes, Lba, Blocks, InternalNlba
<1>10. \A l \in Lba : Look[l] \in Blocks
  BY <1>8, SizesAssumption, SMTT(30) DEF Lba, Blocks, InternalNlba
<1>11. \A i \in Lanes : Ents[i].old_map \notin {Look[l] : l \in Lba}
  BY <1>7, <1>8, SizesAssumption, SMTT(30) DEF Lanes, Lba
<1>12. \A i, j \in Lanes : Ents[i].old_map = Ents[j].old_map => i = j
  BY <1>7, SizesAssumption, SMTT(30) DEF Lanes
<1>13. {Look[l] : l \in Lba} \cup {Ents[i].old_map : i \in Lanes} = Blocks
  <2>1. ASSUME NEW b \in Blocks
        PROVE  b \in {Look[l] : l \in Lba} \cup {Ents[i].old_map : i \in Lanes}
    <3>1. CASE b < ExtNlba
      BY <1>8, <3>1, SizesAssumption, SMTT(30) DEF Blocks, Lba, InternalNlba
    <3>2. CASE b >= ExtNlba
      <4>1. b - ExtNlba \in Lanes /\ ExtNlba + (b - ExtNlba) = b
        BY <3>2, SizesAssumption, SMTT(30) DEF Blocks, Lanes, InternalNlba
      <4> QED BY <1>7, <4>1
    <3> QED BY <3>1, <3>2, SizesAssumption, SMTT(30) DEF Blocks, InternalNlba
  <2> QED BY <1>9, <1>10, <2>1, Zenon DEF EntsOK
<1>14. Good(Ents, Look)
  <2>1. \A l, k \in Lba : Look[l] = Look[k] => l = k
    BY <1>8, Zenon
  <2> QED BY <1>9, <1>10, <1>11, <1>12, <1>13, <2>1, BitmapGood, Zenon
<1>15. MetaInv /\ CheckInv
  BY <1>5, <1>14, ZenonT(40) DEF MetaInv, CheckInv, Init, NoCheck
<1>16. KernInv
  BY Zenon DEF Init, KernInv, NoWrite
<1> QED BY <1>1, <1>15, <1>16 DEF IInv

\* Trusted metadata is a partition of the internal blocks, for every size of
\* the arena and every sequence of writes, power failures, media faults,
\* repairs and log rewrites: what btt_check_arenas() passes is safe to use.
THEOREM TrustedIsPartition == Spec => []TrustedPartition
<1>1. IInv => TrustedPartition
  BY GoodIsPartition DEF IInv, MetaInv, TrustedPartition
<1> QED BY <1>1, InductiveInit, InductiveStep, PTL DEF Spec

\* What btt_check_log_map() would take for an interrupted write is, at any
\* time, what the driver has logged and not yet stored in the map.
THEOREM PendingAreLogged == Spec => []PendingIsLogged
<1>1. ASSUME IInv PROVE PendingIsLogged
  <2>1. SUFFICES ASSUME kern = "on", NEW i \in Lanes
                 PROVE  /\ Pending(i) <=> lanes[i].pc = "logged"
                        /\ Pending(i) => Ent(i).lba = lanes[i].lba
    BY Zenon DEF PendingIsLogged
  <2>2. TypeOK /\ EntsOK(Ents)
    BY <1>1, <2>1, Zenon DEF IInv, KernInv, MetaInv, Good
  <2>3. (Pending(i) <=> Pend(Ents, Look, i)) /\ Ents[i] = Ent(i)
    BY <2>2, PendingIsPend, EntType, Zenon
  <2>4. /\ lanes[i].pc = "logged" <=> Pend(Ents, Look, i)
        /\ lanes[i].pc = "logged" => Ents[i].lba = lanes[i].lba
    BY <1>1, <2>1, ZenonT(40) DEF IInv, KernInv
  <2> QED BY <2>3, <2>4, Zenon
<1> QED BY <1>1, InductiveInit, InductiveStep, PTL DEF Spec

-----------------------------------------------------------------------------
(***************************************************************************)
(* What --repair does and what its absence rules out, for any number of    *)
(* blocks, lanes, writes and faults.  RepairInv is the invariant: what the *)
(* stages of namespace_check() have already put right by the time a later  *)
(* stage runs.  It rests on the invariant IInv of BttArenaProofs, which    *)
(* keeps the driver away from a checked arena and log entries in bounds.   *)
(***************************************************************************)

NoPending == \A i \in Lanes : ~ Pending(i)

Opened == {"indices", "log_entries", "map_entries", "log_map", "info2",
           "bitmap", "rewrite"}

RepairInv ==
    /\ chk.pc \in {"discover"} \cup Opened /\ chk.logfix => chk.repair
    /\ chk.pc \in Opened /\ chk.repair => info
    /\ chk.pc \in {"bitmap", "rewrite"} /\ chk.repair => info2
    /\ chk.pc = "rewrite" => NoPending /\ chk.logfix
    /\ chk.pc = "done" /\ chk.rc = "BTT_OK" =>
          NoPending /\ (chk.repair => info /\ info2)

\* A full bitmap leaves no write pending: the block a pending entry would
\* replace is still mapped, and is the lane's free block at the same time.
LEMMA FullIsSettled ==
    ASSUME IInv, chk.pc = "bitmap", BitmapFull
    PROVE  NoPending
<1> SUFFICES ASSUME NEW i \in Lanes PROVE ~ Pending(i)
  BY DEF NoPending
<1>1. Ent(i).lba \in Lba
  BY EntType, Zenon DEF IInv, CheckInv, EntsOK
<1>2. Ent(i).old_map \notin {btt_map_lookup(map, l) : l \in Lba}
  BY ZenonT(40) DEF BitmapFull
<1> QED BY <1>1, <1>2 DEF Pending

LEMMA SamePending ==
    ASSUME UNCHANGED <<map, log, log_index>> PROVE NoPending' = NoPending
  BY Zenon DEF NoPending, Pending, Ent

\* A rewritten log names the same blocks, so it has the same pending writes.
LEMMA RewriteSettled ==
    ASSUME IInv, NEW i \in Lanes, RewriteGroup(i), NoPending PROVE NoPending'
<1>1. TypeOK /\ log_index \in {1, 2} /\ log \in [Lanes -> [Slots -> LogEnt]]
  BY DEF IInv, TypeOK
<1>2. log'[i] = FreshGroup(i) /\ \A j \in Lanes \ {i} : log'[j] = log[j]
  BY <1>1, Zenon DEF RewriteGroup
<1>3. FreshGroup(i) \in [Slots -> LogEnt] /\ Ent(i) \in LogEnt
  BY <1>1, FreshGroupType, EntType
<1>4. /\ btt_log_read(FreshGroup(i), log_index).lba = Ent(i).lba
      /\ btt_log_read(FreshGroup(i), log_index).old_map = Ent(i).old_map
      /\ btt_log_read(FreshGroup(i), log_index).new_map = Ent(i).new_map
  BY <1>1, <1>3, FreshGroupRead, ZenonT(30) DEF FreshGroup
<1>5. map' = map /\ log_index' = log_index
  BY DEF RewriteGroup
<1>6. \A j \in Lanes : /\ Ent(j)'.lba = Ent(j).lba
                       /\ Ent(j)'.old_map = Ent(j).old_map
                       /\ Ent(j)'.new_map = Ent(j).new_map
  BY <1>2, <1>4, <1>5, SMTT(30) DEF Ent
<1> QED BY <1>5, <1>6, SMTT(30) DEF NoPending, Pending

\* Nothing but the checker acts on an arena that is being checked.
LEMMA Alone ==
    ASSUME IInv, Kernel, chk.pc # "idle"
    PROVE  chk'.pc = "idle" /\ UNCHANGED media
<1>1. kern = "off"
  BY DEF IInv, KernInv
<1> QED BY <1>1, SMTT(30)
        DEF Kernel, KernelAttach, KernelRecover, KernelFlog, KernelMap,
           KernelData, KernelOnline, KernelDetach, NoCheck, media

LEMMA KernelIdle == ASSUME IInv, Kernel PROVE chk'.pc = "idle"
<1>1. CASE chk.pc # "idle"
  BY <1>1, Alone
<1>2. CASE chk.pc = "idle"
  <2>1. CASE \E s \in {1, 2} : KernelAttach(s)
    BY <2>1 DEF KernelAttach, NoCheck
  <2>2. CASE \E i \in Lanes : KernelRecover(i) \/ KernelFlog(i) \/ KernelMap(i)
    BY <1>2, <2>2, Zenon DEF KernelRecover, KernelFlog, KernelMap
  <2>3. CASE \E i \in Lanes, l \in Lba, v \in Vals : KernelData(i, l, v)
    BY <1>2, <2>3, Zenon DEF KernelData
  <2>4. CASE KernelOnline \/ KernelDetach
    BY <1>2, <2>4 DEF KernelOnline, KernelDetach
  <2> QED BY <2>1, <2>2, <2>3, <2>4, SMTT(30) DEF Kernel
<1> QED BY <1>1, <1>2

\* How the two ends of a stage change the checker's record.
LEMMA GotoChk ==
    ASSUME TypeOK, NEW pc, Goto(pc)
    PROVE  /\ chk'.pc = pc /\ chk'.repair = chk.repair
           /\ chk'.logfix = chk.logfix
  BY DEF Goto, TypeOK, CheckState

LEMMA FinishChk ==
    ASSUME TypeOK, NEW rc, Finish(rc)
    PROVE  /\ chk'.pc = "done" /\ chk'.repair = chk.repair
           /\ chk'.rc = rc
  BY DEF Finish, TypeOK, CheckState

LEMMA NextLaneChk ==
    ASSUME TypeOK, NEW saved, NextLane(saved)
    PROVE  /\ chk'.pc = chk.pc /\ chk'.repair = chk.repair
           /\ chk'.logfix = chk.logfix
  BY DEF NextLane, TypeOK, CheckState

\* A stage that fails leaves nothing to say.
LEMMA FailedRepair ==
    ASSUME TypeOK, NEW rc, rc # "BTT_OK", Finish(rc) PROVE RepairInv'
<1>1. chk'.pc = "done" /\ chk'.rc # "BTT_OK"
  BY FinishChk
<1> QED BY <1>1, SMTT(30) DEF RepairInv, Opened

LEMMA CheckerRepair == ASSUME IInv, RepairInv, Checker PROVE RepairInv'
<1>0. TypeOK /\ info \in BOOLEAN /\ info2 \in BOOLEAN
  BY Zenon DEF IInv, TypeOK
<1>1. CASE Discover
  <2>1. chk.pc = "discover"
    BY <1>1, Zenon DEF Discover, CheckStep
  <2>2. CASE info' /\ Goto("indices")
    BY <1>0, <2>1, <2>2, GotoChk, SMTT(30) DEF RepairInv, Opened
  <2>3. CASE Finish("EIO") \/ Finish("ENXIO")
    BY <1>0, <2>3, FailedRepair, Zenon
  <2> QED BY <1>1, <2>2, <2>3, SMTT(30) DEF Discover
<1>2. CASE SetIndices \/ CheckLogEntries \/ CheckMapEntries \/ CheckLogMapDone
  <2>1. chk.pc \in {"indices", "log_entries", "map_entries", "log_map"}
           /\ info' = info
    BY <1>2, Zenon DEF SetIndices, CheckLogEntries, CheckMapEntries, CheckLogMapDone,
       CheckStep, NoStore, media
  <2>2. CASE \E pc \in {"log_entries", "map_entries", "log_map", "info2"} : Goto(pc)
    BY <1>0, <2>1, <2>2, GotoChk, SMTT(30) DEF RepairInv, Opened
  <2>3. CASE \E rc \in CheckCodes \ {"BTT_OK"} : Finish(rc)
    BY <1>0, <2>3, FailedRepair
  <2>4. LogEntriesError \in CheckCodes
    BY LogEntriesErrorType, SMTT(30) DEF CheckCodes
  <2> QED BY <1>2, <2>2, <2>3, <2>4, Zenon DEF SetIndices, CheckLogEntries,
          CheckMapEntries, CheckLogMapDone, CheckCodes
<1>3. CASE CheckLogMap
  <2>1. chk.pc = "log_map" /\ info' = info /\ \E saved : NextLane(saved)
    BY <1>3, Zenon DEF CheckLogMap, CheckStep
  <2> QED BY <1>0, <2>1, NextLaneChk DEF RepairInv, Opened
<1>4. CASE CheckInfo2
  <2>1. chk.pc = "info2" /\ info' = info
    BY <1>4, Zenon DEF CheckInfo2, CheckStep
  <2>2. CASE Goto("bitmap") /\ (chk.repair => info2')
    BY <1>0, <2>1, <2>2, GotoChk DEF RepairInv, Opened
  <2>3. CASE Finish("EIO")
    BY <1>0, <2>3, FailedRepair
  <2> QED BY <1>4, <2>2, <2>3, ZenonT(30) DEF CheckInfo2
<1>5. CASE CheckBitmap
  <2>1. chk.pc = "bitmap" /\ UNCHANGED <<map, log, log_index>>
           /\ info' = info /\ info2' = info2
    BY <1>5 DEF CheckBitmap, CheckStep, NoStore, media
  <2>2. CASE BitmapFull
    <3>1. NoPending'
      BY <2>1, <2>2, FullIsSettled, SamePending
    <3>2. CASE chk.logfix /\ Goto("rewrite")
      BY <1>0, <2>1, <3>1, <3>2, GotoChk, Zenon DEF RepairInv, Opened
    <3>3. CASE Finish("BTT_OK")
      BY <1>0, <2>1, <3>1, <3>3, FinishChk DEF RepairInv, Opened
    <3> QED BY <1>5, <2>2, <3>2, <3>3 DEF CheckBitmap
  <2>3. CASE ~ BitmapFull
    BY <1>0, <1>5, <2>3, FailedRepair, Zenon DEF CheckBitmap
  <2> QED BY <2>2, <2>3
<1>6. CASE RewriteLog
  <2>1. chk.pc = "rewrite" /\ info' = info /\ info2' = info2 /\ chk' = chk
    BY <1>6, Zenon DEF RewriteLog, RewriteGroup, CheckStep
  <2>2. NoPending'
    BY <1>6, <2>1, RewriteSettled, Zenon DEF RewriteLog, RepairInv
  <2> QED BY <2>1, <2>2, Zenon DEF RepairInv, Opened
<1>7. CASE RewriteDone
  <2>1. chk.pc = "rewrite" /\ UNCHANGED <<map, log, log_index>>
           /\ info' = info /\ info2' = info2 /\ Finish("BTT_OK")
    BY <1>7 DEF RewriteDone, CheckStep, NoStore, media
  <2> QED BY <1>0, <2>1, FinishChk, SamePending, Zenon DEF RepairInv, Opened
<1> QED BY <1>1, <1>2, <1>3, <1>4, <1>5, <1>6, <1>7, Zenon DEF Checker

LEMMA RepairStep == IInv /\ RepairInv /\ [Next]_vars => RepairInv'
<1> SUFFICES ASSUME IInv, RepairInv, [Next]_vars PROVE RepairInv'
  BY Zenon
<1>1. ASSUME chk'.pc = "idle" PROVE RepairInv'
  BY <1>1 DEF RepairInv, Opened
<1>2. CASE Kernel
  BY <1>1, <1>2, KernelIdle
<1>3. CASE Checker
  BY <1>3, CheckerRepair, Zenon
<1>4. ASSUME NEW repair \in BOOLEAN, NEW logfix \in BOOLEAN,
             CheckStart(repair, logfix)
      PROVE  RepairInv'
  <2>1. /\ chk'.pc = IF logfix /\ ~repair THEN "done" ELSE "discover"
        /\ chk'.rc # "BTT_OK"
        /\ chk'.repair = repair /\ chk'.logfix = logfix
    BY <1>4, Zenon DEF CheckStart, NoCheck
  <2> QED BY <2>1 DEF RepairInv, Opened
<1>5. CASE Crash \/ RewriteTorn
  <2>1. chk' = NoCheck
    BY <1>5, Zenon DEF Crash, RewriteTorn
  <2> QED BY <1>1, <2>1 DEF NoCheck
<1>6. CASE Sigbus
  BY <1>6, FailedRepair, Zenon DEF Sigbus, IInv
<1>7. CASE Scribble
  BY <1>1, <1>7, Zenon DEF Scribble, ScribbleMap, ScribbleLog, WipeInfo, Fault
<1>8. CASE UNCHANGED vars
  <2>1. UNCHANGED <<map, log, log_index>> /\ UNCHANGED <<chk, info, info2>>
    BY <1>8, SMTT(30) DEF vars
  <2> QED BY <2>1, SamePending, Zenon DEF RepairInv
<1> QED BY <1>2, <1>3, <1>4, <1>5, <1>6, <1>7, <1>8, SMTT(30) DEF Next

LEMMA RepairInit == Init => RepairInv
  BY DEF Init, NoCheck, RepairInv, Opened

\* A repair that reports success has repaired everything, whatever faults it
\* met: no write is pending and both info blocks are good, for every arena.
THEOREM RepairIsComplete == Spec => []RepairedNeedsNoRepair
<1>1. RepairInv => RepairedNeedsNoRepair
  BY DEF RepairInv, RepairedNeedsNoRepair, NoPending
<1> QED BY <1>1, InductiveInit, InductiveStep, RepairInit, RepairStep, PTL DEF Spec

\* Without --repair nothing on the media changes between the start of
\* namespace_check() and its end: every store is behind repair_msg(), the
\* driver is away, and the rewrite of the log is refused without --repair.
THEOREM NoRepairNoStore == Spec => CheckOnlyReads
<1>1. ASSUME IInv, RepairInv, [Next]_vars,
             chk.pc \notin {"idle", "done"}, ~ chk.repair
      PROVE  UNCHANGED media
  <2>0. info2 \in BOOLEAN /\ chk.pc \in CheckPcs
    BY <1>1, Zenon DEF IInv, TypeOK, CheckState
  <2>1. chk.pc # "rewrite"
    BY <1>1 DEF RepairInv, Opened, IInv
  <2>2. CASE Kernel
    BY <1>1, <2>2, Alone, Zenon
  <2>3. CASE Checker
    <3>1. CASE Discover
      <4>0. info' = info \/ info' \in {info, info \/ (info2 /\ chk.repair)}
        BY <1>1, <3>1, Zenon DEF Discover
      <4>1. info' = info
        BY <1>1, <2>0, <4>0, Zenon DEF IInv, TypeOK
      <4> QED BY <3>1, <4>1, Zenon DEF Discover, media
    <3>2. CASE CheckLogMap
      BY <1>1, <3>2, Zenon DEF CheckLogMap, media
    <3>3. CASE CheckInfo2
      BY <1>1, <2>0, <3>3, ZenonT(30) DEF CheckInfo2, media
    <3>4. CASE RewriteLog
      BY <2>1, <3>4, Zenon DEF RewriteLog, RewriteGroup, CheckStep
    <3>5. CASE SetIndices \/ CheckLogEntries \/ CheckMapEntries \/ CheckLogMapDone
                  \/ CheckBitmap \/ RewriteDone
      BY <3>5, Zenon DEF SetIndices, CheckLogEntries, CheckMapEntries,
         CheckLogMapDone, CheckBitmap, RewriteDone, NoStore
    <3> QED BY <2>3, <3>1, <3>2, <3>3, <3>4, <3>5, Zenon DEF Checker
  <2>4. CASE Next /\ ~Kernel /\ ~Checker
    BY <1>1, <2>1, <2>4, Zenon DEF Next, CheckStart, Crash, Sigbus, RewriteTorn,
       Scribble, ScribbleMap, ScribbleLog, WipeInfo, Fault, CheckStep, media
  <2>5. CASE UNCHANGED vars
    BY <2>5 DEF vars, media
  <2> QED BY <1>1, <2>2, <2>3, <2>4, <2>5, SMTT(30)
<1> QED BY <1>1, InductiveInit, InductiveStep, RepairInit, RepairStep, PTL
        DEF Spec, CheckOnlyReads

-----------------------------------------------------------------------------
(***************************************************************************)
(* Recovery from power failures, for any number of blocks, lanes and       *)
(* writes: with no fault of the media, a check with --repair returns       *)
(* BTT_OK whatever instant the power failed at, the driver's or an earlier *)
(* check's.  RecoverInv says what an arena without faults looks like; the  *)
(* lemmas say that each stage of btt_check_arenas() passes it.             *)
(***************************************************************************)

\* The first of a set of lanes exists.
LEMMA LeastNatural ==
    ASSUME NEW S \in SUBSET Nat, S # {}
    PROVE  \E n \in S : \A m \in S : n <= m
<1> DEFINE R == {ss \in Nat \X Nat : ss[1] < ss[2]}
<1>1. IsWellFoundedOn(R, Nat)
  BY NatLessThanWellFounded DEF OpToRel
<1>2. \A m, n \in Nat : m < n => <<m, n>> \in R
  OBVIOUS
<1> HIDE DEF R
<1>3. PICK n \in S : \A m \in S : ~ (<<m, n>> \in R)
  BY <1>1, WFMin, Zenon
<1>4. \A m \in S : ~ (m < n)
  BY <1>2, <1>3, Zenon
<1>5. \A m \in S : n <= m
  BY <1>4, SMTT(30)
<1> QED BY <1>5

\* The log of an arena without faults has its first entry in slot 0 of the
\* first lane and one other slot at most: log_set_indices() succeeds.
LEMMA IndexExists ==
    ASSUME NEW lg \in [Lanes -> [Slots -> LogEnt]], NEW s \in {1, 2},
           Layout(lg, s), \A i \in Lanes : lg[i][0].seq # 0
    PROVE  \E t \in {1, 2} : LogIndex(lg, t)
<1> DEFINE valid == Valid(lg)
<1> DEFINE others == {p \in valid : p[2] # 0}
<1>1. \A i \in Lanes : <<i, 0>> \in valid
  BY DEF Valid, ent_is_padding, Pad, Slots
<1>2. \A p \in valid : p \in Lanes \X Slots
  BY Zenon DEF Valid
<1>3. \A p \in others : p[1] \in Lanes /\ p[2] = s /\ p = <<p[1], s>>
  BY DEF Valid, Layout, GroupOK, Slots, ent_is_padding
<1>4. \E p0 \in valid : FirstIn(p0, valid) /\ p0[2] = 0
  <2>1. <<0, 0>> \in valid
    BY <1>1, SizesAssumption, SMTT(30) DEF Lanes
  <2>2. ASSUME NEW q \in valid PROVE q = <<0, 0>> \/ Before(<<0, 0>>, q)
    <3>1. PICK i \in Lanes, j \in Slots : q = <<i, j>>
      BY <1>2
    <3> QED BY <3>1, SizesAssumption, SMTT(30) DEF Before, Lanes, Slots
  <2>3. FirstIn(<<0, 0>>, valid)
    BY <2>1, <2>2 DEF FirstIn
  <2> QED BY <2>1, <2>3, Zenon
<1>5. CASE others = {}
  <2>1. LogIndex(lg, 1)
    BY <1>4, <1>5, Zenon DEF LogIndex
  <2> QED BY <2>1, Zenon
<1>6. CASE others # {}
  <2> DEFINE I == {p[1] : p \in others}
  <2>1. I \in SUBSET Nat /\ I # {}
    BY <1>3, <1>6, SMTT(30) DEF Lanes
  <2>2. PICK n \in I : \A m \in I : n <= m
    BY <2>1, LeastNatural, Zenon
  <2>3. n \in Lanes /\ <<n, s>> \in others /\ <<n, s>>[2] = s
    BY <1>3, Zenon
  <2>4. FirstIn(<<n, s>>, others)
    <3>1. ASSUME NEW q \in others PROVE q = <<n, s>> \/ Before(<<n, s>>, q)
      <4>1. q = <<q[1], s>> /\ q[1] \in Nat /\ n <= q[1]
        BY <1>3, <2>2, SMTT(30) DEF Lanes
      <4> QED BY <2>3, <4>1, SMTT(30) DEF Before, Lanes
    <3> QED BY <2>3, <3>1, Zenon DEF FirstIn
  <2>5. ASSUME NEW q \in Lanes \X Slots
        PROVE  /\ q[2] = 0 => q \in valid
               /\ q[2] \notin {0, s} => q \notin valid
    <3>1. q = <<q[1], q[2]>> /\ q[1] \in Lanes
      BY SMTT(30)
    <3>2. q[2] = 0 => q \in valid
      BY <1>1, <3>1, Zenon
    <3> QED BY <1>3, <3>2, Zenon
  <2> DEFINE t == IF \A i \in Lanes : Unused(lg, i, <<n, s>>) THEN 1 ELSE s
  <2>6. t \in {1, 2}
    BY Zenon
  <2> HIDE DEF t
  <2>7. LogIndex(lg, t)
    <3> HIDE DEF I
    <3>1. t = IF \A i \in Lanes : Unused(lg, i, <<n, s>>) THEN 1 ELSE <<n, s>>[2]
      BY <2>3 DEF t
    <3> QED BY <1>4, <2>3, <2>4, <2>5, <2>6, <3>1, Zenon DEF LogIndex
  <2> QED BY <2>6, <2>7, Zenon
<1> QED BY <1>5, <1>6, Zenon

\* btt_check_log_entries() and btt_check_map_entries() pass good metadata.
LEMMA GoodPasses ==
    ASSUME TypeOK, Layout(log, log_index), Good(Ents, Look)
    PROVE  LogEntriesError = "BTT_OK" /\ MapInBounds
<1>1. EntsOK(Ents) /\ \A l \in Lba : Look[l] \in Blocks
  BY DEF Good
<1>2. \A i \in Lanes : Ents[i] = Ent(i) /\ Ent(i) \in LogEnt
  BY EntType
<1>3. \A l \in Lba : Look[l] = btt_map_lookup(map, l)
  BY EntType, Zenon
<1>4. MapInBounds
  BY <1>1, <1>3, SizesAssumption, SMTT(30) DEF MapInBounds, Blocks, InternalNlba
<1>5. \A i \in Lanes : /\ Ent(i).lba < ExtNlba
                       /\ Ent(i).old_map < InternalNlba
                       /\ Ent(i).new_map < InternalNlba
  BY <1>1, <1>2, SizesAssumption, SMTT(30) DEF EntsOK, Lba, Blocks, InternalNlba
<1>6. \A i \in Lanes : ~ (/\ Ent(i).lba < ExtNlba
                          /\ Ent(i).old_map < InternalNlba
                          /\ Ent(i).new_map < InternalNlba)
                       <=> \/ Ent(i).lba >= ExtNlba
                           \/ Ent(i).old_map >= InternalNlba
                           \/ Ent(i).new_map >= InternalNlba
  BY <1>2, SizesAssumption, SMTT(30) DEF LogEnt, InternalNlba
<1>7. \A i \in Lanes : /\ log[i][0].seq # log[i][log_index].seq
                       /\ ~ (log[i][0].seq > 3) /\ ~ (log[i][log_index].seq > 3)
  <2>1. \A i \in Lanes : log[i][0].seq \in Nat /\ log[i][log_index].seq \in Nat
    BY SMTT(30) DEF TypeOK, LogEnt, Slots
  <2> QED BY <2>1, SMTT(30) DEF Layout, GroupOK
<1> QED BY <1>4, <1>5, <1>6, <1>7, Zenon DEF LogEntriesError

\* btt_check_bitmap() passes good metadata with nothing left pending.
LEMMA GoodIsFull ==
    ASSUME TypeOK, Good(Ents, Look), NoPending
    PROVE  BitmapFull
<1>1. EntsOK(Ents)
  BY Zenon DEF Good
<1>2. \A i \in Lanes : Ents[i] = Ent(i) /\ Free(Ents, Look, i) = Ent(i).old_map
  BY <1>1, EntType, PendingIsPend, Zenon DEF NoPending, FreeBlk
<1>3. \A l \in Lba : Look[l] = btt_map_lookup(map, l) /\ Look[l] \in Blocks
  BY EntType, Zenon DEF Good
<1>4. \A i \in Lanes : Ent(i).old_map \in Blocks
  BY <1>1, <1>2, ZenonT(30) DEF EntsOK
<1>5. \A l, k \in Lba : btt_map_lookup(map, l) = btt_map_lookup(map, k) => l = k
  BY <1>3, ZenonT(40) DEF Good
<1>6. \A i \in Lanes :
         Ent(i).old_map \notin {btt_map_lookup(map, l) : l \in Lba}
  BY <1>2, <1>3, SMTT(30) DEF Good
<1>7. \A i, j \in Lanes : Ent(i).old_map = Ent(j).old_map => i = j
  BY <1>2, SMTT(30) DEF Good
<1>8. {btt_map_lookup(map, l) : l \in Lba} \cup {Ent(i).old_map : i \in Lanes}
         = Blocks
  <2>1. ASSUME NEW b \in Blocks
        PROVE  \/ \E l \in Lba : btt_map_lookup(map, l) = b
               \/ \E i \in Lanes : Ent(i).old_map = b
    BY <1>2, <1>3, SMTT(30) DEF Good
  <2> QED BY <1>3, <1>4, <2>1, Zenon
<1> QED BY <1>5, <1>6, <1>7, <1>8, ZenonT(30) DEF BitmapFull

-----------------------------------------------------------------------------
(* The invariant of an arena without faults.                               *)

Lived == \A i \in Lanes : log[i][0].seq # 0

RecoverInv == faults = 0 =>
    /\ trusted /\ info /\ info2 /\ ~ chk.saved /\ Lived
    /\ chk.repair /\ chk.pc = "log_map" =>
          \A i \in Lanes : i < chk.lane => ~ Pending(i)
    /\ chk.repair /\ chk.pc \in {"info2", "bitmap"} => NoPending
    /\ chk.repair /\ chk.pc = "done" => chk.rc = "BTT_OK"

\* The part of RecoverInv that says nothing of a check in progress.
Faultless == trusted /\ info /\ info2 /\ Lived

\* Faults are only ever counted up.
LEMMA CountsUp ==
    ASSUME TypeOK, [Next]_vars, faults' = 0
    PROVE  faults = 0 /\ UNCHANGED faults
<1>0. faults \in Nat /\ faults + 1 # 0
  BY DEF TypeOK
<1>1. faults' = faults \/ faults' = faults + 1
  <2>1. CASE Kernel
    BY <2>1, ZenonT(30) DEF Kernel, KernelAttach, KernelRecover, KernelFlog, KernelMap,
       KernelData, KernelOnline, KernelDetach
  <2>2. CASE Checker
    BY <2>2, Zenon DEF Checker, Discover, SetIndices, CheckLogEntries,
       CheckMapEntries, CheckLogMap, CheckLogMapDone, CheckInfo2, CheckBitmap,
       RewriteLog, RewriteGroup, RewriteDone, NoStore
  <2>3. CASE Next /\ ~Kernel /\ ~Checker
    BY <2>3, ZenonT(30) DEF Next, CheckStart, Crash, Sigbus, RewriteTorn, Scribble,
       ScribbleMap, ScribbleLog, WipeInfo, Fault
  <2>4. CASE UNCHANGED vars
    BY <2>4, Zenon DEF vars
  <2> QED BY <2>1, <2>2, <2>3, <2>4
<1> QED BY <1>0, <1>1

\* The driver never leaves slot 0 of a lane without a live entry.
LEMMA KernelLives == ASSUME IInv, Lived, Kernel PROVE Lived'
<1>1. ASSUME NEW i \in Lanes, KernelFlog(i) PROVE Lived'
  <2>1. TypeOK /\ log_index \in {1, 2} /\ log \in [Lanes -> [Slots -> LogEnt]]
    BY ZenonT(30) DEF IInv, TypeOK
  <2>2. Ent(i) \in LogEnt /\ Ent(i).seq \in Nat
    BY <2>1, EntType, Zenon DEF LogEnt
  <2>3. (Ent(i).seq % 3) + 1 # 0
    BY <2>2, SMTT(30)
  <2> DEFINE o == OldSlot(log[i], log_index)
  <2> DEFINE e == [lba |-> lanes[i].lba,
                   old_map |-> btt_map_lookup(map, lanes[i].lba),
                   new_map |-> Ent(i).old_map, seq |-> (Ent(i).seq % 3) + 1]
  <2>4. o \in Slots /\ 0 \in Slots /\ e.seq # 0
    BY <2>1, <2>3, ReadType, Zenon
  <2>5. log' = [log EXCEPT ![i][o] = e]
    BY <1>1, Zenon DEF KernelFlog
  <2> HIDE DEF o, e
  <2>6. \A j \in Lanes : log'[j][0] = log[j][0] \/ log'[j][0] = e
    BY <2>1, <2>4, <2>5, Zenon
  <2> QED BY <2>4, <2>6, Zenon DEF Lived
<1>2. CASE ~ \E i \in Lanes : KernelFlog(i)
  <2>1. log' = log
    BY <1>2, ZenonT(30) DEF Kernel, KernelAttach, KernelRecover, KernelMap, KernelData,
       KernelOnline, KernelDetach
  <2> QED BY <2>1 DEF Lived
<1> QED BY <1>1, <1>2, Zenon

LEMMA KernelFaultless ==
    ASSUME IInv, Faultless, ~ chk.saved, Kernel
    PROVE  Faultless' /\ ~ chk'.saved
<1>1. UNCHANGED <<trusted, info, info2>>
  BY Zenon DEF Kernel, KernelAttach, KernelRecover, KernelFlog, KernelMap,
     KernelData, KernelOnline, KernelDetach
<1>2. chk' = chk \/ chk' = NoCheck
  BY ZenonT(30) DEF Kernel, KernelAttach, KernelRecover, KernelFlog, KernelMap,
     KernelData, KernelOnline, KernelDetach
<1> QED BY <1>1, <1>2, KernelLives, SMTT(30) DEF Faultless, NoCheck

\* A stage that hands over to the next one and stores nothing.
LEMMA PassOn ==
    ASSUME TypeOK, Faultless, ~ chk.saved, NEW pc, Goto(pc),
           UNCHANGED <<log, trusted, info, info2>>,
           pc # "done", pc \in {"info2", "bitmap"} /\ chk.repair => NoPending'
    PROVE  RecoverInv'
<1>1. /\ chk'.pc = pc /\ chk'.lane = 0 /\ chk'.repair = chk.repair
      /\ chk'.saved = chk.saved
  BY Zenon DEF Goto, TypeOK, CheckState
<1>2. Faultless'
  BY Zenon DEF Faultless, Lived
<1>3. \A i \in Lanes : ~ (i < chk'.lane)
  BY <1>1, SMTT(30) DEF Lanes
<1> QED BY <1>1, <1>2, <1>3, ZenonT(30) DEF RecoverInv, Faultless

\* A stage that ends the check, successfully if it was a repair.
LEMMA EndWith ==
    ASSUME TypeOK, Faultless, ~ chk.saved, NEW rc, Finish(rc),
           UNCHANGED <<log, info, info2>>, chk.repair => rc = "BTT_OK"
    PROVE  RecoverInv'
<1>1. /\ chk'.pc = "done" /\ chk'.rc = rc /\ chk'.repair = chk.repair
      /\ chk'.saved = chk.saved
  BY DEF Finish, TypeOK, CheckState
<1>2. trusted'
  BY ZenonT(30) DEF Finish, Faultless
<1>3. Faultless'
  BY <1>2 DEF Faultless, Lived
<1> QED BY <1>1, <1>3, Zenon DEF RecoverInv, Faultless

\* Rolling the writes of the lanes forward one by one leaves none pending
\* among those already done.
LEMMA RollsForward ==
    ASSUME IInv, RecoverInv, faults = 0, UNCHANGED faults, CheckLogMap
    PROVE  RecoverInv'
<1> DEFINE i == chk.lane
<1>1. chk.pc = "log_map" /\ UNCHANGED <<log, log_index, trusted, info, info2>>
  BY ZenonT(30) DEF CheckLogMap, CheckStep
<1>2. TypeOK /\ i \in Lanes /\ chk \in CheckState
  BY SizesAssumption, SMTT(30) DEF CheckLogMap, IInv, TypeOK, CheckState, Lanes
<1>3. Good(Ents, Look)
  BY Zenon DEF IInv, MetaInv, RecoverInv
<1>4. ~ chk.saved /\ faults + 1 # faults
  BY <1>2 DEF RecoverInv, TypeOK
<1>5. NextLane(chk.saved)
  BY <1>4, Zenon DEF CheckLogMap
<1>6. /\ chk'.pc = "log_map" /\ chk'.lane = i + 1
      /\ chk'.repair = chk.repair /\ chk'.saved = chk.saved
  BY <1>1, <1>2, <1>5, Zenon DEF NextLane, CheckState
<1>7. ASSUME chk.repair, NEW j \in Lanes, j < i + 1 PROVE ~ Pending(j)'
  <2>1. j = i \/ (j < i /\ ~ Pending(j))
    BY <1>1, <1>2, <1>7, SMTT(30) DEF RecoverInv, Lanes
  <2>2. EntsOK(Ents) /\ EntsOK(Ents)'
    BY <1>1, <1>3, SameEnts, Zenon DEF Good, EntsOK
  <2>3. CASE Pending(i)
    <3>1. RollForward(i)
      BY <1>4, <1>7, <2>3, Zenon DEF CheckLogMap
    <3>2. /\ ~ Pend(Ents', Look', i)
          /\ \A k \in Lanes \ {i} : Pend(Ents', Look', k) <=> Pend(Ents, Look, k)
      BY <1>1, <1>2, <1>3, <2>3, <3>1, RollForwardStep, Zenon
    <3>3. Pending(j)' <=> Pend(Ents', Look', j)
      <4>1. Ents'[j] = Ent(j)' /\ Ents'[j].lba \in Lba
        BY <2>2, Zenon DEF Ents, EntsOK
      <4>2. Look'[Ents'[j].lba] = btt_map_lookup(map', Ents'[j].lba)
        BY <4>1 DEF Look
      <4> QED BY <4>1, <4>2, ZenonT(30) DEF Pending, Pend
    <3>4. Pending(j) <=> Pend(Ents, Look, j)
      BY <1>2, <2>2, PendingIsPend, ZenonT(40)
    <3> QED BY <2>1, <3>2, <3>3, <3>4, Zenon
  <2>4. CASE ~ Pending(i)
    <3>1. map' = map
      BY <2>4 DEF CheckLogMap
    <3>2. ~ Pending(j)
      BY <2>1, <2>4, Zenon
    <3> QED BY <1>1, <3>1, <3>2, SMTT(30) DEF Pending, Ent
  <2> QED BY <2>3, <2>4, Zenon
<1>8. Lived'
  BY <1>1, SMTT(30) DEF RecoverInv, Lived
<1> QED BY <1>1, <1>6, <1>7, <1>8, Zenon DEF RecoverInv

\* No stage of the check refuses an arena without faults.
LEMMA CheckerRecovers ==
    ASSUME IInv, RecoverInv, faults = 0, UNCHANGED faults, Checker
    PROVE  RecoverInv'
<1>0. TypeOK /\ Faultless /\ ~ chk.saved
  BY DEF IInv, RecoverInv, Faultless
<1>1. Layout(log, log_index) /\ Good(Ents, Look)
  BY <1>0, SMTT(30) DEF IInv, MetaInv, Faultless
<1>a. faults' # faults + 1
  BY <1>0, SMTT(30) DEF TypeOK
<1>2. CASE Discover
  <2>1. Goto("indices") /\ UNCHANGED <<log, trusted, info, info2>>
    BY <1>0, <1>2, <1>a, Zenon DEF Discover, Faultless
  <2> QED BY <1>0, <2>1, PassOn, Zenon
<1>3. CASE SetIndices
  <2>1. log \in [Lanes -> [Slots -> LogEnt]] /\ log_index \in {1, 2}
    BY <1>0, Zenon DEF TypeOK
  <2>2. \E s \in Slots : LogIndex(log, s)
    BY <1>0, <1>1, <2>1, IndexExists, SMTT(30) DEF Faultless, Lived, Slots
  <2>3. Goto("log_entries") /\ UNCHANGED <<log, trusted, info, info2>>
    BY <1>3, <2>2, Zenon DEF SetIndices, NoStore, media
  <2> QED BY <1>0, <2>3, PassOn, Zenon
<1>4. CASE CheckLogEntries \/ CheckMapEntries
  <2>1. \E pc \in {"map_entries", "log_map"} : Goto(pc)
    BY <1>0, <1>1, <1>4, GoodPasses, Zenon DEF CheckLogEntries, CheckMapEntries
  <2>2. UNCHANGED <<log, trusted, info, info2>>
    BY <1>0, <1>1, <1>4, GoodPasses, Zenon DEF CheckLogEntries, CheckMapEntries,
       NoStore, media
  <2> QED BY <1>0, <2>1, <2>2, PassOn, Zenon
<1>5. CASE CheckLogMap
  BY <1>5, RollsForward, SMTT(30)
<1>6. CASE CheckLogMapDone
  <2>1. Goto("info2") /\ UNCHANGED trusted /\ UNCHANGED media
           /\ UNCHANGED log_index /\ chk.pc = "log_map" /\ chk.lane = NFree
    BY <1>0, <1>6, Zenon DEF CheckLogMapDone, CheckStep, NoStore
  <2>2. UNCHANGED <<map, log, log_index>> /\ UNCHANGED <<trusted, info, info2>>
    BY <2>1, SMTT(30) DEF media
  <2>3. chk.repair => NoPending
    BY <2>1, SizesAssumption, SMTT(30) DEF RecoverInv, NoPending, Lanes
  <2> QED BY <1>0, <2>1, <2>2, <2>3, SamePending, PassOn, Zenon
<1>7. CASE CheckInfo2
  <2>1. Goto("bitmap") /\ UNCHANGED <<map, log, log_index>>
           /\ UNCHANGED <<trusted, info>> /\ chk.pc = "info2"
    BY <1>0, <1>7, Zenon DEF CheckInfo2, CheckStep, Faultless
  <2>2. info2' = info2
    BY <1>0, <1>7, ZenonT(30) DEF CheckInfo2, Faultless, TypeOK
  <2>3. chk.repair => NoPending'
    BY <2>1, SamePending, Zenon DEF RecoverInv
  <2> QED BY <1>0, <2>1, <2>2, <2>3, PassOn, Zenon
<1>8. CASE CheckBitmap
  <2>1. UNCHANGED <<log, info, info2>> /\ chk.pc = "bitmap"
    BY <1>8, Zenon DEF CheckBitmap, CheckStep, NoStore, media
  <2>2. chk.repair => BitmapFull
    BY <1>0, <1>1, <2>1, GoodIsFull, SMTT(30) DEF RecoverInv
  <2>3. CASE Goto("rewrite") /\ UNCHANGED trusted
    BY <1>0, <2>1, <2>3, PassOn, Zenon
  <2>4. CASE \E rc : Finish(rc) /\ (BitmapFull => rc = "BTT_OK")
    BY <1>0, <2>1, <2>2, <2>4, EndWith, Zenon
  <2> QED BY <1>8, <2>3, <2>4, Zenon DEF CheckBitmap
<1>9. CASE RewriteLog
  <2>0. PICK i \in Lanes : RewriteGroup(i)
    BY <1>9, Zenon DEF RewriteLog
  <2>1. /\ chk.pc = "rewrite" /\ UNCHANGED <<trusted, info, info2>>
        /\ log' = [log EXCEPT ![i] = FreshGroup(i)]
    BY <2>0, Zenon DEF RewriteGroup, CheckStep
  <2>2. chk'.pc = "rewrite" /\ chk'.saved = chk.saved
    BY <2>0, <2>1, Zenon DEF RewriteGroup
  <2>3. Lived'
    <3>1. FreshGroup(i)[0].seq = 1
      <4>1. 0 \in Slots
        BY DEF Slots
      <4>2. Ent(i) \in LogEnt
        BY <1>0, EntType, Zenon
      <4> QED BY <4>1, <4>2, Zenon DEF FreshGroup, LogEnt
    <3>2. \A j \in Lanes : log'[j] = log[j] \/ log'[j] = FreshGroup(i)
      BY <1>0, <2>1, Zenon DEF TypeOK
    <3> QED BY <1>0, <3>1, <3>2 DEF Lived, Faultless
  <2> QED BY <1>0, <2>1, <2>2, <2>3, ZenonT(30) DEF RecoverInv, Faultless
<1>10. CASE RewriteDone
  <2>1. Finish("BTT_OK") /\ UNCHANGED <<log, info, info2>>
    BY <1>10, Zenon DEF RewriteDone, NoStore, media
  <2> QED BY <1>0, <2>1, EndWith, SMTT(30)
<1> QED BY <1>2, <1>3, <1>4, <1>5, <1>6, <1>7, <1>8, <1>9, <1>10, SMTT(30) DEF Checker

LEMMA RecoverInvStep == IInv /\ RecoverInv /\ [Next]_vars => RecoverInv'
<1> SUFFICES ASSUME IInv, RecoverInv, [Next]_vars, faults' = 0 PROVE RecoverInv'
  BY Zenon DEF RecoverInv
<1>0. faults = 0 /\ UNCHANGED faults /\ Faultless /\ ~ chk.saved /\ faults + 1 # 0
  BY CountsUp, SMTT(30) DEF IInv, RecoverInv, Faultless
<1>1. ASSUME Faultless', ~ chk'.saved,
             chk'.pc \in {"idle", "discover"} \/ ~ chk'.repair
      PROVE  RecoverInv'
  BY <1>1, Zenon DEF RecoverInv, Faultless
<1>2. CASE Kernel
  BY <1>0, <1>1, <1>2, KernelFaultless, KernelIdle, SMTT(30)
<1>3. CASE Checker
  BY <1>0, <1>3, CheckerRecovers, Zenon
<1>4. ASSUME NEW repair \in BOOLEAN, NEW logfix \in BOOLEAN,
             CheckStart(repair, logfix)
      PROVE  RecoverInv'
  <2>1. chk'.pc = "discover" \/ ~ chk'.repair
    BY <1>4 DEF CheckStart, NoCheck
  <2>2. ~ chk'.saved
    BY <1>4 DEF CheckStart, NoCheck
  <2>3. Faultless'
    BY <1>0, <1>4 DEF CheckStart, Faultless, Lived
  <2> QED BY <1>1, <2>1, <2>2, <2>3
<1>5. CASE Crash
  <2>1. chk'.pc = "idle" /\ ~ chk'.saved /\ Faultless'
    BY <1>0, <1>5 DEF Crash, NoCheck, Faultless, Lived
  <2> QED BY <1>1, <2>1, ZenonT(40)
<1>6. CASE Sigbus \/ RewriteTorn \/ Scribble
  <2>1. faults' = faults + 1
    BY <1>6, ZenonT(30) DEF Sigbus, RewriteTorn, Scribble, ScribbleMap, ScribbleLog,
       WipeInfo, Fault
  <2> QED BY <1>0, <2>1
<1>7. CASE UNCHANGED vars
  <2>1. UNCHANGED <<map, log, log_index>> /\ UNCHANGED <<chk, trusted, info, info2>>
    BY <1>7, Zenon DEF vars
  <2>2. \A i \in Lanes : Pending(i)' <=> Pending(i)
    BY <2>1, ZenonT(30) DEF Pending, Ent
  <2> QED BY <1>0, <2>1, <2>2, SamePending, Zenon DEF RecoverInv, Lived
<1> QED BY <1>2, <1>3, <1>4, <1>5, <1>6, <1>7, Zenon DEF Next

LEMMA RecoverInit == Init => RecoverInv
<1> SUFFICES ASSUME Init PROVE RecoverInv
  BY Zenon
<1>1. Lived
  BY SMTT(30) DEF Lived, Init, Slots
<1> QED BY <1>1, ZenonT(40) DEF Init, NoCheck, RecoverInv

\* Without faults of the media a check with --repair always returns BTT_OK:
\* after a power failure at any step of any number of writes, of an earlier
\* repair or of a rewrite of the log, for every size of the arena.
THEOREM RepairRecovers == Spec => []RepairRestores
<1>1. RecoverInv => RepairRestores
  BY Zenon DEF RecoverInv, RepairRestores
<1> QED BY <1>1, InductiveInit, InductiveStep, RecoverInit, RecoverInvStep, PTL DEF Spec

-----------------------------------------------------------------------------
(***************************************************************************)
(* An arena without faults of the media implements SectorStore, for any    *)
(* number of blocks, lanes, writes and power failures.  The mapping is the *)
(* one of BttArena, written here in terms of Ents, Look and data: a lane   *)
(* with a pending write carries an intent, and a sector reads as the block *)
(* the map gives it.  Storing a log entry adds an intent, storing a map    *)
(* entry commits one, and every other step of the driver, of the checker   *)
(* and of a power failure changes neither.                                 *)
(***************************************************************************)

IntentOf(E, D, i) ==
    [writer |-> i, addr |-> E[i].lba, val |-> D[E[i].new_map]]

IntentsOf(E, L, D) == {IntentOf(E, D, i) : i \in {j \in Lanes : Pend(E, L, j)}}

SectorsOf(L, D) == [l \in Lba |-> D[L[l]]]

LEMMA Mapping ==
    TypeOK /\ Good(Ents, Look) =>
        Sector = SectorsOf(Look, data) /\ Pendings = IntentsOf(Ents, Look, data)
<1> SUFFICES ASSUME TypeOK, Good(Ents, Look)
             PROVE  Sector = SectorsOf(Look, data)
                    /\ Pendings = IntentsOf(Ents, Look, data)
  BY Zenon
<1>1. \A l \in Lba : Look[l] = btt_map_lookup(map, l)
  BY EntType
<1>2. \A i \in Lanes : Ents[i] = Ent(i) /\ (Pending(i) <=> Pend(Ents, Look, i))
  BY EntType, PendingIsPend DEF Good
<1>3. {j \in Lanes : Pending(j)} = {j \in Lanes : Pend(Ents, Look, j)}
  BY <1>2, Zenon
<1>4. \A i \in Lanes : IntentOf(Ents, data, i) =
         [writer |-> i, addr |-> Ent(i).lba, val |-> data[Ent(i).new_map]]
  BY <1>2, ZenonT(30) DEF IntentOf
<1>5. Pendings = IntentsOf(Ents, Look, data)
  BY <1>3, <1>4, ZenonT(30) DEF Pendings, IntentsOf
<1> QED BY <1>1, <1>5, Zenon DEF Sector, SectorsOf

LEMMA IntentWriter ==
    ASSUME NEW E, NEW D, NEW i, NEW j, IntentOf(E, D, i) = IntentOf(E, D, j)
    PROVE  i = j
<1>1. IntentOf(E, D, i).writer = i /\ IntentOf(E, D, j).writer = j
  BY ZenonT(30) DEF IntentOf
<1> QED BY <1>1, Zenon

\* A lane whose write is no longer pending takes its intent with it.
LEMMA Withdrawn ==
    ASSUME NEW E, NEW L, NEW M, NEW D, NEW i \in Lanes,
           Pend(E, L, i), ~ Pend(E, M, i),
           \A j \in Lanes \ {i} : Pend(E, M, j) <=> Pend(E, L, j)
    PROVE  /\ IntentOf(E, D, i) \in IntentsOf(E, L, D)
           /\ IntentsOf(E, M, D) = IntentsOf(E, L, D) \ {IntentOf(E, D, i)}
<1>1. {j \in Lanes : Pend(E, M, j)} = {j \in Lanes : Pend(E, L, j)} \ {i}
  BY Zenon
<1>2. ASSUME NEW x \in IntentsOf(E, M, D)
      PROVE  x \in IntentsOf(E, L, D) /\ x # IntentOf(E, D, i)
  <2>1. PICK j \in {k \in Lanes : Pend(E, L, k)} \ {i} : x = IntentOf(E, D, j)
    BY <1>1, Zenon DEF IntentsOf
  <2> QED BY <2>1, IntentWriter, Zenon DEF IntentsOf
<1>3. ASSUME NEW x \in IntentsOf(E, L, D), x # IntentOf(E, D, i)
      PROVE  x \in IntentsOf(E, M, D)
  <2>1. PICK j \in {k \in Lanes : Pend(E, L, k)} : x = IntentOf(E, D, j)
    BY Zenon DEF IntentsOf
  <2>2. j # i
    BY <1>3, <2>1, Zenon
  <2> QED BY <1>1, <2>1, <2>2, Zenon DEF IntentsOf
<1>4. IntentOf(E, D, i) \in IntentsOf(E, L, D)
  BY Zenon DEF IntentsOf
<1> QED BY <1>2, <1>3, <1>4, Zenon

\* Storing a log entry adds one intent: the lane had none, nor the sector.
LEMMA FlogLogs ==
    ASSUME NEW E, NEW F, NEW L, NEW D, NEW i \in Lanes,
           ~ Pend(E, L, i), Pend(F, L, i),
           \A j \in Lanes : Pend(E, L, j) => E[j].lba # F[i].lba,
           \A j \in Lanes \ {i} : Pend(F, L, j) <=> Pend(E, L, j),
           \A j \in Lanes \ {i} : F[j] = E[j]
    PROVE  LET I == IntentOf(F, D, i)
           IN  /\ \A x \in IntentsOf(E, L, D) :
                     x.writer # I.writer /\ x.addr # I.addr
               /\ IntentsOf(F, L, D) = IntentsOf(E, L, D) \cup {I}
<1>1. IntentOf(F, D, i).writer = i /\ IntentOf(F, D, i).addr = F[i].lba
  BY ZenonT(30) DEF IntentOf
<1>2. \A j \in Lanes \ {i} : IntentOf(F, D, j) = IntentOf(E, D, j)
  BY Zenon DEF IntentOf
<1>3. ASSUME NEW x \in IntentsOf(E, L, D)
      PROVE  /\ x.writer # i /\ x.addr # F[i].lba
             /\ x \in IntentsOf(F, L, D)
  <2>1. PICK j \in {k \in Lanes : Pend(E, L, k)} : x = IntentOf(E, D, j)
    BY Zenon DEF IntentsOf
  <2>2. j # i /\ x.writer = j /\ x.addr = E[j].lba
    BY <2>1, ZenonT(30) DEF IntentOf
  <2>3. j \in {k \in Lanes : Pend(F, L, k)} /\ x = IntentOf(F, D, j)
    BY <1>2, <2>1, <2>2, ZenonT(30)
  <2> QED BY <2>1, <2>2, <2>3, Zenon DEF IntentsOf
<1>4. ASSUME NEW x \in IntentsOf(F, L, D)
      PROVE  x = IntentOf(F, D, i) \/ x \in IntentsOf(E, L, D)
  <2>1. PICK j \in {k \in Lanes : Pend(F, L, k)} : x = IntentOf(F, D, j)
    BY Zenon DEF IntentsOf
  <2>2. CASE j # i
    BY <1>2, <2>1, <2>2, Zenon DEF IntentsOf
  <2> QED BY <2>1, <2>2, Zenon
<1>5. IntentOf(F, D, i) \in IntentsOf(F, L, D)
  BY Zenon DEF IntentsOf
<1>6. IntentsOf(F, L, D) = IntentsOf(E, L, D) \cup {IntentOf(F, D, i)}
  BY <1>3, <1>4, <1>5, ZenonT(30)
<1> QED BY <1>1, <1>3, <1>6, ZenonT(30)

\* Data written to a lane's free block is seen by no sector and no intent.
LEMMA DataHidden ==
    ASSUME NEW E, NEW L, NEW D, NEW W, NEW i \in Lanes,
           Good(E, L), ~ Pend(E, L, i),
           \A b \in Blocks : b # Free(E, L, i) => W[b] = D[b]
    PROVE  /\ SectorsOf(L, W) = SectorsOf(L, D)
           /\ IntentsOf(E, L, W) = IntentsOf(E, L, D)
<1>1. \A l \in Lba : W[L[l]] = D[L[l]]
  BY Zenon DEF Good
<1>2. ASSUME NEW j \in Lanes, Pend(E, L, j)
      PROVE  IntentOf(E, W, j) = IntentOf(E, D, j)
  <2>1. E[j].new_map = Free(E, L, j) /\ E[j].new_map \in Blocks /\ j # i
    BY <1>2, ZenonT(30) DEF Free, Good, EntsOK
  <2>2. E[j].new_map # Free(E, L, i)
    BY <2>1, SMTT(30) DEF Good
  <2> QED BY <2>1, <2>2, ZenonT(30) DEF IntentOf
<1>3. IntentsOf(E, L, W) = IntentsOf(E, L, D)
  BY <1>2, Zenon DEF IntentsOf
<1> QED BY <1>1, <1>3, ZenonT(30) DEF SectorsOf

-----------------------------------------------------------------------------
(* The steps of an arena without faults, at the level of SectorStore.      *)

AtomicInv == IInv /\ RecoverInv /\ faults = 0

LEMMA AtomicGood == AtomicInv => TypeOK /\ Layout(log, log_index) /\ Good(Ents, Look)
  BY DEF AtomicInv, IInv, MetaInv, RecoverInv

LEMMA AtomicInvStep ==
    ASSUME MaxFaults = 0
    PROVE  AtomicInv /\ [Next]_vars => AtomicInv'
<1> SUFFICES ASSUME AtomicInv, [Next]_vars PROVE AtomicInv'
  OBVIOUS
<1>0. ~ (faults < MaxFaults)
  BY DEF AtomicInv
<1>1. faults' = faults
  <2>1. CASE Kernel
    BY <2>1, Zenon DEF Kernel, KernelAttach, KernelRecover, KernelFlog, KernelMap,
       KernelData, KernelOnline, KernelDetach
  <2>2. CASE Checker
    BY <1>0, <2>2, Zenon DEF Checker, Discover, SetIndices, CheckLogEntries,
       CheckMapEntries, CheckLogMap, CheckLogMapDone, CheckInfo2, CheckBitmap,
       RewriteLog, RewriteGroup, RewriteDone, NoStore
  <2>3. CASE Next /\ ~Kernel /\ ~Checker
    BY <1>0, <2>3, ZenonT(40)
    DEF Next, CheckStart, Crash, Sigbus, RewriteTorn, Scribble,
       ScribbleMap, ScribbleLog, WipeInfo, Fault
  <2>4. CASE UNCHANGED vars
    BY <2>4, Zenon DEF vars
  <2> QED BY <2>1, <2>2, <2>3, <2>4, SMTT(30)
<1> QED BY <1>1, InductiveStep, RecoverInvStep DEF AtomicInv

\* What a reader of the sectors, and of the pending writes, can see.
Visible == <<SectorsOf(Look, data), IntentsOf(Ents, Look, data)>>

LEMMA SameVisible ==
    ASSUME Ents' = Ents, Look' = Look, data' = data PROVE UNCHANGED Visible
<1>1. SectorsOf(Look, data)' = SectorsOf(Look', data')
  BY Zenon DEF SectorsOf
<1>2. IntentsOf(Ents, Look, data)' = IntentsOf(Ents', Look', data')
  BY Zenon DEF IntentsOf, IntentOf, Pend
<1> QED BY <1>1, <1>2, Zenon DEF Visible

\* A map store for a pending write, by the driver or by the checker.
LEMMA CommitStep ==
    ASSUME AtomicInv, NEW i \in Lanes, Pending(i), RollForward(i),
           UNCHANGED <<log, log_index, data>>
    PROVE  LET I == IntentOf(Ents, data, i)
           IN  /\ I \in IntentsOf(Ents, Look, data)
               /\ SectorsOf(Look, data)' =
                     [SectorsOf(Look, data) EXCEPT ![I.addr] = I.val]
               /\ IntentsOf(Ents, Look, data)' = IntentsOf(Ents, Look, data) \ {I}
<1>1. TypeOK /\ Good(Ents, Look) /\ EntsOK(Ents) /\ Look \in [Lba -> Nat]
  BY AtomicGood, EntType, Zenon DEF Good
<1>2. Pend(Ents, Look, i) /\ Ents[i].lba \in Lba
  BY <1>1, PendingIsPend, ZenonT(30) DEF EntsOK
<1>3. Ents' = Ents /\ data' = data
         /\ Look' = [Look EXCEPT ![Ents[i].lba] = Ents[i].new_map]
  BY <1>1, <1>2, SameEnts, RollForwardLook, Zenon
<1>4. /\ ~ Pend(Ents, Look', i)
      /\ \A j \in Lanes \ {i} : Pend(Ents, Look', j) <=> Pend(Ents, Look, j)
  BY <1>1, <1>3, RollForwardStep, ZenonT(30)
<1> DEFINE I == IntentOf(Ents, data, i)
<1>5. I.addr = Ents[i].lba /\ I.val = data[Ents[i].new_map]
  BY Zenon DEF IntentOf
<1>6. SectorsOf(Look, data)' = [SectorsOf(Look, data) EXCEPT ![I.addr] = I.val]
  <2> HIDE DEF I
  <2> QED BY <1>1, <1>2, <1>3, <1>5, ZenonT(40) DEF SectorsOf
<1>7. /\ I \in IntentsOf(Ents, Look, data)
      /\ IntentsOf(Ents, Look', data) = IntentsOf(Ents, Look, data) \ {I}
  BY <1>2, <1>4, Withdrawn, SMTT(30)
<1>8. IntentsOf(Ents, Look, data)' = IntentsOf(Ents, Look', data)
  BY <1>3, Zenon DEF IntentsOf, IntentOf, Pend
<1> QED BY <1>6, <1>7, <1>8, Zenon

\* A log store by the driver.
LEMMA LogStep ==
    ASSUME AtomicInv, NEW i \in Lanes, KernelFlog(i)
    PROVE  \E I : /\ I \in IntentsOf(Ents, Look, data)'
                  /\ \A x \in IntentsOf(Ents, Look, data) :
                        x.writer # I.writer /\ x.addr # I.addr
                  /\ IntentsOf(Ents, Look, data)' =
                        IntentsOf(Ents, Look, data) \cup {I}
                  /\ SectorsOf(Look, data)' = SectorsOf(Look, data)
<1> DEFINE l == lanes[i].lba
<1> DEFINE F == [Ents EXCEPT ![i] =
                    [lba |-> l, old_map |-> Look[l], new_map |-> Ents[i].old_map,
                     seq |-> (Ents[i].seq % 3) + 1]]
<1>1. /\ Ents' = F /\ Look' = Look /\ F[i].lba = l
      /\ ~ Pend(Ents, Look, i) /\ Pend(F, Look, i)
      /\ \A j \in Lanes : Pend(Ents, Look, j) => Ents[j].lba # l
      /\ \A j \in Lanes \ {i} : Pend(F, Look, j) <=> Pend(Ents, Look, j)
      /\ \A j \in Lanes \ {i} : F[j] = Ents[j]
  BY FlogEnts, Zenon DEF AtomicInv
<1> HIDE DEF F, l
<1>2. data' = data
  BY Zenon DEF KernelFlog
<1>3. LET I == IntentOf(F, data, i)
      IN  /\ \A x \in IntentsOf(Ents, Look, data) :
                x.writer # I.writer /\ x.addr # I.addr
          /\ IntentsOf(F, Look, data) = IntentsOf(Ents, Look, data) \cup {I}
  BY <1>1, FlogLogs, SMTT(30)
<1>4. IntentsOf(Ents, Look, data)' = IntentsOf(F, Look, data)
  <2>1. IntentsOf(Ents, Look, data)' = IntentsOf(Ents', Look', data')
    BY Zenon DEF IntentsOf, IntentOf, Pend
  <2> QED BY <1>1, <1>2, <2>1, Zenon
<1>5. SectorsOf(Look, data)' = SectorsOf(Look, data)
  BY <1>1, <1>2, Zenon DEF SectorsOf
<1> QED BY <1>3, <1>4, <1>5, Zenon

\* A data store by the driver.
LEMMA DataUnseen ==
    ASSUME AtomicInv, NEW i \in Lanes, NEW l \in Lba, NEW v \in Vals,
           KernelData(i, l, v)
    PROVE  UNCHANGED Visible
<1>1. /\ TypeOK /\ Good(Ents, Look) /\ EntsOK(Ents) /\ data \in [Blocks -> Vals]
      /\ kern = "on" /\ lanes[i].pc = "idle" /\ UNCHANGED <<map, log, log_index>>
  BY AtomicGood, ZenonT(30) DEF Good, TypeOK, KernelData
<1>2. ~ Pend(Ents, Look, i)
  BY <1>1, Zenon DEF AtomicInv, IInv, KernInv
<1>3. \A b \in Blocks : b # Free(Ents, Look, i) => data'[b] = data[b]
  <2>1. FreeBlk(i) = Free(Ents, Look, i)
    BY <1>1, PendingIsPend, ZenonT(30)
  <2> QED BY <1>1, <2>1, Zenon DEF KernelData
<1>4. Ents' = Ents /\ Look' = Look
  BY <1>1, SameEnts, SameLook, ZenonT(30)
<1>5. /\ SectorsOf(Look, data') = SectorsOf(Look, data)
      /\ IntentsOf(Ents, Look, data') = IntentsOf(Ents, Look, data)
  <2>1. Good(Ents, Look)
    BY <1>1, ZenonT(30)
  <2> QED BY <1>2, <1>3, <2>1, DataHidden, SMTT(40)
<1>6. SectorsOf(Look, data)' = SectorsOf(Look, data')
  BY <1>4, ZenonT(30) DEF SectorsOf
<1>7. IntentsOf(Ents, Look, data)' = IntentsOf(Ents, Look, data')
  <2>1. IntentsOf(Ents, Look, data)' = IntentsOf(Ents', Look', data')
    BY Zenon DEF IntentsOf, IntentOf, Pend
  <2> QED BY <1>4, <2>1, Zenon
<1> QED BY <1>5, <1>6, <1>7, Zenon DEF Visible

\* An opener that deduces other slots reads the same entries.
LEMMA IndexUnseen ==
    ASSUME AtomicInv, NEW s \in {1, 2}, log_index' = s, UNCHANGED <<map, log, data>>,
           LogIndex(log, s) \/ (s = 2 /\ \A i \in Lanes : ent_is_padding(log[i][1]))
    PROVE  UNCHANGED Visible
<1>1. Layout(log, log_index) /\ log_index \in {1, 2}
         /\ log \in [Lanes -> [Slots -> LogEnt]]
  BY AtomicGood, Zenon DEF TypeOK
<1>2. \A i \in Lanes : btt_log_read(log[i], s) = btt_log_read(log[i], log_index)
  BY <1>1, IndexChange, Zenon
<1>3. Ents' = Ents /\ Look' = Look
  BY <1>2, SameLook, Zenon DEF Ents, Ent
<1>4. data' = data
  OBVIOUS
<1> QED BY <1>3, <1>4, SameVisible, Zenon

\* A rewritten log says the same of every write.
LEMMA RewriteUnseen ==
    ASSUME AtomicInv, NEW i \in Lanes, RewriteGroup(i) PROVE UNCHANGED Visible
<1>1. TypeOK /\ log_index \in {1, 2} /\ log \in [Lanes -> [Slots -> LogEnt]]
  BY AtomicGood, Zenon DEF TypeOK
<1>2. log'[i] = FreshGroup(i) /\ \A j \in Lanes \ {i} : log'[j] = log[j]
  BY <1>1, Zenon DEF RewriteGroup
<1>3. FreshGroup(i) \in [Slots -> LogEnt] /\ Ent(i) \in LogEnt
  BY <1>1, FreshGroupType, EntType
<1>4. /\ btt_log_read(FreshGroup(i), log_index).lba = Ent(i).lba
      /\ btt_log_read(FreshGroup(i), log_index).old_map = Ent(i).old_map
      /\ btt_log_read(FreshGroup(i), log_index).new_map = Ent(i).new_map
  BY <1>1, <1>3, FreshGroupRead, ZenonT(30) DEF FreshGroup
<1>5. map' = map /\ log_index' = log_index /\ data' = data /\ Look' = Look
  BY SameLook DEF RewriteGroup
<1>6. \A j \in Lanes : /\ Ents'[j].lba = Ents[j].lba
                       /\ Ents'[j].old_map = Ents[j].old_map
                       /\ Ents'[j].new_map = Ents[j].new_map
  BY <1>2, <1>4, <1>5, Zenon DEF Ents, Ent
<1>7. \A j \in Lanes : /\ IntentOf(Ents', data, j) = IntentOf(Ents, data, j)
                       /\ Pend(Ents', Look, j) <=> Pend(Ents, Look, j)
  BY <1>6, Zenon DEF IntentOf, Pend
<1>8. {j \in Lanes : Pend(Ents', Look, j)} = {j \in Lanes : Pend(Ents, Look, j)}
  BY <1>7, SMTT(30)
<1>9. IntentsOf(Ents', Look, data) = IntentsOf(Ents, Look, data)
  BY <1>7, <1>8, ZenonT(40) DEF IntentsOf
<1>10. IntentsOf(Ents, Look, data)' = IntentsOf(Ents', Look, data)
  BY <1>5, Zenon DEF IntentsOf, IntentOf, Pend
<1>11. SectorsOf(Look, data)' = SectorsOf(Look, data)
  <2>1. SectorsOf(Look, data)' = SectorsOf(Look', data')
    BY Zenon DEF SectorsOf
  <2> QED BY <1>5, <2>1, Zenon
<1> QED BY <1>9, <1>10, <1>11, Zenon DEF Visible

\* Every step logs a write, commits one, or is seen by nobody.
Logs == \E i \in Lanes : KernelFlog(i)
Commits == \E i \in Lanes : Pending(i) /\ RollForward(i)
                            /\ UNCHANGED <<log, log_index, data>>

LEMMA StepKinds ==
    ASSUME MaxFaults = 0, AtomicInv, [Next]_vars
    PROVE  Logs \/ Commits \/ UNCHANGED Visible
<1>0. ASSUME UNCHANGED <<map, log, log_index, data>> PROVE UNCHANGED Visible
  BY <1>0, SameEnts, SameLook, SameVisible, Zenon
<1>1. CASE Kernel
  <2>1. ASSUME NEW s \in {1, 2}, KernelAttach(s) PROVE UNCHANGED Visible
    BY <2>1, IndexUnseen, Zenon DEF KernelAttach
  <2>2. ASSUME NEW i \in Lanes, KernelRecover(i) PROVE Commits
    BY <2>2, Zenon DEF KernelRecover, Commits
  <2>3. ASSUME NEW i \in Lanes, KernelMap(i) PROVE Commits
    <3>1. kern = "on" /\ lanes[i].pc = "logged"
      BY <2>3, Zenon DEF KernelMap
    <3>2. TypeOK /\ EntsOK(Ents) /\ Pend(Ents, Look, i)
      BY <3>1, AtomicGood, Zenon DEF Good, AtomicInv, IInv, KernInv
    <3>3. Pending(i)
      BY <3>2, PendingIsPend
    <3> QED BY <2>3, <3>3 DEF KernelMap, Commits
  <2>4. ASSUME NEW i \in Lanes, NEW l \in Lba, NEW v \in Vals, KernelData(i, l, v)
        PROVE  UNCHANGED Visible
    BY <2>4, DataUnseen, Zenon
  <2>5. CASE KernelOnline \/ KernelDetach
    BY <1>0, <2>5, Zenon DEF KernelOnline, KernelDetach
  <2> QED BY <1>1, <2>1, <2>2, <2>3, <2>4, <2>5, Zenon DEF Kernel, Logs
<1>2. CASE Checker
  <2>1. CASE SetIndices
    <3>1. UNCHANGED <<map, log, data>>
      BY <2>1, Zenon DEF SetIndices, NoStore, media
    <3>2. CASE \E s \in Slots : LogIndex(log, s) /\ log_index' = s
      <4>1. PICK s \in Slots : LogIndex(log, s) /\ log_index' = s
        BY <3>2, Zenon
      <4>2. s \in {1, 2}
        BY <4>1, Zenon DEF LogIndex
      <4> QED BY <3>1, <4>1, <4>2, IndexUnseen, SMTT(30)
    <3>3. CASE UNCHANGED log_index
      BY <1>0, <3>1, <3>3
    <3> QED BY <2>1, <3>2, <3>3, Zenon DEF SetIndices
  <2>2. CASE CheckLogMap
    <3>1. chk.lane \in Lanes
      BY <2>2, AtomicGood, SizesAssumption, SMTT(30)
      DEF CheckLogMap, TypeOK, CheckState, Lanes
    <3>2. UNCHANGED <<log, log_index, data>>
      BY <2>2, Zenon DEF CheckLogMap
    <3>3. CASE Pending(chk.lane) /\ RollForward(chk.lane)
      BY <3>1, <3>2, <3>3, Zenon DEF Commits
    <3>4. CASE UNCHANGED map
      BY <1>0, <3>2, <3>4, Zenon
    <3> QED BY <2>2, <3>3, <3>4, ZenonT(30) DEF CheckLogMap
  <2>3. CASE RewriteLog
    BY <2>3, RewriteUnseen, Zenon DEF RewriteLog
  <2>4. CASE Discover \/ CheckInfo2
    BY <1>0, <2>4, Zenon DEF Discover, CheckInfo2
  <2>5. CASE CheckLogEntries \/ CheckMapEntries \/ CheckLogMapDone
                \/ CheckBitmap \/ RewriteDone
    BY <1>0, <2>5, Zenon DEF CheckLogEntries, CheckMapEntries, CheckLogMapDone,
       CheckBitmap, RewriteDone, NoStore, media
  <2> QED BY <1>2, <2>1, <2>2, <2>3, <2>4, <2>5, SMTT(30) DEF Checker
<1>3. CASE (\E repair, logfix \in BOOLEAN : CheckStart(repair, logfix))
              \/ Crash \/ Sigbus
  BY <1>0, <1>3, Zenon DEF CheckStart, Crash, Sigbus
<1>4. CASE UNCHANGED vars
  BY <1>0, <1>4, SMTT(30) DEF vars
<1>5. CASE RewriteTorn \/ Scribble
  <2>1. faults < MaxFaults
    BY <1>5, ZenonT(30)
    DEF RewriteTorn, Scribble, ScribbleMap, ScribbleLog, WipeInfo, Fault
  <2> QED BY <2>1 DEF AtomicInv
<1> QED BY <1>1, <1>2, <1>3, <1>4, <1>5, SMTT(30) DEF Next

\* An intent of the arena is one of SectorStore.
LEMMA IntentType ==
    TypeOK /\ Good(Ents, Look) => IntentsOf(Ents, Look, data) \subseteq Store!Intent
<1> SUFFICES ASSUME TypeOK, Good(Ents, Look), NEW x \in IntentsOf(Ents, Look, data)
             PROVE  x \in Store!Intent
  OBVIOUS
<1>1. PICK i \in Lanes : x = IntentOf(Ents, data, i)
  BY Zenon DEF IntentsOf
<1>2. Ents[i].lba \in Lba /\ Ents[i].new_map \in Blocks
  BY Zenon DEF Good, EntsOK
<1>3. data[Ents[i].new_map] \in Vals
  BY <1>2, SMTT(30) DEF TypeOK
<1> QED BY <1>1, <1>2, <1>3, Zenon DEF IntentOf, Store!Intent

LEMMA AtomicStep ==
    ASSUME MaxFaults = 0, AtomicInv, AtomicInv', [Next]_vars
    PROVE  [Store!Next]_<<Sector, Pendings>>
<1> DEFINE S == SectorsOf(Look, data)
<1> DEFINE P == IntentsOf(Ents, Look, data)
<1>1. TypeOK /\ Good(Ents, Look) /\ Sector = S /\ Pendings = P
  BY AtomicGood, Mapping, SMTT(30)
<1>2. Sector' = S' /\ Pendings' = P' /\ P' \subseteq Store!Intent
  <2>1. (TypeOK /\ Good(Ents, Look))'
    BY AtomicGood, PTL
  <2>2. (Sector = SectorsOf(Look, data) /\ Pendings = IntentsOf(Ents, Look, data))'
    BY <2>1, Mapping, PTL
  <2>3. (IntentsOf(Ents, Look, data) \subseteq Store!Intent)'
    BY <2>1, IntentType, PTL
  <2>4. Store!Intent' = Store!Intent
    BY Zenon DEF Store!Intent
  <2> QED BY <2>2, <2>3, <2>4
<1>3. P \subseteq Store!Intent
  BY <1>1, IntentType, SMTT(30)
<1> HIDE DEF S, P
<1>4. CASE Logs
  <2>1. PICK I : I \in P' /\ (\A x \in P : x.writer # I.writer /\ x.addr # I.addr)
                 /\ P' = P \cup {I} /\ S' = S
    BY <1>4, LogStep, Zenon DEF Logs, S, P
  <2>2. Store!Log(I)
    BY <1>1, <1>2, <2>1, SMTT(30) DEF Store!Log
  <2> QED BY <1>2, <2>1, <2>2, SMTT(30) DEF Store!Next
<1>5. CASE Commits
  <2>1. PICK I : I \in P /\ S' = [S EXCEPT ![I.addr] = I.val] /\ P' = P \ {I}
    BY <1>5, CommitStep, Zenon DEF Commits, S, P
  <2>2. Store!Commit(I)
    BY <1>1, <1>2, <2>1, SMTT(30) DEF Store!Commit
  <2> QED BY <1>3, <2>1, <2>2, SMTT(30) DEF Store!Next
<1>6. CASE UNCHANGED Visible
  <2>1. S' = S /\ P' = P
    BY <1>6, Zenon DEF Visible, S, P
  <2> QED BY <1>1, <1>2, <2>1, Zenon
<1> QED BY <1>4, <1>5, <1>6, StepKinds, Zenon

LEMMA AtomicInit == Init => AtomicInv /\ Store!Init
<1> SUFFICES ASSUME Init PROVE AtomicInv /\ Store!Init
  BY Zenon
<1>1. AtomicInv
  BY InductiveInit, RecoverInit, ZenonT(30) DEF AtomicInv, Init
<1>2. TypeOK /\ Good(Ents, Look) /\ EntsOK(Ents)
  BY <1>1, AtomicGood, SMTT(30) DEF Good
<1>3. Sector \in [Lba -> Vals]
  <2>1. \A l \in Lba : btt_map_lookup(map, l) \in Blocks
    BY <1>2, EntType, SMTT(30) DEF Good
  <2> QED BY <1>2, <2>1, Zenon DEF Sector, TypeOK
<1>4. \A i \in Lanes : ~ Pending(i)
  <2>1. \A i \in Lanes : Ent(i).old_map = Ent(i).new_map
    BY SMTT(60) DEF Init, Ent, btt_log_read, btt_log_get_old, Pad, Slots
  <2> QED BY <2>1, ZenonT(40) DEF Pending
<1>5. Pendings = {}
  BY <1>4 DEF Pendings
<1> QED BY <1>1, <1>3, <1>5, SMTT(30) DEF Store!Init

\* A sector-mode arena without faults of the media is a store of atomic
\* sectors: a write is seen whole or not at all, whatever the interleaving
\* of the lanes, wherever power fails, and whether the driver, its recovery
\* or btt_check_log_map() completes it; checks and log rewrites change
\* nothing a read returns.
THEOREM AtomicSectors ==
    ASSUME MaxFaults = 0 PROVE Spec => ImplementsSectorStore
<1>1. AtomicInv /\ [Next]_vars => AtomicInv'
  BY AtomicInvStep, Zenon
<1>2. AtomicInv /\ AtomicInv' /\ [Next]_vars => [Store!Next]_<<Sector, Pendings>>
  BY AtomicStep
<1> QED BY <1>1, <1>2, AtomicInit, PTL DEF Spec, ImplementsSectorStore, Store!Spec
=============================================================================
