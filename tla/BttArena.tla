------------------------------ MODULE BttArena ------------------------------
(***************************************************************************)
(* One arena of a BTT (block translation table) namespace and the program  *)
(* that checks and repairs it, ndctl/check.c.                              *)
(*                                                                         *)
(* On media an arena has a map (logical block -> internal block), a log    *)
(* ('flog') of nfree lanes whose newest entry names the lane's free block, *)
(* the data blocks, an info block and its copy.  The kernel driver, which  *)
(* is not part of the repository, is modelled by the three stores a write  *)
(* makes (data, log, map) and by what it does when it attaches; the        *)
(* checker is modelled from its source.  Power may fail, and the checker   *)
(* may be killed, between any two stores.                                  *)
(***************************************************************************)
EXTENDS Naturals

CONSTANTS
    ExtNlba,      (* external_nlba: logical blocks                          *)
    NFree,        (* nfree: lanes, and spare internal blocks                *)
    Vals,         (* contents of a block                                    *)
    MaxWrites,    (* bound: writes the kernel starts                        *)
    MaxFaults,    (* bound: media faults, failed calls and torn rewrites    *)
    ScribbleMaps, (* map entries a media fault may leave                    *)
    ScribbleEnts  (* log entries a media fault may leave                    *)

ASSUME SizesAssumption ==
    /\ ExtNlba \in Nat /\ NFree \in Nat \ {0} /\ NFree <= ExtNlba
    /\ MaxWrites \in Nat /\ MaxFaults \in Nat

ASSUME ValsAssumption == Vals # {}

VARIABLES
    map,        (* Lba -> map entry                                        *)
    log,        (* Lanes -> Slots -> log entry                             *)
    data,       (* Blocks -> Vals                                          *)
    info,       (* TRUE iff the primary info block verifies                *)
    info2,      (* TRUE iff its copy holds the same bytes as a good one    *)
    kern,       (* kernel driver: "off", "attach" (recovering) or "on"     *)
    lanes,      (* Lanes -> the write a lane has in progress               *)
    log_index,  (* log_index[1] of whoever has the arena open              *)
    chk,        (* the checker: options, step, result                      *)
    writes,     (* writes started so far                                   *)
    faults,     (* faults injected so far                                  *)
    trusted     (* history: no fault since layout or the last clean check  *)

media == <<map, log, data, info, info2>>
vars == <<map, log, data, info, info2, kern, lanes, log_index, chk,
          writes, faults, trusted>>

-----------------------------------------------------------------------------
(* Layout of the arena.                                                    *)

InternalNlba == ExtNlba + NFree
Lba    == 0 .. ExtNlba - 1
Blocks == 0 .. InternalNlba - 1
Lanes  == 0 .. NFree - 1
Slots  == 0 .. 3

\* The two flag bits of a map entry (MAP_TRIM_SHIFT, MAP_ERR_SHIFT): both
\* clear is the initial state, both set a normal entry.
MapEnt == [flags : {"init", "trim", "error", "normal"}, blk : Nat]
LogEnt == [lba : Nat, old_map : Nat, new_map : Nat, seq : Nat]

ASSUME ScribblesAssumption ==
    ScribbleMaps \subseteq MapEnt /\ ScribbleEnts \subseteq LogEnt

Pad == [lba |-> 0, old_map |-> 0, new_map |-> 0, seq |-> 0]
ent_is_padding(e) == e = Pad

\* btt_map_lookup(): an entry in the initial state maps a block to itself.
btt_map_lookup(m, l) == IF m[l].flags = "init" THEN l ELSE m[l].blk

\* Mutant: the order of sequence numbers without their wrap from 3 to 1.
Mut_log_get_old(g, s) == IF g[0].seq < g[s].seq THEN 0 ELSE 1

\* btt_log_get_old(): which of the group's two entries, 0 or 1, is older.
\* Sequence numbers run 1, 2, 3, 1, ...; 0 is a slot never written.
btt_log_get_old(g, s) ==
    LET s0 == g[0].seq
        s1 == g[s].seq
    IN  IF s0 = 0 \/ (s0 < s1 /\ s1 - s0 = 1) \/ (s0 >= s1 /\ s0 - s1 # 1)
        THEN 0 ELSE 1

\* btt_log_read(): the newest entry of a lane.
btt_log_read(g, s) == IF btt_log_get_old(g, s) = 0 THEN g[s] ELSE g[0]

\* The slot of a lane the next log entry goes to.
OldSlot(g, s) == IF btt_log_get_old(g, s) = 0 THEN 0 ELSE s

-----------------------------------------------------------------------------
(* log_set_indices(): which slots of the log groups are in use.  LogIndex  *)
(* (lg, s) says that the scan of the groups succeeds with log_index =      *)
(* {0, s}.                                                                 *)

Before(p, q) == p[1] < q[1] \/ (p[1] = q[1] /\ p[2] < q[2])

Valid(lg) == {p \in Lanes \X Slots : ~ ent_is_padding(lg[p[1]][p[2]])}

FirstIn(p, S) == p \in S /\ \A q \in S : q = p \/ Before(p, q)

\* A group counts as unused when three of the slots read before the second
\* index was found, at p1, are padding (pad_count).
Unused(lg, i, p1) ==
    \E k \in Slots : \A j \in Slots \ {k} :
        ent_is_padding(lg[i][j]) /\ Before(<<i, j>>, p1)

\* Mutant: any second slot is accepted, known padding scheme or not.
Mut_LogIndex(lg, s) ==
    LET others == {p \in Valid(lg) : p[2] # 0}
    IN  IF others = {} THEN s = 1
        ELSE \E p1 \in others : FirstIn(p1, others) /\ s = p1[2]

LogIndex(lg, s) ==
    LET valid == Valid(lg)
        others == {p \in valid : p[2] # 0}
    IN  /\ \E p0 \in valid : FirstIn(p0, valid) /\ p0[2] = 0
        /\ \/ others = {} /\ s = 1
           \/ \E p1 \in others :
                 /\ FirstIn(p1, others)
                 /\ \A q \in Lanes \X Slots : Before(p1, q) =>
                       /\ q[2] = 0 => q \in valid
                       /\ q[2] \notin {0, p1[2]} => q \notin valid
                 /\ s = IF \A i \in Lanes : Unused(lg, i, p1)
                        THEN 1 ELSE p1[2]
        /\ s \in {1, 2}

-----------------------------------------------------------------------------
(* The newest entry of every lane, and what follows from it.               *)

Ent(i) == btt_log_read(log[i], log_index)

\* Mutant: an entry is replayed whenever it differs from the map.
Mut_Pending(i) == Ent(i).new_map # btt_map_lookup(map, Ent(i).lba)

\* btt_check_log_map(): the log entry was written but the map was not.
Pending(i) ==
    LET e == Ent(i)
        mapping == btt_map_lookup(map, e.lba)
    IN  e.new_map # mapping /\ e.old_map = mapping

\* The block a lane may write to: once a pending write is rolled forward the
\* lane's free block is old_map, until then it is still new_map.
FreeBlk(i) == IF Pending(i) THEN Ent(i).new_map ELSE Ent(i).old_map

RollForward(i) ==
    map' = [map EXCEPT ![Ent(i).lba] =
               [flags |-> "normal", blk |-> Ent(i).new_map]]

NoWrite == [pc |-> "idle", lba |-> 0]
NoCheck == [pc |-> "idle", lane |-> 0, repair |-> FALSE, logfix |-> FALSE,
            saved |-> FALSE, rc |-> "none"]

\* The layout the kernel writes when it creates an arena (external).
Init ==
    /\ map = [l \in Lba |-> [flags |-> "init", blk |-> 0]]
    /\ log = [i \in Lanes |-> [j \in Slots |->
                 IF j = 0 THEN [lba |-> i, old_map |-> ExtNlba + i,
                                new_map |-> ExtNlba + i, seq |-> 1]
                 ELSE Pad]]
    /\ data \in [Blocks -> Vals]
    /\ info = TRUE /\ info2 = TRUE
    /\ kern = "off"
    /\ lanes = [i \in Lanes |-> NoWrite]
    /\ log_index = 1
    /\ chk = NoCheck
    /\ writes = 0 /\ faults = 0
    /\ trusted = TRUE

-----------------------------------------------------------------------------
(* The kernel driver (external).                                           *)

\* Attach: a kernel from 4.15 on deduces the slots as log_set_indices()
\* does; an older one always uses slots (0, 2) and is only given a layout
\* that has nothing in slot 1.  The metadata must be trusted and hold live
\* sequence numbers: what the driver does otherwise is not this program's.
KernelAttach(s) ==
    /\ kern = "off" /\ chk.pc \in {"idle", "done"}
    /\ trusted /\ info
    /\ \/ LogIndex(log, s)
       \/ s = 2 /\ \A i \in Lanes : ent_is_padding(log[i][1])
    /\ \A i \in Lanes : btt_log_read(log[i], s).seq # 0
    /\ kern' = "attach"
    /\ log_index' = s
    /\ chk' = NoCheck
    /\ UNCHANGED <<map, log, data, info, info2, lanes, writes, faults, trusted>>

KernelRecover(i) ==
    /\ kern = "attach" /\ Pending(i)
    /\ RollForward(i)
    /\ UNCHANGED <<log, data, info, info2, kern, lanes, log_index, chk,
                   writes, faults, trusted>>

KernelOnline ==
    /\ kern = "attach" /\ \A i \in Lanes : ~ Pending(i)
    /\ kern' = "on"
    /\ UNCHANGED <<map, log, data, info, info2, lanes, log_index, chk,
                   writes, faults, trusted>>

\* A write: the data goes to the lane's free block ...
KernelData(i, l, v) ==
    /\ kern = "on" /\ lanes[i].pc = "idle" /\ writes < MaxWrites
    /\ data' = [data EXCEPT ![FreeBlk(i)] = v]
    /\ lanes' = [lanes EXCEPT ![i] = [pc |-> "data", lba |-> l]]
    /\ writes' = writes + 1
    /\ UNCHANGED <<map, log, info, info2, kern, log_index, chk, faults, trusted>>

\* ... then the log entry, under the lock of the map entry ...
KernelFlog(i) ==
    LET l == lanes[i].lba
        e == Ent(i)
    IN  /\ kern = "on" /\ lanes[i].pc = "data"
        /\ \A j \in Lanes : lanes[j].pc = "logged" => lanes[j].lba # l
        /\ log' = [log EXCEPT ![i][OldSlot(log[i], log_index)] =
                      [lba |-> l, old_map |-> btt_map_lookup(map, l),
                       new_map |-> e.old_map, seq |-> (e.seq % 3) + 1]]
        /\ lanes' = [lanes EXCEPT ![i].pc = "logged"]
        /\ UNCHANGED <<map, data, info, info2, kern, log_index, chk,
                       writes, faults, trusted>>

\* ... then the map entry.
KernelMap(i) ==
    /\ kern = "on" /\ lanes[i].pc = "logged"
    /\ RollForward(i)
    /\ lanes' = [lanes EXCEPT ![i] = NoWrite]
    /\ UNCHANGED <<log, data, info, info2, kern, log_index, chk,
                   writes, faults, trusted>>

KernelDetach ==
    /\ kern = "on" /\ \A i \in Lanes : lanes[i].pc = "idle"
    /\ kern' = "off"
    /\ UNCHANGED <<map, log, data, info, info2, lanes, log_index, chk,
                   writes, faults, trusted>>

\* Power fails under the driver, or under the checker.
Crash ==
    /\ kern # "off" \/ chk.pc \notin {"idle", "done"}
    /\ kern' = "off"
    /\ lanes' = [i \in Lanes |-> NoWrite]
    /\ chk' = NoCheck
    /\ UNCHANGED <<map, log, data, info, info2, log_index, writes, faults,
                   trusted>>

-----------------------------------------------------------------------------
(* Faults of the media, as test/btt-check.sh provokes them with dd.        *)

Fault ==
    /\ kern = "off" /\ chk.pc = "idle" /\ faults < MaxFaults
    /\ faults' = faults + 1
    /\ trusted' = FALSE
    /\ UNCHANGED <<data, kern, lanes, log_index, chk, writes>>

ScribbleMap(l, m) ==
    /\ Fault
    /\ map' = [map EXCEPT ![l] = m]
    /\ UNCHANGED <<log, info, info2>>

ScribbleLog(i, j, e) ==
    /\ Fault
    /\ log' = [log EXCEPT ![i][j] = e]
    /\ UNCHANGED <<map, info, info2>>

WipeInfo ==
    /\ Fault
    /\ \/ info' = FALSE /\ info2' = info2
       \/ info' = info /\ info2' = FALSE
    /\ UNCHANGED <<map, log>>

-----------------------------------------------------------------------------
(* namespace_check().  Nobody else has the namespace: it is in raw mode    *)
(* and the block device is opened O_EXCL.  Each action is a stretch of the *)
(* code with at most one store to media.                                   *)

Goto(pc) == chk' = [chk EXCEPT !.pc = pc, !.lane = 0]

\* A check that ends: btt_check_arenas() returns, the mappings go away.
Finish(rc) ==
    /\ chk' = [chk EXCEPT !.pc = "done", !.rc = rc]
    /\ trusted' = (trusted \/ rc = "BTT_OK")

NoStore == UNCHANGED media /\ UNCHANGED <<faults>>

CheckStep(pc) ==
    /\ chk.pc = pc
    /\ UNCHANGED <<kern, lanes, writes>>

CheckStart(repair, logfix) ==
    /\ kern = "off" /\ chk.pc \in {"idle", "done"}
    /\ chk' = [NoCheck EXCEPT
                  !.repair = repair, !.logfix = logfix,
                  !.pc = IF logfix /\ ~repair THEN "done" ELSE "discover",
                  !.rc = IF logfix /\ ~repair THEN "EINVAL" ELSE "none"]
    /\ UNCHANGED <<map, log, data, info, info2, kern, lanes, log_index,
                   writes, faults, trusted>>

\* btt_discover_arenas(): the info block, or its restoration from the copy.
\* A good copy without --repair is EIO when the block belongs at the offset
\* that btt_recover_first_sb() tries last (BTT 2.0) and ENXIO otherwise.  A
\* read, a write or an fsync that fails ends the check; by then the restored
\* block may be on media.
Discover ==
    /\ CheckStep("discover")
    /\ UNCHANGED <<map, log, data, info2, log_index>>
    /\ \/ info /\ Goto("indices") /\ UNCHANGED <<info, faults, trusted>>
       \/ /\ ~info /\ info2 /\ chk.repair
          /\ info' = TRUE
          /\ Goto("indices") /\ UNCHANGED <<faults, trusted>>
       \/ /\ ~info /\ info2 /\ ~chk.repair
          /\ \E rc \in {"EIO", "ENXIO"} : Finish(rc)
          /\ UNCHANGED <<info, faults>>
       \/ ~info /\ ~info2 /\ Finish("ENXIO") /\ UNCHANGED <<info, faults>>
       \/ /\ faults < MaxFaults
          /\ faults' = faults + 1
          /\ info' \in {info, info \/ (info2 /\ chk.repair)}
          /\ Finish("EIO")

SetIndices ==
    /\ CheckStep("indices") /\ NoStore
    /\ \/ \E s \in Slots :
             /\ LogIndex(log, s)
             /\ log_index' = s
             /\ Goto("log_entries") /\ UNCHANGED trusted
       \/ /\ ~ \E s \in Slots : LogIndex(log, s)
          /\ Finish("ENXIO") /\ UNCHANGED log_index

\* btt_check_log_entries(): the first lane or field that is wrong decides.
LogEntriesError ==
    LET s0(i) == log[i][0].seq
        s1(i) == log[i][log_index].seq
        Eql(i) == s0(i) = s1(i)
        OobSeq(i) == s0(i) > 3 \/ s1(i) > 3
        OobLba(i) == Ent(i).lba >= ExtNlba
        OobOld(i) == Ent(i).old_map >= InternalNlba
        OobNew(i) == Ent(i).new_map >= InternalNlba
        Least(i, Bad(_)) == Bad(i) /\ \A j \in Lanes : j < i => ~ Bad(j)
        BadSeq(i) == Eql(i) \/ OobSeq(i)
        BadEnt(i) == OobLba(i) \/ OobOld(i) \/ OobNew(i)
    IN  IF \E i \in Lanes : BadSeq(i)
        THEN IF \E i \in Lanes : Least(i, BadSeq) /\ Eql(i)
             THEN "BTT_LOG_EQL_SEQ" ELSE "BTT_LOG_OOB_SEQ"
        ELSE IF \E i \in Lanes : BadEnt(i)
             THEN IF \E i \in Lanes : Least(i, BadEnt) /\ OobLba(i)
                  THEN "BTT_LOG_OOB_LBA"
                  ELSE IF \E i \in Lanes : Least(i, BadEnt) /\ OobOld(i)
                       THEN "BTT_LOG_OOB_OLD" ELSE "BTT_LOG_OOB_NEW"
             ELSE "BTT_OK"

CheckLogEntries ==
    /\ CheckStep("log_entries") /\ NoStore /\ UNCHANGED log_index
    /\ \/ LogEntriesError = "BTT_OK" /\ Goto("map_entries") /\ UNCHANGED trusted
       \/ LogEntriesError # "BTT_OK" /\ Finish(LogEntriesError)

\* btt_check_map_entries()
MapInBounds == \A l \in Lba : btt_map_lookup(map, l) < InternalNlba

CheckMapEntries ==
    /\ CheckStep("map_entries") /\ NoStore /\ UNCHANGED log_index
    /\ \/ MapInBounds /\ Goto("log_map") /\ UNCHANGED trusted
       \/ ~ MapInBounds /\ Finish("BTT_MAP_OOB")

\* btt_check_log_map(), one lane.  Without --repair a pending write is only
\* reported.  A failed msync is remembered and reported at the end; the
\* store may or may not have reached the media.
\* Mutant: the loop over the lanes does not advance.
Mut_NextLane(saved) == chk' = [chk EXCEPT !.saved = saved]

NextLane(saved) ==
    chk' = [chk EXCEPT !.lane = @ + 1, !.saved = saved]

CheckLogMap ==
    /\ CheckStep("log_map") /\ chk.lane < NFree
    /\ UNCHANGED <<log, data, info, info2, log_index, trusted>>
    /\ LET i == chk.lane
           write == Pending(i) /\ chk.repair
       IN  \/ write /\ RollForward(i) /\ NextLane(chk.saved) /\ UNCHANGED faults
           \/ /\ write /\ faults < MaxFaults
              /\ faults' = faults + 1
              /\ RollForward(i) \/ UNCHANGED map
              /\ NextLane(TRUE)
           \/ ~write /\ NextLane(chk.saved) /\ UNCHANGED <<map, faults>>

CheckLogMapDone ==
    /\ CheckStep("log_map") /\ chk.lane = NFree /\ NoStore /\ UNCHANGED log_index
    /\ \/ ~ chk.saved /\ Goto("info2") /\ UNCHANGED trusted
       \/ chk.saved /\ Finish("BTT_LOG_MAP_ERR")

\* Mutants: the copy is restored without asking, or never.
Mut_CheckInfo2_always ==
    /\ CheckStep("info2")
    /\ info2' = TRUE
    /\ Goto("bitmap")
    /\ UNCHANGED <<map, log, data, info, log_index, faults, trusted>>

Mut_CheckInfo2_never ==
    CheckStep("info2") /\ NoStore /\ Goto("bitmap") /\ UNCHANGED <<log_index, trusted>>

\* btt_check_info2(): without --repair a bad copy is reported and tolerated.
\* When the msync of btt_copy_to_info2() fails the check ends there, with the
\* copy on media or not.
CheckInfo2 ==
    /\ CheckStep("info2")
    /\ UNCHANGED <<map, log, data, info, log_index>>
    /\ \/ /\ info2' = (info2 \/ chk.repair)
          /\ Goto("bitmap") /\ UNCHANGED <<faults, trusted>>
       \/ /\ ~info2 /\ chk.repair /\ faults < MaxFaults
          /\ faults' = faults + 1
          /\ info2' \in BOOLEAN
          /\ Finish("EIO")

\* Mutant: the free blocks of the lanes are not entered in the bitmap.
Mut_BitmapFull ==
    \A l, k \in Lba : btt_map_lookup(map, l) = btt_map_lookup(map, k) => l = k

\* btt_check_bitmap(): every internal block is referenced exactly once, by
\* the map or as the free block of a lane.
BitmapFull ==
    LET mapped == {btt_map_lookup(map, l) : l \in Lba}
        free   == {Ent(i).old_map : i \in Lanes}
    IN  /\ \A l, k \in Lba :
              btt_map_lookup(map, l) = btt_map_lookup(map, k) => l = k
        /\ \A i \in Lanes : Ent(i).old_map \notin mapped
        /\ \A i, j \in Lanes : Ent(i).old_map = Ent(j).old_map => i = j
        /\ mapped \cup free = Blocks

CheckBitmap ==
    /\ CheckStep("bitmap") /\ NoStore /\ UNCHANGED log_index
    /\ \/ BitmapFull /\ chk.logfix /\ Goto("rewrite") /\ UNCHANGED trusted
       \/ BitmapFull /\ ~chk.logfix /\ Finish("BTT_OK")
       \/ ~BitmapFull /\ Finish("BTT_BITMAP_ERROR")

\* Mutant: the other slots of the group are not cleared.
Mut_FreshGroup(i) == [log[i] EXCEPT ![0] = [Ent(i) EXCEPT !.seq = 1]]

\* btt_rewrite_log(), one lane: the newest entry as a fresh slot 0, with
\* nothing in the other slots.
FreshGroup(i) ==
    [j \in Slots |-> IF j = 0 THEN [Ent(i) EXCEPT !.seq = 1] ELSE Pad]

\* The loop stores the groups in lane order but never calls msync(), so they
\* reach the media in any order: an interruption leaves any set of lanes
\* rewritten.  A group whose bytes do not change needs no store.
RewriteGroup(i) ==
    /\ CheckStep("rewrite") /\ log[i] # FreshGroup(i)
    /\ log' = [log EXCEPT ![i] = FreshGroup(i)]
    /\ UNCHANGED <<map, data, info, info2, log_index, chk, faults, trusted>>

RewriteLog == \E i \in Lanes : RewriteGroup(i)

\* The check ends, and the close of the device writes back what is left.
RewriteDone ==
    /\ CheckStep("rewrite") /\ \A i \in Lanes : log[i] = FreshGroup(i)
    /\ NoStore /\ UNCHANGED log_index
    /\ Finish("BTT_OK")

\* Power fails, or the checker dies, inside the store of a group: some of
\* its slots are written.
RewriteTorn ==
    /\ CheckStep("rewrite") /\ faults < MaxFaults
    /\ \E i \in Lanes, torn \in SUBSET Slots \ {{}, Slots} :
          /\ log[i] # FreshGroup(i)
          /\ log' = [log EXCEPT ![i] =
                       [j \in Slots |-> IF j \in torn THEN FreshGroup(i)[j]
                                        ELSE log[i][j]]]
    /\ chk' = NoCheck
    /\ faults' = faults + 1
    /\ trusted' = FALSE
    /\ UNCHANGED <<map, data, info, info2, log_index>>

\* SIGBUS on a mapped read: sigbus_hdl() jumps to out_close.
Sigbus ==
    /\ chk.pc \in {"indices", "log_entries", "map_entries", "log_map", "info2",
                   "bitmap", "rewrite"}
    /\ faults < MaxFaults
    /\ faults' = faults + 1
    /\ Finish("EFAULT")
    /\ UNCHANGED <<map, log, data, info, info2, kern, lanes, log_index, writes>>

Checker ==
    \/ Discover \/ SetIndices \/ CheckLogEntries \/ CheckMapEntries
    \/ CheckLogMap \/ CheckLogMapDone \/ CheckInfo2 \/ CheckBitmap
    \/ RewriteLog \/ RewriteDone

Kernel ==
    \/ \E s \in {1, 2} : KernelAttach(s)
    \/ \E i \in Lanes : KernelRecover(i) \/ KernelFlog(i) \/ KernelMap(i)
    \/ \E i \in Lanes, l \in Lba, v \in Vals : KernelData(i, l, v)
    \/ KernelOnline \/ KernelDetach

Scribble ==
    \/ \E l \in Lba, m \in ScribbleMaps : ScribbleMap(l, m)
    \/ \E i \in Lanes, j \in Slots, e \in ScribbleEnts : ScribbleLog(i, j, e)
    \/ WipeInfo

Next ==
    \/ Kernel
    \/ Checker
    \/ \E repair, logfix \in BOOLEAN : CheckStart(repair, logfix)
    \/ Crash \/ Sigbus \/ RewriteTorn
    \/ Scribble

Spec == Init /\ [][Next]_vars

\* Once started, namespace_check() is a straight run of loops over the lanes
\* that waits for nobody.
FairSpec == Spec /\ WF_vars(Checker)

-----------------------------------------------------------------------------
(* Properties.                                                             *)

CheckPcs == {"idle", "discover", "indices", "log_entries", "map_entries",
             "log_map", "info2", "bitmap", "rewrite", "done"}

\* The error codes of btt_xlat_status() and the errnos of namespace_check().
CheckCodes == {"none", "EINVAL", "EIO", "ENXIO", "EFAULT", "BTT_OK",
               "BTT_LOG_EQL_SEQ", "BTT_LOG_OOB_SEQ", "BTT_LOG_OOB_LBA",
               "BTT_LOG_OOB_OLD", "BTT_LOG_OOB_NEW", "BTT_MAP_OOB",
               "BTT_LOG_MAP_ERR", "BTT_BITMAP_ERROR"}

CheckState == [pc : CheckPcs, lane : Nat, repair : BOOLEAN, logfix : BOOLEAN,
               saved : BOOLEAN, rc : CheckCodes]

\* The variables keep their shape: every store of check.c into the map, the
\* log or the info blocks leaves an entry of the right form.
TypeOK ==
    /\ map \in [Lba -> MapEnt]
    /\ log \in [Lanes -> [Slots -> LogEnt]]
    /\ data \in [Blocks -> Vals]
    /\ info \in BOOLEAN /\ info2 \in BOOLEAN /\ trusted \in BOOLEAN
    /\ kern \in {"off", "attach", "on"}
    /\ lanes \in [Lanes -> [pc : {"idle", "data", "logged"}, lba : Lba]]
    /\ log_index \in {1, 2}
    /\ chk \in CheckState
    /\ writes \in Nat /\ faults \in Nat

\* The map and the free blocks of the lanes divide the internal blocks among
\* them, a write in progress counted once.
Partition ==
    LET Look(l) == btt_map_lookup(map, l)
    IN  /\ \A l \in Lba : Look(l) \in Blocks
        /\ \A i \in Lanes : FreeBlk(i) \in Blocks
        /\ \A l, k \in Lba : Look(l) = Look(k) => l = k
        /\ \A i, j \in Lanes : FreeBlk(i) = FreeBlk(j) => i = j
        /\ \A l \in Lba, i \in Lanes : Look(l) # FreeBlk(i)
        /\ \A b \in Blocks : \/ \E l \in Lba : Look(l) = b
                             \/ \E i \in Lanes : FreeBlk(i) = b

\* Metadata that no fault has touched, or that a check has passed since
\* (btt_check_arenas() returned 0), never names a block twice or loses one:
\* not while writes race in the lanes, not after a power failure between the
\* log and the map, not half way through a repair or a rewrite of the log,
\* and not when an older kernel takes a rewritten log over.
TrustedPartition == trusted => Partition

\* The writes btt_check_log_map() would find interrupted if power failed now
\* are exactly those the driver has logged and not yet mapped: the order of
\* the sequence numbers, wrap included, names the entry logged last, and an
\* older entry whose block was since reused is not taken for a pending one.
PendingIsLogged ==
    kern = "on" => \A i \in Lanes :
        /\ Pending(i) <=> lanes[i].pc = "logged"
        /\ Pending(i) => Ent(i).lba = lanes[i].lba

\* What a read of a logical block returns.
Sector == [l \in Lba |-> data[btt_map_lookup(map, l)]]

\* A power failure at any point, during a write, a repair or a rewrite of
\* the log (between two lanes), is something a check with --repair recovers
\* from: it returns BTT_OK.
RepairRestores ==
    faults = 0 /\ chk.pc = "done" /\ chk.repair => chk.rc = "BTT_OK"

\* After a check with --repair that returned BTT_OK there is nothing left
\* for another to store: no write is pending, both info blocks are good.
RepairedNeedsNoRepair ==
    chk.pc = "done" /\ chk.repair /\ chk.rc = "BTT_OK" =>
        info /\ info2 /\ \A i \in Lanes : ~ Pending(i)

\* repair_msg(): without --repair the checker stores nothing.
CheckOnlyReads ==
    [][chk.pc \notin {"idle", "done"} /\ ~ chk.repair => UNCHANGED media]_vars

\* A check that was started ends, unless power fails.
CheckTerminates == chk.pc = "discover" ~> chk.pc \in {"idle", "done"}

\* The arena is a store of atomic sectors: a logged write is invisible until
\* its map entry is stored, by the driver, by its recovery or by --repair,
\* and nothing else ever changes what a read returns.
Pendings == {[writer |-> i, addr |-> Ent(i).lba, val |-> data[Ent(i).new_map]] :
                 i \in {j \in Lanes : Pending(j)}}

Store == INSTANCE SectorStore WITH
            Sectors <- Lba, Writers <- Lanes, Vals <- Vals,
            sector <- Sector, intents <- Pendings

ImplementsSectorStore == Store!Spec

=============================================================================
