----------------------------- MODULE Namespace -----------------------------
(***************************************************************************)
(* The life of a namespace under the ndctl commands: enable, disable,      *)
(* create, reconfigure, destroy, check, clear-errors and read- and         *)
(* write-infoblock (ndctl/namespace.c, ndctl/check.c, ndctl/lib/libndctl.c)*)
(*                                                                         *)
(* A command is a sequence of system calls on one namespace.  Between two  *)
(* of them somebody else may mount or unmount the block device, a call may *)
(* fail, and the command may be killed.  What the kernel does with a bind, *)
(* an unbind or a write of an attribute is external and modelled from how  *)
(* the commands use it.                                                    *)
(***************************************************************************)
EXTENDS Naturals

CONSTANTS
    Labelled,       (* TRUE: a pmem namespace with labels; FALSE: a legacy one *)
    Ops,            (* the commands that are run                               *)
    Modes,          (* the modes create and reconfigure ask for                *)
    MountAnytime,   (* TRUE: a mount may also hit the raw device of a command  *)
    MaxFails        (* bound: system calls that fail, and kills                *)

Commands == {"enable", "disable", "create", "reconfig", "destroy", "check",
             "clear", "read_infoblock", "write_infoblock"}
AllModes == {"raw", "fsdax", "devdax", "sector"}

ASSUME ConstantsAssumption ==
    /\ Labelled \in BOOLEAN /\ MountAnytime \in BOOLEAN
    /\ Ops \subseteq Commands /\ Modes \subseteq AllModes /\ Modes # {}
    /\ MaxFails \in Nat

VARIABLES
    label,      (* what is allocated: "none", "uuid" (no size yet), "full" *)
    info,       (* first 8K of the media: an info block, "zero" or "data"  *)
    info2,      (* the end of the media holds a copy of a BTT info block   *)
    bad,        (* badblocks: "none", "inside" the usable area or "across" *)
                (* its border                                              *)
    force_raw,  (* the attribute of that name                              *)
    class,      (* the attribute holder_class                              *)
    claim,      (* the attribute holder: the btt, pfn or dax on top        *)
    drv,        (* the device that has a driver: "ns", the claim or "none" *)
    ram,        (* a devdax device is in use as system memory              *)
    holder,     (* who has the block device open exclusively               *)
    cmd,        (* the running command                                     *)
    before,     (* history: ns, fails, Sound and Stable at its start       *)
    fails       (* failures so far                                         *)

ns == <<label, info, force_raw, class, claim, drv, info2>>
vars == <<label, info, info2, bad, force_raw, class, claim, drv, ram, holder, cmd,
          before, fails>>

Personas == {"btt", "pfn", "dax"}

\* Mutant: raw mode is written as its own name.
Mut_Persona(mode) == CASE mode = "sector" -> "btt" [] mode = "fsdax" -> "pfn"
                       [] mode = "devdax" -> "dax" [] OTHER -> mode

\* enforce_id_to_name(): the holder class of a mode.
Persona(mode) == CASE mode = "sector" -> "btt" [] mode = "fsdax" -> "pfn"
                   [] mode = "devdax" -> "dax" [] OTHER -> "none"

NoCmd == [op |-> "none", mode |-> "raw", map |-> "dev", force |-> FALSE,
          repair |-> FALSE, autorecover |-> FALSE, pc |-> "idle", rc |-> "ok",
          raw_mode |-> FALSE, disabled |-> FALSE, did_zero |-> FALSE,
          left |-> "none"]

\* ndctl_namespace_is_configured() and ndctl_namespace_is_active()
Configured == ~Labelled \/ label = "full"
Active == drv # "none"

\* ndctl_namespace_is_configuration_idle()
ConfigurationIdle == ~Active /\ (Configured => ~Labelled)

\* Probing a namespace (external): an info block brings its personality up
\* unless the namespace is forced raw or of another class.
Probe == IF info \in Personas /\ ~force_raw /\ class \in {"none", info}
         THEN info ELSE "ns"

\* A device that claims the namespace is enabled, and the namespace would come
\* up again as what it is enabled as.
Stable == claim \in {"none", drv} /\ (Active => Probe = drv)

\* What no interrupted command has left half done: it is not left raw either.
Sound == ~force_raw /\ Stable

Init ==
    /\ label = IF Labelled THEN "none" ELSE "full"
    /\ info \in {"zero", "data"} /\ info2 = FALSE /\ bad = "none"
    /\ force_raw = FALSE /\ class = "none" /\ claim = "none" /\ drv = "none"
    /\ ram = FALSE /\ holder = "none"
    /\ cmd = NoCmd
    /\ fails = 0
    /\ before = [ns |-> ns, fails |-> fails, sound |-> Sound, stable |-> Stable]

-----------------------------------------------------------------------------
(* The kernel (external).                                                  *)

Fail == fails < MaxFails /\ fails' = fails + 1
Succeed == UNCHANGED fails

\* ndctl_namespace_enable(): 0, > 0 if a personality came up, < 0.
Enable(rc) ==
    \/ /\ Active /\ rc = (IF drv = "ns" THEN "ok" ELSE "claimed")
       /\ UNCHANGED <<drv, claim>> /\ Succeed
    \/ /\ ~Active /\ (claim # "none" \/ ~Configured)
       /\ rc = "ENXIO"
       /\ UNCHANGED <<drv, claim>> /\ Succeed
    \/ /\ ~Active /\ claim = "none" /\ Configured
       /\ \/ /\ rc = (IF Probe = "ns" THEN "ok" ELSE "claimed")
             /\ drv' = Probe
             /\ claim' = (IF Probe = "ns" THEN "none" ELSE Probe)
             /\ Succeed
          \/ rc = "ENXIO" /\ UNCHANGED <<drv, claim>> /\ Fail

\* Mutant: the personality keeps its claim.
Mut_DisableInvalidate ==
    /\ drv' = "none" /\ UNCHANGED claim /\ Succeed
    /\ holder' = "none" /\ ram' = FALSE

\* ndctl_namespace_disable_invalidate(): unbind and release the personality,
\* then unbind the namespace.  Its result is not looked at by any caller.
\* Whoever had the block device open loses it.
DisableInvalidate ==
    /\ \/ drv' = "none" /\ claim' = "none" /\ Succeed
       \/ /\ claim # "none"
          /\ drv' = "none" /\ UNCHANGED claim /\ Fail
       \/ Active /\ UNCHANGED <<drv, claim>> /\ Fail
    /\ holder' = IF drv' = "none" \/ holder = "ndctl" THEN "none" ELSE holder
    /\ ram' = (ram /\ drv' # "none")

\* A write of 0 or 1 to force_raw, or of a mode's class to holder_class.
SetRawMode(v) == \/ force_raw' = v /\ Succeed
                 \/ UNCHANGED force_raw /\ Fail
SetEnforceMode(mode) == \/ class' = Persona(mode) /\ Succeed
                        \/ UNCHANGED class /\ Fail

\* ndctl_namespace_delete(): the kernel keeps a namespace that is claimed.
Delete(rc) ==
    \/ ~Labelled /\ rc = (IF drv = "ns" THEN "EBUSY" ELSE "ok")
       /\ UNCHANGED label /\ Succeed
    \/ Labelled /\ (drv = "ns" \/ claim # "none") /\ rc = "EBUSY"
       /\ UNCHANGED label /\ Succeed
    \/ Labelled /\ drv = "none" /\ claim = "none"
       /\ \/ rc = "ok" /\ label' = "none" /\ Succeed
          \/ rc = "EIO" /\ UNCHANGED label /\ Fail

-----------------------------------------------------------------------------
(* A command: its options, its first checks, and how it ends.              *)

Idle == cmd.pc \in {"idle", "done"}
Goto(pc) == cmd' = [cmd EXCEPT !.pc = pc]
GotoRc(pc, rc) == cmd' = [cmd EXCEPT !.pc = pc, !.rc = rc]
End(rc) == GotoRc("done", rc)

\* The commands that go through namespace_prep_reconfig().
Preps == {"destroy", "reconfig"}
Infoblocks == {"read_infoblock", "write_infoblock"}

\* What a command asks for, where it asks for anything.  --map makes a
\* difference to the steps of a legacy namespace only.
Options(op) ==
    [mode  : IF op \in {"create", "reconfig"} THEN Modes
             ELSE IF op = "write_infoblock" THEN Modes \cap {"fsdax", "devdax"}
             ELSE {"raw"},
     map   : IF op \in {"create", "reconfig"} /\ ~Labelled THEN {"dev", "mem"}
             ELSE {"dev"},
     force : IF op \in Preps \cup {"check"} THEN BOOLEAN ELSE {FALSE},
     repair : IF op = "check" THEN BOOLEAN ELSE {FALSE},
     autorecover : IF op \in {"create", "reconfig"} THEN BOOLEAN ELSE {FALSE}]

(* The checks a command makes before it touches the namespace: the error   *)
(* they end it with, or "ok".                                              *)

PrepRefusal(opt) == IF Active /\ ~opt.force THEN "EBUSY" ELSE "ok"

\* A namespace without a size is too small for any mode but raw.
ReconfigRefusal(opt) ==
    IF ~Configured /\ opt.mode # "raw" THEN "EINVAL" ELSE PrepRefusal(opt)

CheckRefusal(opt) == IF Active /\ ~opt.force THEN "EBUSY" ELSE "ok"

CreateRefusal == IF ConfigurationIdle THEN "ok" ELSE "EAGAIN"

ClearRefusal == IF claim = "btt" THEN "skip" ELSE "ok"

\* Mutant: read- and write-infoblock do not ask whether it is active.
Mut_InfoblockRefusal == "ok"

InfoblockRefusal == IF Active THEN "EBUSY" ELSE "ok"

Refusal(op, opt) ==
    CASE op \in Infoblocks -> InfoblockRefusal
      [] op = "destroy" -> PrepRefusal(opt)
      [] op = "reconfig" -> ReconfigRefusal(opt)
      [] op = "check" -> CheckRefusal(opt)
      [] op = "create" -> CreateRefusal
      [] op = "clear" -> ClearRefusal
      [] OTHER -> "ok"

First(op) ==
    CASE op = "enable" -> "enable"
      [] op = "create" -> "setup"
      [] op = "clear" -> "wait_scrub"
      [] op \in Infoblocks \/ (op = "check" /\ ~Active) -> "raw_on"
      [] OTHER -> "disable_safe"

Start(op, opt) ==
    /\ Idle
    /\ LET rc == Refusal(op, opt)
       IN  cmd' = [NoCmd EXCEPT
                      !.op = op, !.mode = opt.mode, !.map = opt.map,
                      !.force = opt.force, !.repair = opt.repair,
                      !.autorecover = opt.autorecover, !.rc = rc,
                      !.pc = IF rc = "ok" THEN First(op) ELSE "done"]
    /\ before' = [ns |-> ns, fails |-> fails, sound |-> Sound, stable |-> Stable]
    /\ UNCHANGED <<label, info, info2, bad, force_raw, class, claim, drv, ram, holder,
                   fails>>

Step(pc) == cmd.pc = pc /\ UNCHANGED before

\* ACTION_ENABLE: being claimed by an enabled personality is success.
EnableNamespace ==
    /\ Step("enable")
    /\ \E rc \in {"ok", "claimed", "ENXIO"} :
          Enable(rc) /\ End(IF rc = "claimed" THEN "ok" ELSE rc)
    /\ UNCHANGED <<label, info, info2, bad, force_raw, class, ram, holder>>

-----------------------------------------------------------------------------
(* ndctl_namespace_disable_safe().                                         *)

\* Mutant: the namespace is taken down without an exclusive open.
Mut_DisableSafe ==
    /\ Step("disable_safe")
    /\ Goto("invalidate") /\ UNCHANGED holder /\ Succeed
    /\ UNCHANGED <<label, info, info2, bad, force_raw, class, claim, drv, ram>>

\* Pin the block device, if there is one, so that nobody can mount it.
DisableSafe ==
    /\ Step("disable_safe")
    /\ LET bdev == drv \in {"ns", "btt", "pfn"}
       IN  \/ bdev /\ holder = "none" /\ holder' = "ndctl" /\ Goto("invalidate")
              /\ Succeed
           \/ bdev /\ holder # "none" /\ End("EBUSY") /\ UNCHANGED holder /\ Succeed
           \/ bdev /\ End("EIO") /\ UNCHANGED holder /\ Fail
           \/ drv = "dax" /\ ram /\ End("EBUSY") /\ UNCHANGED holder /\ Succeed
           \/ ~bdev /\ ~ram /\ Goto("invalidate") /\ UNCHANGED holder /\ Succeed
    /\ UNCHANGED <<label, info, info2, bad, force_raw, class, claim, drv, ram>>

\* Mutant: destroy deletes the label and leaves the info block.
Mut_Invalidate ==
    /\ Step("invalidate")
    /\ DisableInvalidate
    /\ CASE cmd.op = "reconfig" -> Goto("enforce_raw")
         [] cmd.op = "destroy" -> Goto("delete")
         [] cmd.op = "check" -> cmd' = [cmd EXCEPT !.pc = "raw_on", !.disabled = TRUE]
         [] cmd.op = "clear" -> Goto("clear")
         [] OTHER -> End("ok")
    /\ UNCHANGED <<label, info, info2, bad, force_raw, class>>

Invalidate ==
    /\ Step("invalidate")
    /\ DisableInvalidate
    /\ CASE cmd.op \in Preps -> Goto("enforce_raw")
         [] cmd.op = "check" -> cmd' = [cmd EXCEPT !.pc = "raw_on", !.disabled = TRUE]
         [] cmd.op = "clear" -> Goto("clear")
         [] OTHER -> End("ok")
    /\ UNCHANGED <<label, info, info2, bad, force_raw, class>>

-----------------------------------------------------------------------------
(* The raw window: check, read-infoblock, write-infoblock and              *)
(* zero_info_block() enable the namespace in raw mode, work on its block   *)
(* device, and take it down again.                                         *)

EnforceRaw ==
    /\ Step("enforce_raw")
    /\ SetEnforceMode("raw") /\ Goto("raw_on")
    /\ UNCHANGED <<label, info, info2, bad, force_raw, claim, drv, ram, holder>>

\* namespace_check() remembers the raw mode it found and gives up when it
\* cannot change it; the others do neither.
RawOn ==
    /\ Step("raw_on")
    /\ LET saved == [cmd EXCEPT !.raw_mode = cmd.op = "check" /\ force_raw]
       IN  \/ force_raw' = TRUE /\ Succeed
              /\ cmd' = [saved EXCEPT !.pc = "raw_enable"]
           \/ UNCHANGED force_raw /\ Fail
              /\ cmd' = IF cmd.op = "check"
                        THEN [saved EXCEPT !.pc = "raw_off", !.rc = "EIO"]
                        ELSE [saved EXCEPT !.pc = "raw_enable"]
    /\ UNCHANGED <<label, info, info2, bad, class, claim, drv, ram, holder>>

\* zero_info_block() turns a failed enable into "skipped".
RawEnable ==
    /\ Step("raw_enable")
    /\ \E rc \in {"ok", "claimed", "ENXIO"} :
          /\ Enable(rc)
          /\ GotoRc(IF \/ rc = "ENXIO"
                       \/ rc = "claimed" /\ cmd.op \in {"check", "write_infoblock"}
                    THEN "raw_off" ELSE "raw_open",
                    IF rc = "ENXIO" /\ cmd.op \in Preps THEN "skip" ELSE rc)
    /\ UNCHANGED <<label, info, info2, bad, force_raw, class, ram, holder>>

\* All but write-infoblock open O_EXCL.  When the open fails in
\* zero_info_block(), rc is still what enabling the namespace returned.
RawOpen ==
    /\ Step("raw_open")
    /\ LET excl == cmd.op # "write_infoblock"
           can  == drv = "ns" /\ (excl => holder = "none")
       IN  \/ /\ can /\ Succeed
              /\ Goto("raw_io")
              /\ holder' = IF excl THEN "ndctl" ELSE holder
           \/ /\ (~can /\ Succeed) \/ (can /\ Fail)
              /\ GotoRc("raw_off", IF cmd.op \in Preps THEN cmd.rc ELSE "EBUSY")
              /\ UNCHANGED holder
    /\ UNCHANGED <<label, info, info2, bad, force_raw, class, claim, drv, ram>>

(* Work on the open device, and close it.                                  *)

RawIo(ops) ==
    /\ Step("raw_io") /\ cmd.op \in ops
    /\ holder' = IF holder = "ndctl" THEN "none" ELSE holder
    /\ UNCHANGED <<label, info2, bad, force_raw, class, claim, drv, ram>>

\* zero_info_block() reads the block and, unless it is zero, overwrites it.
\* The copy at the end of the media stays.
ZeroInfo ==
    /\ RawIo(Preps)
    /\ \/ /\ info' = "zero" /\ Succeed
          /\ GotoRc("raw_off", IF info = "zero" THEN "skip" ELSE "ok")
       \/ \* The read fails: the uninitialised buffer may be zero or not.
          /\ Fail
          /\ \/ UNCHANGED info /\ GotoRc("raw_off", "skip")
             \/ info' = "zero" /\ GotoRc("raw_off", "ok")
       \/ \* The write fails or is short.
          /\ Fail /\ info # "zero"
          /\ info' \in {info, "data", "zero"} /\ GotoRc("raw_off", "ENXIO")

\* namespace_check() between open and close; the work on an arena is the
\* subject of module BttArena.  With --repair a missing info block is restored
\* from its copy, in place of whatever else is there.
CheckInfo ==
    /\ RawIo({"check"})
    /\ \/ /\ info = "btt" /\ UNCHANGED info /\ Succeed
          /\ \E rc \in {"ok", "EIO"} : GotoRc("raw_off", rc)
       \/ /\ info # "btt" /\ info2 /\ cmd.repair
          /\ info' = "btt" /\ Succeed
          /\ \E rc \in {"ok", "EIO"} : GotoRc("raw_off", rc)
       \/ \* The write of the block fails or is short.
          /\ info # "btt" /\ info2 /\ cmd.repair
          /\ info' \in {info, "data", "btt"} /\ Fail /\ GotoRc("raw_off", "EIO")
       \/ /\ info # "btt" /\ info2 /\ ~cmd.repair /\ UNCHANGED info /\ Succeed
          /\ \E rc \in {"EIO", "ENXIO"} : GotoRc("raw_off", rc)
       \/ /\ info # "btt" /\ ~info2 /\ UNCHANGED info /\ Succeed
          /\ GotoRc("raw_off", "ENXIO")

ReadInfoblock ==
    /\ RawIo({"read_infoblock"}) /\ UNCHANGED info
    /\ \/ Succeed /\ GotoRc("raw_off", "ok")
       \/ Fail /\ GotoRc("raw_off", "EIO")

\* write_pfn_sb(): the write may also fail or be short.
WriteInfoblock ==
    /\ RawIo({"write_infoblock"})
    /\ \/ info' = Persona(cmd.mode) /\ Succeed /\ GotoRc("raw_off", "ok")
       \/ info' \in {info, "data"} /\ Fail /\ GotoRc("raw_off", "EIO")

\* Mutant: raw mode is left on.
Mut_RawOff ==
    /\ Step("raw_off")
    /\ Goto("raw_invalidate") /\ UNCHANGED force_raw /\ Succeed
    /\ UNCHANGED <<label, info, info2, bad, class, claim, drv, ram, holder>>

RawOff ==
    /\ Step("raw_off")
    /\ SetRawMode(cmd.raw_mode) /\ Goto("raw_invalidate")
    /\ UNCHANGED <<label, info, info2, bad, class, claim, drv, ram, holder>>

RawInvalidate ==
    /\ Step("raw_invalidate")
    /\ DisableInvalidate
    /\ cmd' = [cmd EXCEPT
                  !.did_zero = cmd.op \in Preps /\ cmd.rc = "ok",
                  !.pc = CASE cmd.op \in Preps /\ cmd.rc = "ENXIO" -> "done"
                           [] cmd.op = "destroy" -> "delete"
                           [] cmd.op = "reconfig" -> "setup"
                           [] cmd.disabled -> "reenable"
                           [] OTHER -> "done"]
    /\ UNCHANGED <<label, info, info2, bad, force_raw, class>>

\* The end of namespace_check(): back to how it was found.
Reenable ==
    /\ Step("reenable")
    /\ \E rc \in {"ok", "claimed", "ENXIO"} : Enable(rc)
    /\ End(cmd.rc)
    /\ UNCHANGED <<label, info, info2, bad, force_raw, class, ram, holder>>

\* The end of namespace_destroy().
DestroyDelete ==
    /\ Step("delete")
    /\ \/ Labelled /\ \E rc \in {"ok", "EBUSY", "EIO"} : Delete(rc) /\ End(rc)
       \/ /\ ~Labelled /\ UNCHANGED label /\ Succeed
          /\ End(IF cmd.did_zero THEN "ok" ELSE "skip")
    /\ UNCHANGED <<info, info2, bad, force_raw, class, claim, drv, ram, holder>>

-----------------------------------------------------------------------------
(* setup_namespace(), for create and reconfigure.                          *)

\* An error leaves setup_namespace() at once; namespace_create() then cleans
\* up if it was told to.
SetupFailed(rc) ==
    IF cmd.op = "create" /\ cmd.autorecover THEN GotoRc("recover", rc) ELSE End(rc)

\* An info block names the uuid of its namespace: after set_uuid(), unless
\* --uuid repeats the old one, the kernel and namespace_check() do not
\* recognise it.
KeepUuid == UNCHANGED <<info, info2>>
NewUuid == info' = (IF info \in Personas THEN "data" ELSE info) /\ info2' = FALSE

\* uuid, alt_name, size and sector_size, which the kernel only accepts for a
\* namespace that nothing uses.
SetLabel ==
    /\ Step("setup")
    /\ \/ ~Labelled /\ Goto("enforce_mode") /\ UNCHANGED label /\ KeepUuid /\ Succeed
       \/ \* a reconfigured namespace keeps its size, which may be 0
          /\ Labelled /\ ~Active /\ cmd.op = "reconfig" /\ ~Configured
          /\ label' = "uuid" /\ SetupFailed("EINVAL") /\ Succeed
          /\ KeepUuid \/ NewUuid
       \/ /\ Labelled /\ ~Active /\ claim = "none"
          /\ cmd.op = "reconfig" => Configured
          /\ label' = "full" /\ Goto("enforce_mode") /\ Succeed
          /\ KeepUuid \/ NewUuid
       \/ /\ Labelled /\ (Active \/ claim # "none")
          /\ SetupFailed("EBUSY") /\ UNCHANGED label /\ KeepUuid /\ Succeed
       \/ /\ Labelled /\ SetupFailed("EIO") /\ Fail
          /\ label' \in {label, "full"} \cup (IF label = "none" THEN {"uuid"} ELSE {})
          /\ KeepUuid \/ NewUuid
    /\ UNCHANGED <<bad, force_raw, class, claim, drv, ram, holder>>

\* A legacy namespace is in fsdax mode by itself (external): with --map=mem it
\* needs no pfn device.
do_setup_pfn == cmd.mode = "fsdax" /\ (Labelled \/ cmd.map = "dev")

\* ndctl_namespace_set_enforce_mode(), not checked for errors.
EnforceMode ==
    /\ Step("enforce_mode")
    /\ SetEnforceMode(cmd.mode)
    /\ Goto(IF do_setup_pfn \/ cmd.mode \in {"devdax", "sector"}
            THEN "set_namespace" ELSE "ns_enable")
    /\ UNCHANGED <<label, info, info2, bad, force_raw, claim, drv, ram, holder>>

NsEnable ==
    /\ Step("ns_enable")
    /\ \E rc \in {"ok", "claimed", "ENXIO"} :
          Enable(rc) /\ (IF rc = "ok" THEN End(rc) ELSE SetupFailed(rc))
    /\ UNCHANGED <<label, info, info2, bad, force_raw, class, ram, holder>>

\* The attributes of the seed device and, last, the namespace it claims, which
\* the kernel refuses when that is in use or of another class.
SetNamespace ==
    /\ Step("set_namespace")
    /\ LET free == ~Active /\ claim = "none" /\ class \in {"none", Persona(cmd.mode)}
       IN  \/ free /\ claim' = Persona(cmd.mode) /\ Goto("persona_enable") /\ Succeed
           \/ ~free /\ SetupFailed("EBUSY") /\ UNCHANGED claim /\ Succeed
           \/ SetupFailed("EIO") /\ UNCHANGED claim /\ Fail
    /\ UNCHANGED <<label, info, info2, bad, force_raw, class, drv, ram, holder>>

\* Enabling the personality writes its info block, and that of a btt twice
\* (external).  When it fails, fsdax and devdax release the namespace; sector
\* mode does not.
PersonaEnable ==
    /\ Step("persona_enable")
    /\ \/ drv' = claim /\ info' = claim /\ End("ok") /\ Succeed
       \/ /\ Fail /\ UNCHANGED drv
          /\ info' \in {info, claim}
          /\ IF cmd.autorecover /\ claim \in {"pfn", "dax"} THEN Goto("release")
             ELSE SetupFailed("ENXIO")
    /\ info2' = (info2 \/ info' = "btt")
    /\ UNCHANGED <<label, bad, force_raw, class, claim, ram, holder>>

\* Mutant: the namespace is not released.
Mut_Release ==
    /\ Step("release")
    /\ UNCHANGED claim /\ Succeed /\ SetupFailed("ENXIO")
    /\ UNCHANGED <<label, info, info2, bad, force_raw, class, drv, ram, holder>>

Release ==
    /\ Step("release")
    /\ \/ claim' = "none" /\ Succeed
       \/ UNCHANGED claim /\ Fail
    /\ SetupFailed("ENXIO")
    /\ UNCHANGED <<label, info, info2, bad, force_raw, class, drv, ram, holder>>

\* The end of namespace_create() after an error.
Recover ==
    /\ Step("recover")
    /\ SetEnforceMode("raw") /\ Goto("recover_delete")
    /\ UNCHANGED <<label, info, info2, bad, force_raw, claim, drv, ram, holder>>

RecoverDelete ==
    /\ Step("recover_delete")
    /\ \E rc \in {"ok", "EBUSY", "EIO"} : Delete(rc)
    /\ End(cmd.rc)
    /\ UNCHANGED <<info, info2, bad, force_raw, class, claim, drv, ram, holder>>

-----------------------------------------------------------------------------
(* namespace_clear_bb(): the result of clearing is overwritten by that of  *)
(* enabling the namespace again.                                           *)

\* namespace_wait_scrub(), and the resource of the device to clear.
WaitScrub ==
    /\ Step("wait_scrub")
    /\ LET resource == Configured /\ (claim = "none" \/ drv = claim)
       IN  \/ resource /\ Goto("disable_safe") /\ Succeed
           \/ ~resource /\ End("ENXIO") /\ Succeed
           \/ End("EIO") /\ Fail
    /\ UNCHANGED <<label, info, info2, bad, force_raw, class, claim, drv, ram, holder>>

ClearBadblocks ==
    /\ Step("clear")
    /\ \/ bad' = (IF bad = "inside" THEN "none" ELSE bad) /\ Succeed
          /\ cmd' = [cmd EXCEPT !.pc = "clear_enable", !.left = bad']
       \/ \* clearing a block fails
          /\ bad = "inside" /\ UNCHANGED bad /\ Fail
          /\ cmd' = [cmd EXCEPT !.pc = "clear_enable", !.left = bad]
       \/ \* the region's resource cannot be read
          UNCHANGED bad /\ GotoRc("clear_enable", "ENXIO") /\ Fail
    /\ UNCHANGED <<label, info, info2, force_raw, class, claim, drv, ram, holder>>

ClearEnable ==
    /\ Step("clear_enable")
    /\ \E rc \in {"ok", "claimed", "ENXIO"} :
          Enable(rc) /\ End(IF cmd.rc = "ok" /\ rc # "ENXIO" THEN "ok" ELSE "ENXIO")
    /\ UNCHANGED <<label, info, info2, bad, force_raw, class, ram, holder>>

-----------------------------------------------------------------------------
(* The environment.                                                        *)

\* The block device of the namespace is the raw device of a command.
RawWindow == cmd.pc \in {"raw_open", "raw_io", "raw_off", "raw_invalidate"}

Mount ==
    /\ holder = "none" /\ drv \in {"ns", "btt", "pfn"}
    /\ MountAnytime \/ ~RawWindow
    /\ holder' = "mount"
    /\ UNCHANGED <<label, info, info2, bad, force_raw, class, claim, drv, ram, cmd,
                   before, fails>>

Umount ==
    /\ holder = "mount" /\ holder' = "none"
    /\ UNCHANGED <<label, info, info2, bad, force_raw, class, claim, drv, ram, cmd,
                   before, fails>>

OnlineRam ==
    /\ drv = "dax" /\ ram' = ~ram
    /\ UNCHANGED <<label, info, info2, bad, force_raw, class, claim, drv, holder, cmd,
                   before, fails>>

Poison ==
    /\ bad = "none" /\ Configured /\ bad' \in {"inside", "across"}
    /\ UNCHANGED <<label, info, info2, force_raw, class, claim, drv, ram, holder, cmd,
                   before, fails>>

\* The command is killed: its descriptors are closed and nothing is undone.
Kill ==
    /\ ~Idle /\ Fail
    /\ cmd' = NoCmd
    /\ holder' = IF holder = "ndctl" THEN "none" ELSE holder
    /\ UNCHANGED <<label, info, info2, bad, force_raw, class, claim, drv, ram, before>>

Command ==
    \/ EnableNamespace \/ DisableSafe \/ Invalidate
    \/ EnforceRaw \/ RawOn \/ RawEnable \/ RawOpen \/ RawOff
    \/ ZeroInfo \/ CheckInfo \/ ReadInfoblock \/ WriteInfoblock
    \/ RawInvalidate \/ Reenable \/ DestroyDelete
    \/ SetLabel \/ EnforceMode \/ NsEnable \/ SetNamespace \/ PersonaEnable
    \/ Release \/ Recover \/ RecoverDelete
    \/ WaitScrub \/ ClearBadblocks \/ ClearEnable

Next ==
    \/ \E op \in Ops : \E opt \in Options(op) : Start(op, opt)
    \/ Command
    \/ Mount \/ Umount \/ OnlineRam \/ Poison \/ Kill

Spec == Init /\ [][Next]_vars

-----------------------------------------------------------------------------
(* Properties.                                                             *)

Classes == Personas \cup {"none"}
Codes == {"ok", "claimed", "skip", "EBUSY", "EINVAL", "EAGAIN", "ENXIO", "EIO"}

\* The attributes, the media and the command keep their types.
TypeOK ==
    /\ label \in {"none", "uuid", "full"} /\ (~Labelled => label = "full")
    /\ info \in Personas \cup {"zero", "data"} /\ info2 \in BOOLEAN
    /\ bad \in {"none", "inside", "across"} /\ force_raw \in BOOLEAN /\ ram \in BOOLEAN
    /\ class \in Classes /\ claim \in Classes
    /\ drv \in {"none", "ns", claim}
    /\ holder \in {"none", "mount", "ndctl"}
    /\ cmd.op \in Commands \cup {"none"} /\ cmd.rc \in Codes
    /\ fails \in 0 .. MaxFails

\* The command is over; none of its own calls failed, whatever failed or was
\* killed before it.
Ended(op) == cmd.pc = "done" /\ cmd.op = op
Unfailed == fails = before.fails

\* ndctl_namespace_disable_safe(): a command none of whose calls failed does not
\* take a namespace away from under a mount, between whichever two of its steps
\* outside the raw window (MountAnytime) the mount comes.  ("However, if the
\* namespace is mounted then the 'disable namespace' and 'destroy namespace'
\* operations will be aborted.")
MountSurvives ==
    [][Unfailed /\ holder = "mount" /\ holder' # "mount" => drv' = drv]_vars

\* namespace_check() leaves the namespace as it found it: enabled as the same
\* device if it was, disabled if it was not, in the raw mode it was in, which
\* may be that of a check that was killed.  Only --repair changes anything, the
\* missing info block of a btt: an enabled namespace is then brought up again
\* as what it is now.  A check that succeeds has seen a btt.
CheckIsTransparent ==
    Ended("check") /\ Unfailed /\ before.stable =>
        /\ \/ ns = before.ns
           \/ /\ cmd.repair /\ info = "btt"
              /\ <<label, force_raw, class, info2>> =
                    <<before.ns[1], before.ns[3], before.ns[4], TRUE>>
              /\ Active <=> before.ns[6] # "none"
              /\ Stable
        /\ cmd.rc = "ok" => info = "btt"

\* A command that ends with -EBUSY has changed nothing, whether its first
\* look or the exclusive open in disable_safe() refused it.
RefusedIsUntouched ==
    cmd.pc = "done" /\ cmd.rc = "EBUSY" /\ Unfailed /\ before.sound => ns = before.ns

\* Whatever an earlier command that failed or was killed left behind, a
\* namespace reported as destroyed is down, released, not forced raw, without
\* info block and without label: creating one in its place starts clean.  Even
\* when calls of the destroy itself failed, the disable_invalidate() whose
\* result nobody looks at among them, no label goes while the namespace is
\* enabled or claimed.
DestroyedIsGone ==
    Ended("destroy") /\ cmd.rc = "ok" =>
        /\ Labelled => label = "none" /\ drv = "none" /\ claim = "none"
        /\ Unfailed =>
              /\ drv = "none" /\ claim = "none" /\ ~force_raw /\ class = "none"
              /\ before.ns[1] = "full" => info = "zero"

\* Commands that do not fail leave a sound namespace, in whatever order they
\* run: what the next enable, check or destroy relies on.
SoundBetweenCommands == Idle /\ fails = 0 => Sound

\* --autorecover: "if a namespace creation attempt fails, ndctl will cleanup
\* the partially initialized namespace", if no second call fails meanwhile and
\* the namespace was sound before.
CreateRecovers ==
    Ended("create") /\ cmd.autorecover /\ cmd.rc \notin {"ok", "EAGAIN"}
      /\ fails <= before.fails + 1 /\ before.sound =>
        claim = "none" /\ drv = "none" /\ (Labelled => label = "none")

\* The same where setup_namespace() releases the namespace after a failed
\* enable: a pfn or dax.  A namespace that needs neither may come up as what an
\* old info block says, and a btt keeps its claim.
DaxRecovers == do_setup_pfn \/ cmd.mode = "devdax" => CreateRecovers

\* ndctl-clear-errors, "clear all errors (badblocks) on the given namespace":
\* when it reports success no block inside the usable area is left bad.
ClearedMeansClear == Ended("clear") /\ cmd.rc = "ok" => cmd.left # "inside"

=============================================================================
