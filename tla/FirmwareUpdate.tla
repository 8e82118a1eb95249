-------------------------- MODULE FirmwareUpdate --------------------------
(***************************************************************************)
(* ndctl update-firmware and activate-firmware (ndctl/dimm.c, ndctl/bus.c) *)
(*                                                                         *)
(* An image of Chunks chunks is uploaded to each of several DIMMs in turn: *)
(* a start command opens a context in the device, send commands carry the  *)
(* chunks, a finish command has the device verify what it got, and a query *)
(* tells how that ended.  All DIMMs are sent the same open file.  A second *)
(* process may be updating a DIMM, and may abort our upload.  Each command *)
(* to a device may fail, and the tool may be killed between any two.  The  *)
(* device is external: it rejects a command of a context that is not open. *)
(***************************************************************************)
EXTENDS Naturals, Sequences, FiniteSets

CONSTANTS
    Dimms,          (* the DIMMs of the bus                                   *)
    Chunks,         (* size of the image, in units of the maximal send length *)
    Limit,          (* DIMMs that can be armed before activation overflows    *)
    NoDimm,         (* no DIMM at work                                        *)
    Ops,            (* the commands that are run: "update", "activate"        *)
    Forces,         (* the values of --force that are used                    *)
    Toggles,        (* changes of the arm state: "arm", "disarm", "none"      *)
    MaxQueries,     (* bound: finish queries before the time limit is reached *)
    MaxOthers,      (* bound: starts and aborts by another process            *)
    MaxFails        (* bound: commands that fail, and kills                   *)

ASSUME ConstantsAssumption ==
    /\ IsFiniteSet(Dimms) /\ NoDimm \notin Dimms
    /\ Ops \subseteq {"update", "activate"} /\ Forces \subseteq BOOLEAN
    /\ Toggles \subseteq {"arm", "disarm", "none"}
    /\ Chunks \in Nat \ {0} /\ Limit \in Nat
    /\ MaxQueries \in Nat /\ MaxOthers \in Nat /\ MaxFails \in Nat

VARIABLES
    dev,        (* what each device holds: the open context and its data *)
    armed,      (* DIMMs armed for activation                            *)
    noidle,     (* the attribute that forbids idling during activation   *)
    f_pos,      (* position in the input file                            *)
    cmd,        (* the running command                                   *)
    todo,       (* DIMMs its loop has not reached                        *)
    counted,    (* DIMMs it counts as done                               *)
    took,       (* history: DIMMs that accepted what was last sent them  *)
    others,     (* starts and aborts by the other process so far         *)
    fails       (* failures so far                                       *)

vars == <<dev, armed, noidle, f_pos, cmd, todo, counted, took, others, fails>>

Image == [i \in 1..Chunks |-> i]

\* "ours" and "other": a context is open and being filled; "finishing": the
\* device verifies our data; "done": it has accepted them.
Owners == {"none", "ours", "finishing", "done", "other"}
Devices == [owner : Owners, got : Seq(Nat)]
NewContext(who) == [owner |-> who, got |-> <<>>]
Busy(d) == dev[d].owner \in {"ours", "finishing", "other"}

\* ndctl_bus_get_fw_activate_state() = NDCTL_FWA_ARM_OVERFLOW
Overflow == Cardinality(armed) > Limit

Options == [op : {"update", "activate"}, force : BOOLEAN, infile : BOOLEAN,
            toggle : {"arm", "disarm", "none"}, idle : BOOLEAN, dryrun : BOOLEAN]
Steps == {"idle", "next", "update", "start", "abort_busy", "send", "finish",
          "abort", "query", "arm", "recheck", "set_noidle", "activate",
          "clear_noidle"}

\* dimm: the DIMM at work; start: uctx->start is not NULL; copied: chunks sent.
\* History: alone, no other process had a context open when the command began;
\* since, the failures and the starts and aborts of others up to then.
Cmds == [pc : Steps, opt : Options, dimm : Dimms \cup {NoDimm}, start : BOOLEAN,
         tries : 0..3, copied : Nat, queries : 0..MaxQueries,
         alone : BOOLEAN, since : Nat]

NoCmd == [pc |-> "idle", dimm |-> NoDimm, start |-> FALSE,
          tries |-> 0, copied |-> 0, queries |-> 0, alone |-> FALSE, since |-> 0,
          opt |-> [op |-> "update", force |-> FALSE,
                   infile |-> FALSE, toggle |-> "none", idle |-> FALSE,
                   dryrun |-> FALSE]]

Init ==
    /\ dev = [d \in Dimms |-> NewContext("none")]
    /\ armed = {} /\ noidle = FALSE /\ f_pos = 0
    /\ cmd = NoCmd
    /\ todo = {} /\ counted = {} /\ took = {}
    /\ others = 0 /\ fails = 0

Fail == fails < MaxFails /\ fails' = fails + 1
Succeed == UNCHANGED fails
Goto(pc) == cmd' = [cmd EXCEPT !.pc = pc]

\* The process is gone, and with it what it held.
End == cmd' = NoCmd /\ todo' = {} /\ counted' = {} /\ f_pos' = 0

-----------------------------------------------------------------------------
(* The loop over the DIMMs.                                                *)

\* dimm_action(): the options, and the input file opened once for all DIMMs;
\* without a file the command only changes the arm state.
BeginUpdate ==
    /\ cmd.pc = "idle"
    /\ \E o \in Options :
          /\ o.op = "update" /\ o.op \in Ops /\ o.force \in Forces
          /\ o.toggle \in Toggles /\ ~o.idle /\ ~o.dryrun
          /\ ~o.infile => o.toggle # "none"
          /\ cmd' = [cmd EXCEPT !.pc = "next", !.opt = o, !.since = fails + others,
                                !.alone = \A d \in Dimms : dev[d].owner # "other"]
    /\ todo' = Dimms /\ took' = {}
    /\ UNCHANGED <<dev, armed, noidle, counted, f_pos, others, fails>>

\* dimm_action(): the next DIMM, or the end.
NextDimm ==
    /\ cmd.pc = "next"
    /\ \/ todo = {} /\ End
       \/ \E d \in todo :
             /\ cmd' = [cmd EXCEPT !.pc = "update", !.dimm = d]
             /\ todo' = todo \ {d} /\ UNCHANGED <<counted, f_pos>>
    /\ UNCHANGED <<dev, armed, noidle, took, others, fails>>

\* The action returns to dimm_action(), which counts the DIMM if rc is 0.
\* What update_firmware() had of its own is not looked at again.
Return(rc) ==
    /\ cmd' = [NoCmd EXCEPT !.pc = "next", !.opt = cmd.opt,
                            !.alone = cmd.alone, !.since = cmd.since]
    /\ UNCHANGED todo
    /\ counted' = IF rc = "ok" THEN counted \cup {cmd.dimm} ELSE counted

\* update_verify_input(), submit_get_firmware_info(): nothing changes but that
\* the command may fail.
GetInfo(rc) == \/ rc = "ok" /\ Succeed
               \/ rc = "ENXIO" /\ Fail

\* action_update(): toggle the arm state only, refuse while a scrub is running,
\* or go on to the upload.
ActionUpdate ==
    /\ cmd.pc = "update"
    /\ \/ ~cmd.opt.infile /\ Goto("arm") /\ UNCHANGED <<todo, counted, fails>>
       \/ /\ cmd.opt.infile /\ ~cmd.opt.force       (* a scrub is running *)
          /\ Return("EBUSY") /\ UNCHANGED fails
       \/ /\ cmd.opt.infile
          /\ \/ /\ GetInfo("ok")
                /\ cmd' = [cmd EXCEPT !.pc = "start", !.tries = 0]
                /\ UNCHANGED <<todo, counted>>
             \/ GetInfo("ENXIO") /\ Return("ENXIO")
    /\ UNCHANGED <<dev, armed, noidle, f_pos, took, others>>

-----------------------------------------------------------------------------
(* update_firmware()                                                       *)

\* Mutant: a busy DIMM is aborted without --force.
Mut_SubmitStart ==
    /\ cmd.pc = "start"
    /\ LET d == cmd.dimm IN
       \/ /\ ~Busy(d) /\ dev' = [dev EXCEPT ![d] = NewContext("ours")]
          /\ took' = took \ {d}
          /\ cmd' = [cmd EXCEPT !.pc = "send", !.start = TRUE, !.copied = 0]
          /\ UNCHANGED <<todo, counted, fails>>
       \/ /\ Busy(d) /\ Goto("abort_busy")
          /\ UNCHANGED <<dev, took, todo, counted, fails>>
    /\ UNCHANGED <<armed, noidle, f_pos, others>>

\* submit_start_firmware_upload(): open a context; with --force abort the one
\* that is in the way.  A start that is reported to have failed may have opened
\* a context, which is then forgotten.
SubmitStart ==
    /\ cmd.pc = "start"
    /\ LET d == cmd.dimm IN
       \/ /\ ~Busy(d) /\ Succeed
          /\ dev' = [dev EXCEPT ![d] = NewContext("ours")]
          /\ took' = took \ {d}
          /\ cmd' = [cmd EXCEPT !.pc = "send", !.start = TRUE, !.copied = 0]
          /\ UNCHANGED <<todo, counted>>
       \/ /\ Busy(d) /\ cmd.opt.force /\ Goto("abort_busy")
          /\ UNCHANGED <<dev, took, todo, counted, fails>>
       \/ /\ Busy(d) /\ ~cmd.opt.force /\ Return("EBUSY")
          /\ UNCHANGED <<dev, took, fails>>
       \/ Fail /\ Return("ENXIO") /\ UNCHANGED <<dev, took>>
       \/ /\ ~Busy(d) /\ Fail /\ Return("ENXIO")
          /\ dev' = [dev EXCEPT ![d] = NewContext("ours")] /\ took' = took \ {d}
    /\ UNCHANGED <<armed, noidle, f_pos, others>>

\* The loop of update_firmware() over three attempts.  When the last one says
\* EAGAIN it goes on to the send, with no start command.
Again == cmd' = [cmd EXCEPT !.pc = IF cmd.tries < 2 THEN "start" ELSE "send",
                            !.tries = @ + 1, !.start = FALSE, !.copied = 0]

\* Mutant: the start is not tried again after the abort.
Mut_AbortBusy ==
    /\ cmd.pc = "abort_busy" /\ Return("EBUSY")
    /\ \/ /\ Busy(cmd.dimm) /\ Succeed
          /\ dev' = [dev EXCEPT ![cmd.dimm] = NewContext("none")]
       \/ ((~Busy(cmd.dimm) /\ Succeed) \/ Fail) /\ UNCHANGED dev
    /\ UNCHANGED <<armed, noidle, f_pos, took, others>>

\* submit_abort_firmware() as called by submit_start_firmware_upload()
AbortBusy ==
    /\ cmd.pc = "abort_busy"
    /\ \/ /\ Busy(cmd.dimm) /\ Succeed /\ Again
          /\ dev' = [dev EXCEPT ![cmd.dimm] = NewContext("none")]
          /\ UNCHANGED <<todo, counted>>
       \/ /\ (~Busy(cmd.dimm) /\ Succeed) \/ Fail
          /\ Return("EBUSY") /\ UNCHANGED dev
    /\ UNCHANGED <<armed, noidle, f_pos, took, others>>

\* Mutant: a read past the end of the file is not an error.
Mut_ReadFile == TRUE

\* get_fw_data_from_file(): a chunk is left to read.
ReadFile == f_pos < Chunks

\* Mutant: the end of the file is taken for the end of the image.
Mut_Sent == ~ReadFile

\* send_firmware(): nothing remains to be sent.
Sent == cmd.copied = Chunks

\* send_firmware(): one chunk, until all are sent; then rewind.  A chunk that
\* is not accepted has been read nevertheless.  The tool dies of a NULL start
\* command.
SendFirmware ==
    /\ cmd.pc = "send"
    /\ LET d == cmd.dimm
           Sends == ~Sent /\ ReadFile
       IN
       \/ /\ Sent
          /\ Goto("finish") /\ f_pos' = 0
          /\ UNCHANGED <<dev, todo, counted, fails>>
       \/ /\ ~Sent /\ ~ReadFile
          /\ Goto("abort") /\ UNCHANGED <<dev, f_pos, todo, counted, fails>>
       \/ /\ Sends /\ cmd.start /\ dev[d].owner = "ours"
          /\ dev' = [dev EXCEPT ![d].got = Append(@, f_pos + 1)]
          /\ f_pos' = f_pos + 1 /\ cmd' = [cmd EXCEPT !.copied = @ + 1]
          /\ UNCHANGED <<todo, counted, fails>>
       \/ /\ Sends /\ cmd.start
          /\ (dev[d].owner # "ours" /\ Succeed) \/ Fail
          /\ f_pos' = f_pos + 1 /\ Goto("abort") /\ UNCHANGED <<dev, todo, counted>>
       \/ Sends /\ ~cmd.start /\ End /\ UNCHANGED <<dev, fails>>
    /\ UNCHANGED <<armed, noidle, took, others>>

\* submit_abort_firmware() after a failed send or finish: its result is what
\* update_firmware() returns.  The device can be aborted until it has verified.
Abort ==
    /\ cmd.pc = "abort"
    /\ LET d == cmd.dimm IN
       \/ /\ cmd.start /\ dev[d].owner \in {"ours", "finishing"} /\ Succeed
          /\ dev' = [dev EXCEPT ![d] = NewContext("none")]
          /\ Return("ok") /\ UNCHANGED f_pos
       \/ /\ cmd.start
          /\ (dev[d].owner \notin {"ours", "finishing"} /\ Succeed) \/ Fail
          /\ Return("ENXIO") /\ UNCHANGED <<dev, f_pos>>
       \/ ~cmd.start /\ End /\ UNCHANGED <<dev, fails>>
    /\ UNCHANGED <<armed, noidle, took, others>>

\* submit_finish_firmware(): only a command that could not be submitted leads
\* to an abort, and the device may have got it nevertheless; a status other than
\* success is left to the query.
SubmitFinish ==
    /\ cmd.pc = "finish"
    /\ LET d == cmd.dimm IN
       \/ /\ dev[d].owner = "ours" /\ Succeed
          /\ dev' = [dev EXCEPT ![d].owner = "finishing"]
          /\ cmd' = [cmd EXCEPT !.pc = "query", !.queries = 0]
       \/ /\ (dev[d].owner # "ours" /\ Succeed) \/ Fail
          /\ cmd' = [cmd EXCEPT !.pc = "query", !.queries = 0]
          /\ UNCHANGED dev
       \/ Fail /\ Goto("abort") /\ UNCHANGED dev
       \/ /\ dev[d].owner = "ours" /\ Fail /\ Goto("abort")
          /\ dev' = [dev EXCEPT ![d].owner = "finishing"]
    /\ UNCHANGED <<armed, noidle, f_pos, todo, counted, took, others>>

\* Mutant: the time limit is not looked at.
Mut_TimeLeft == TRUE

\* The device is given max_query to finish.
TimeLeft == cmd.queries < MaxQueries

\* Mutant: any end of the verification is taken for a success.
Mut_Accepted(d) == dev[d].owner # "finishing"

\* FW_SUCCESS with a firmware revision: the device has accepted the image of
\* this context.
Accepted(d) == dev[d].owner = "done"

\* query_fw_finish_status(): the arm state is changed when the image was
\* accepted.
QueryFinish ==
    /\ cmd.pc = "query"
    /\ LET d == cmd.dimm
           Verifying == dev[d].owner = "finishing"
       IN
       \/ /\ Verifying /\ TimeLeft /\ UNCHANGED <<todo, counted, fails>>
          /\ cmd' = [cmd EXCEPT !.queries = IF @ < MaxQueries THEN @ + 1 ELSE @]
       \/ Verifying /\ ~TimeLeft /\ Return("ETIMEDOUT") /\ UNCHANGED fails
       \/ Accepted(d) /\ Goto("arm") /\ UNCHANGED <<todo, counted, fails>>
       \/ /\ (~Verifying /\ ~Accepted(d) /\ Succeed) \/ Fail
          /\ Return("EIO")
    /\ UNCHANGED <<dev, armed, noidle, f_pos, took, others>>

-----------------------------------------------------------------------------
(* Arming and activation                                                   *)

\* fw_update_toggle_arm(): without a file a failure is the command's.
Toggled(valid) == Return(IF valid \/ cmd.opt.infile THEN "ok" ELSE "ENXIO")

\* fw_update_toggle_arm(), fw_update_arm() up to the arming
ToggleArm ==
    /\ cmd.pc = "arm"
    /\ LET o == cmd.opt IN
       \/ /\ o.toggle = "disarm" /\ Succeed
          /\ armed' = armed \ {cmd.dimm} /\ Toggled(TRUE)
       \/ /\ o.toggle = "arm" /\ (~Overflow \/ o.force) /\ Succeed
          /\ armed' = armed \cup {cmd.dimm}
          /\ IF o.force THEN Toggled(TRUE)
             ELSE Goto("recheck") /\ UNCHANGED <<todo, counted>>
       \/ /\ \/ o.toggle = "none" /\ Succeed
             \/ o.toggle = "arm" /\ Overflow /\ ~o.force /\ Succeed
             \/ o.toggle # "none" /\ Fail
          /\ Toggled(FALSE) /\ UNCHANGED armed
    /\ UNCHANGED <<dev, noidle, f_pos, took, others>>

\* Mutant: the arming that tripped the overflow stays.
Mut_Recheck ==
    /\ cmd.pc = "recheck" /\ Toggled(~Overflow)
    /\ UNCHANGED <<dev, armed, noidle, f_pos, took, others, fails>>

\* fw_update_arm(): disarm again if this was one too many.  Whether that works
\* is not looked at; a state that cannot be read is taken for no overflow.
Recheck ==
    /\ cmd.pc = "recheck"
    /\ \/ /\ Overflow /\ Succeed
          /\ armed' = armed \ {cmd.dimm} /\ Toggled(FALSE)
       \/ /\ Overflow /\ Fail /\ UNCHANGED armed
          /\ \E valid \in BOOLEAN : Toggled(valid)
       \/ ~Overflow /\ Succeed /\ UNCHANGED armed /\ Toggled(TRUE)
    /\ UNCHANGED <<dev, noidle, f_pos, took, others>>

\* activate_firmware(): without --idle platform idling is forbidden first; a
\* failure of that is not fatal.
BeginActivate ==
    /\ cmd.pc = "idle"
    /\ \E o \in Options :
          /\ o.op = "activate" /\ o.op \in Ops /\ o.force \in Forces
          /\ o.toggle = "none" /\ ~o.infile
          /\ cmd' = [cmd EXCEPT !.pc = IF o.idle THEN "activate" ELSE "set_noidle",
                                !.opt = o]
    /\ UNCHANGED <<dev, armed, noidle, f_pos, todo, counted, took, others, fails>>

SetNoidle ==
    /\ cmd.pc = "set_noidle" /\ Goto("activate")
    /\ \/ noidle' = TRUE /\ Succeed
       \/ UNCHANGED noidle /\ Fail
    /\ UNCHANGED <<dev, armed, f_pos, todo, counted, took, others>>

\* Mutant: with no armed device the function returns at once.
Mut_AfterActivate ==
    IF cmd.opt.idle \/ armed = {} THEN End
    ELSE Goto("clear_noidle") /\ UNCHANGED <<todo, counted, f_pos>>

\* activate_firmware(): every path goes through out.
AfterActivate ==
    IF cmd.opt.idle THEN End
    ELSE Goto("clear_noidle") /\ UNCHANGED <<todo, counted, f_pos>>

\* activate_firmware(): activate the armed devices, if there are any.
Activate ==
    /\ cmd.pc = "activate" /\ AfterActivate
    /\ \/ /\ ~cmd.opt.dryrun /\ armed # {} /\ Succeed
          /\ armed' = {}
       \/ /\ (cmd.opt.dryrun \/ armed = {}) /\ Succeed /\ UNCHANGED armed
       \/ ~cmd.opt.dryrun /\ armed # {} /\ Fail /\ UNCHANGED armed
    /\ UNCHANGED <<dev, noidle, took, others>>

ClearNoidle ==
    /\ cmd.pc = "clear_noidle" /\ End
    /\ \/ noidle' = FALSE /\ Succeed
       \/ UNCHANGED noidle /\ Fail
    /\ UNCHANGED <<dev, armed, took, others>>

-----------------------------------------------------------------------------
(* The environment                                                         *)

\* The device ends its verification: it accepts the whole image only.
DeviceDone(d) ==
    /\ dev[d].owner = "finishing"
    /\ \/ /\ dev[d].got = Image /\ Succeed
          /\ dev' = [dev EXCEPT ![d].owner = "done"] /\ took' = took \cup {d}
       \/ /\ (dev[d].got # Image /\ Succeed) \/ Fail
          /\ dev' = [dev EXCEPT ![d] = NewContext("none")] /\ UNCHANGED took
    /\ UNCHANGED <<armed, noidle, f_pos, cmd, todo, counted, others>>

\* Another process starts an upload, aborts ours, or ends its own.
Other(d) ==
    /\ \/ ~Busy(d) /\ dev' = [dev EXCEPT ![d] = NewContext("other")]
       \/ /\ dev[d].owner \in {"ours", "finishing"}
          /\ dev' = [dev EXCEPT ![d] = NewContext("none")]
    /\ others < MaxOthers /\ others' = others + 1
    /\ UNCHANGED <<armed, noidle, f_pos, cmd, todo, counted, took, fails>>

OtherEnd(d) ==
    /\ dev[d].owner = "other" /\ dev' = [dev EXCEPT ![d] = NewContext("none")]
    /\ UNCHANGED <<armed, noidle, f_pos, cmd, todo, counted, took, others, fails>>

Kill ==
    /\ cmd.pc # "idle" /\ Fail /\ End
    /\ UNCHANGED <<dev, armed, noidle, took, others>>

Step ==
    \/ NextDimm \/ ActionUpdate \/ SubmitStart \/ AbortBusy \/ SendFirmware
    \/ Abort \/ SubmitFinish \/ QueryFinish \/ ToggleArm \/ Recheck
    \/ SetNoidle \/ Activate \/ ClearNoidle

Next ==
    \/ BeginUpdate \/ BeginActivate \/ Step \/ Kill
    \/ \E d \in Dimms : DeviceDone(d) \/ Other(d) \/ OtherEnd(d)

Spec == Init /\ [][Next]_vars

\* A running command takes its next step: it waits for a device only by
\* repeating a query.
FairSpec == Spec /\ WF_vars(Step)

-----------------------------------------------------------------------------
(* Properties                                                              *)

TypeOK ==
    /\ dev \in [Dimms -> Devices] /\ armed \subseteq Dimms /\ noidle \in BOOLEAN
    /\ f_pos \in 0..Chunks /\ cmd \in Cmds
    /\ todo \subseteq Dimms /\ counted \subseteq Dimms /\ took \subseteq Dimms
    /\ others \in 0..MaxOthers /\ fails \in 0..MaxFails

\* A device is told to finish only when it has been sent the whole file from
\* its first chunk, although the position of the file is whatever the upload
\* to the DIMM before has left (send_firmware, get_fw_data_from_file).
FinishedIsWhole ==
    \A d \in Dimms : dev[d].owner = "finishing" => dev[d].got = Image

\* Without --force the upload of another process is never aborted
\* (submit_start_firmware_upload).
OthersSurvive ==
    [][\A d \in Dimms :
          dev[d].owner = "other" /\ dev'[d].owner # "other"
             => cmd.opt.force \/ UNCHANGED cmd]_vars

\* An update with --force that nothing disturbs (none of its own calls fails and
\* no other process is at the DIMMs) ends with each DIMM having accepted an image
\* or still verifying it, in whatever state earlier commands left the devices:
\* a context that a failed start, a rejected finish, a failed abort or a kill
\* left open is aborted and the start is tried again (update_firmware,
\* submit_start_firmware_upload).  Nor does such a command die of a NULL start.
Undisturbed == cmd.alone /\ fails' + others' = cmd.since
ForcedReclaims ==
    [][cmd.opt.infile /\ cmd.opt.force /\ cmd.pc # "idle" /\ cmd'.pc = "idle"
          /\ Undisturbed
          => \A d \in Dimms : d \in took' \/ dev'[d].owner = "finishing"]_vars

\* A DIMM that is counted after its upload was finished has accepted it: a
\* finish that the device rejected is noticed by the query (submit_finish_-
\* firmware returns 0 for it).
QueryIsConclusive ==
    [][cmd.pc = "query" /\ cmd'.pc = "arm" => cmd.dimm \in took]_vars

\* Unless a command fails or is killed, arming without --force never leaves
\* more DIMMs armed than the platform can activate (fw_update_arm).
OverflowIsTransient == Overflow => cmd.pc = "recheck" \/ fails > 0

\* Idling is allowed again after every activation none of whose calls failed
\* (activate_firmware).
IdleRestored == cmd.pc = "idle" /\ noidle => fails > 0

\* A command ends, whatever devices and other processes do
\* (query_fw_finish_status, update_firmware).
CommandEnds == cmd.pc # "idle" ~> cmd.pc = "idle"

\* The comment in dimm_action(): the count is of "actions succeeded".
CountedIsUpdated ==
    cmd.pc = "next" /\ cmd.opt.infile => counted \subseteq took

\* The comment in update_firmware(): the file is reset "back to beginning for
\* next update".
SendStartsAtBeginning == cmd.pc = "send" /\ cmd.copied = 0 => f_pos = 0
============================================================================
