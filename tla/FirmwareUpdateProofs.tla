----------------------- MODULE FirmwareUpdateProofs -----------------------
(***************************************************************************)
(* Proofs about FirmwareUpdate, for any DIMMs and any size of the image.   *)
(***************************************************************************)
EXTENDS FirmwareUpdate, TLAPS

\* Steps that work on one DIMM.
AtDimm == {"update", "start", "abort_busy", "send", "finish", "abort", "query",
           "arm", "recheck"}

\* What the device of an upload of ours holds is what was last read from the
\* file, as many chunks as were sent.
SentIsRead ==
    cmd.pc = "send" /\ cmd.start /\ dev[cmd.dimm].owner = "ours"
       => /\ Len(dev[cmd.dimm].got) = cmd.copied
          /\ \A i \in 1..cmd.copied :
                dev[cmd.dimm].got[i] = (f_pos - cmd.copied) + i

\* The inductive invariant.  That all chunks were sent only means that the whole
\* file was if no more were sent than read; without a start command none is.
IInv ==
    /\ TypeOK
    /\ cmd.pc \in AtDimm => cmd.dimm \in Dimms
    /\ cmd.pc \in {"start", "abort_busy"} => cmd.tries <= 2
    /\ cmd.pc = "send" => cmd.copied <= f_pos
    /\ cmd.pc = "send" /\ ~cmd.start => cmd.copied = 0
    /\ SentIsRead
    /\ cmd.pc = "finish" /\ dev[cmd.dimm].owner = "ours"
          => dev[cmd.dimm].got = Image
    /\ FinishedIsWhole

\* No command running is a legal record.
LEMMA NoCmdType == NoCmd \in Cmds
<1>1. 0 \in 0..3 /\ 0 \in Nat /\ 0 \in 0..MaxQueries
  BY ConstantsAssumption
<1>2. NoCmd.opt \in Options
  BY DEF NoCmd, Options
<1> QED
  BY <1>1, <1>2 DEF NoCmd, Cmds, Steps

\* All of what a return from the upload of one DIMM leaves in cmd (Return in
\* dimm_action).
LEMMA ReturnType ==
    ASSUME TypeOK, cmd.dimm \in Dimms, NEW rc, Return(rc)
    PROVE  /\ cmd' \in Cmds /\ cmd'.pc = "next"
           /\ todo' \subseteq Dimms /\ counted' \subseteq Dimms
<1>1. cmd.opt \in Options /\ cmd.alone \in BOOLEAN /\ cmd.since \in Nat
  BY DEF TypeOK, Cmds
<1>2. cmd' = [[[[NoCmd EXCEPT !.pc = "next"] EXCEPT !.opt = cmd.opt]
                  EXCEPT !.alone = cmd.alone] EXCEPT !.since = cmd.since]
  BY Zenon DEF Return
<1>3. "next" \in Steps
  BY DEF Steps
<1>4. cmd' \in Cmds /\ cmd'.pc = "next"
  BY <1>1, <1>2, <1>3, NoCmdType, Zenon DEF Cmds
<1> QED
  BY <1>4 DEF TypeOK, Return

\* What the end of the process leaves (End in dimm_action, activate_firmware).
LEMMA EndType ==
    ASSUME TypeOK, End
    PROVE  /\ cmd' \in Cmds /\ cmd'.pc = "idle"
           /\ todo' \subseteq Dimms /\ counted' \subseteq Dimms
           /\ f_pos' \in 0..Chunks
BY ConstantsAssumption, NoCmdType DEF TypeOK, End, NoCmd

\* A failure stays within its bound.
LEMMA FailType ==
    ASSUME TypeOK, Fail \/ Succeed
    PROVE  fails' \in 0..MaxFails
BY ConstantsAssumption DEF TypeOK, Fail, Succeed

\* A step that only moves on keeps the record well-formed.
LEMMA GotoType ==
    ASSUME TypeOK, NEW pc \in Steps, Goto(pc)
    PROVE  /\ cmd' \in Cmds /\ cmd'.pc = pc /\ cmd'.dimm = cmd.dimm
           /\ cmd'.start = cmd.start /\ cmd'.copied = cmd.copied
           /\ cmd'.tries = cmd.tries
BY DEF TypeOK, Goto, Cmds

\* The initial states satisfy the inductive invariant.
LEMMA InitIInv == Init => IInv
<1> SUFFICES ASSUME Init PROVE IInv
  OBVIOUS
<1>1. NewContext("none") \in Devices
  BY DEF NewContext, Devices, Owners
<1>2. TypeOK
  <2>1. noidle \in BOOLEAN
    BY Zenon DEF Init
  <2>2. dev \in [Dimms -> Devices]
    BY <1>1 DEF Init
  <2> QED
    BY <2>1, <2>2, ConstantsAssumption, NoCmdType DEF Init, TypeOK
<1> QED
  BY <1>1, <1>2
  DEF Init, IInv, AtDimm, SentIsRead, FinishedIsWhole, NoCmd, NewContext

\* A step that neither starts a send nor a finish, and has no device begin its
\* verification, keeps the inductive invariant if it keeps the types.
LEMMA QuietStep ==
    ASSUME IInv, TypeOK',
           cmd'.pc \in AtDimm => cmd'.dimm \in Dimms,
           cmd'.pc \in {"start", "abort_busy"} => cmd'.tries <= 2,
           cmd'.pc \notin {"send", "finish"},
           \A d \in Dimms : dev'[d].owner = "finishing" => dev'[d] = dev[d]
    PROVE  IInv'
BY DEF IInv, SentIsRead, FinishedIsWhole, AtDimm

\* The commands' own first steps, and those of the loop over the DIMMs.
LEMMA LoopSteps ==
    ASSUME IInv, BeginUpdate \/ BeginActivate \/ NextDimm \/ ActionUpdate \/ Kill
    PROVE  IInv'
<1> USE ConstantsAssumption
<1>0. TypeOK /\ dev' = dev
  BY Zenon DEF IInv, BeginUpdate, BeginActivate, NextDimm, ActionUpdate, Kill
<1>1. CASE BeginUpdate
  <2>1. cmd' \in Cmds /\ cmd'.pc = "next"
    <3> DEFINE alone == \A d \in Dimms : dev[d].owner # "other"
    <3>1. PICK o \in Options :
             cmd' = [cmd EXCEPT !.pc = "next", !.opt = o, !.since = fails + others,
                                !.alone = alone]
      BY <1>1, Zenon DEF BeginUpdate
    <3>2. alone \in BOOLEAN /\ "next" \in Steps /\ fails + others \in Nat
      BY <1>0 DEF TypeOK, Steps
    <3> HIDE DEF alone
    <3> QED
      BY <1>0, <3>1, <3>2, ZenonT(40) DEF TypeOK, Cmds
  <2>2. TypeOK'
    BY <1>0, <1>1, <2>1, Zenon DEF BeginUpdate, TypeOK
  <2> QED
    BY <1>0, <2>1, <2>2, QuietStep DEF AtDimm
<1>2. CASE BeginActivate
  <2>1. cmd' \in Cmds /\ cmd'.pc \in {"activate", "set_noidle"}
    <3>1. PICK o \in Options :
             cmd' = [cmd EXCEPT !.pc = IF o.idle THEN "activate" ELSE "set_noidle",
                                !.opt = o]
      BY <1>2, Zenon DEF BeginActivate
    <3> DEFINE pc == IF o.idle THEN "activate" ELSE "set_noidle"
    <3>2. pc \in {"activate", "set_noidle"} /\ pc \in Steps
      BY DEF Steps
    <3> HIDE DEF pc
    <3>3. cmd' = [cmd EXCEPT !.pc = pc, !.opt = o]
      BY <3>1, SMTT(30) DEF pc
    <3> QED
      BY <1>0, <3>2, <3>3, Zenon DEF TypeOK, Cmds
  <2>2. TypeOK'
    BY <1>0, <1>2, <2>1, ZenonT(40) DEF BeginActivate, TypeOK
  <2> QED
    BY <1>0, <2>1, <2>2, QuietStep DEF AtDimm
<1>3. CASE NextDimm
  <2>1. CASE End
    <3>1. TypeOK'
      BY <1>0, <1>3, <2>1, EndType, Zenon DEF NextDimm, TypeOK
    <3> QED
      BY <1>0, <2>1, <3>1, EndType, QuietStep, SMTT(30) DEF AtDimm
  <2>2. CASE \E d \in todo :
                /\ cmd' = [cmd EXCEPT !.pc = "update", !.dimm = d]
                /\ todo' = todo \ {d} /\ UNCHANGED <<counted, f_pos>>
    <3>1. cmd' \in Cmds /\ cmd'.pc = "update" /\ cmd'.dimm \in Dimms
      <4>1. PICK d \in Dimms : cmd' = [cmd EXCEPT !.pc = "update", !.dimm = d]
        BY <1>0, <2>2, Zenon DEF TypeOK
      <4>2. "update" \in Steps
        BY DEF Steps
      <4> QED
        BY <1>0, <4>1, <4>2, Zenon DEF TypeOK, Cmds
    <3>2. TypeOK'
      BY <1>0, <1>3, <2>2, <3>1, Zenon DEF NextDimm, TypeOK
    <3> QED
      BY <1>0, <3>1, <3>2, QuietStep
  <2> QED
    BY <1>3, <2>1, <2>2, Zenon DEF NextDimm
<1>4. CASE ActionUpdate
  <2>0. cmd.dimm \in Dimms
    BY <1>4 DEF IInv, ActionUpdate, AtDimm
  <2>1. /\ cmd' \in Cmds /\ todo' \subseteq Dimms /\ counted' \subseteq Dimms
        /\ fails' \in 0..MaxFails
        /\ \/ cmd'.pc = "arm" /\ cmd'.dimm \in Dimms
           \/ cmd'.pc = "next"
           \/ cmd'.pc = "start" /\ cmd'.dimm \in Dimms /\ cmd'.tries = 0
    <3>1. CASE Goto("arm") /\ UNCHANGED <<todo, counted, fails>>
      BY <1>0, <2>0, <3>1, GotoType DEF TypeOK, Steps
    <3>2. CASE Return("EBUSY") /\ UNCHANGED fails
      BY <1>0, <2>0, <3>2, ReturnType DEF TypeOK
    <3>3. CASE GetInfo("ok") /\ UNCHANGED <<todo, counted>>
                 /\ cmd' = [cmd EXCEPT !.pc = "start", !.tries = 0]
      <4>1. Succeed
        BY <3>3 DEF GetInfo
      <4>2. cmd' \in Cmds /\ cmd'.pc = "start" /\ cmd'.dimm = cmd.dimm
              /\ cmd'.tries = 0
        <5>1. 0 \in 0..3 /\ "start" \in Steps
          BY DEF Steps
        <5> QED
          BY <1>0, <3>3, <5>1, Zenon DEF TypeOK, Cmds
      <4> QED
        BY <1>0, <2>0, <3>3, <4>1, <4>2, FailType DEF TypeOK
    <3>4. CASE GetInfo("ENXIO") /\ Return("ENXIO")
      <4>1. Fail
        BY <3>4 DEF GetInfo
      <4> QED
        BY <1>0, <2>0, <3>4, <4>1, FailType, ReturnType
    <3> QED
      BY <1>4, <3>1, <3>2, <3>3, <3>4 DEF ActionUpdate
  <2>2. TypeOK'
    BY <1>0, <1>4, <2>1 DEF ActionUpdate, TypeOK
  <2> QED
    BY <1>0, <2>1, <2>2, QuietStep DEF AtDimm
<1>5. CASE Kill
  <2>1. TypeOK'
    BY <1>0, <1>5, EndType, FailType DEF Kill, TypeOK
  <2> QED
    BY <1>0, <1>5, <2>1, EndType, QuietStep DEF Kill, AtDimm
<1> QED
  BY <1>1, <1>2, <1>3, <1>4, <1>5

\* The start of an upload, and the abort of one that is in its way.
LEMMA StartSteps ==
    ASSUME IInv, SubmitStart \/ AbortBusy
    PROVE  IInv'
<1> USE ConstantsAssumption
<1>0. TypeOK /\ cmd.dimm \in Dimms /\ cmd.tries \in 0..2 /\ cmd \in Cmds
  BY DEF IInv, SubmitStart, AbortBusy, AtDimm, TypeOK, Cmds
<1>1. \A who \in Owners : NewContext(who) \in Devices
  BY DEF NewContext, Devices
<1>2. CASE SubmitStart
  <2>1. CASE /\ ~Busy(cmd.dimm) /\ Succeed
             /\ dev' = [dev EXCEPT ![cmd.dimm] = NewContext("ours")]
             /\ took' = took \ {cmd.dimm}
             /\ cmd' = [cmd EXCEPT !.pc = "send", !.start = TRUE, !.copied = 0]
             /\ UNCHANGED <<todo, counted>>
    <3>1. /\ cmd' \in Cmds /\ cmd'.pc = "send" /\ cmd'.copied = 0
          /\ cmd'.dimm = cmd.dimm /\ cmd'.start
      BY <1>0, <2>1, Zenon DEF Cmds, Steps
    <3>2. dev' \in [Dimms -> Devices] /\ dev'[cmd.dimm] = NewContext("ours")
      BY <1>0, <1>1, <2>1 DEF TypeOK, Owners
    <3>3. TypeOK'
      BY <1>0, <1>2, <2>1, <3>1, <3>2, FailType DEF SubmitStart, TypeOK
    <3>4. SentIsRead'
      BY <3>1, <3>2 DEF SentIsRead, NewContext
    <3>5. FinishedIsWhole'
      BY <1>0, <2>1 DEF IInv, FinishedIsWhole, NewContext, TypeOK
    <3>6. (cmd.copied <= f_pos)'
      BY <3>1, <3>3 DEF TypeOK
    <3> QED
      BY <1>0, <3>1, <3>3, <3>4, <3>5, <3>6 DEF IInv
  <2>2. CASE /\ Goto("abort_busy") /\ UNCHANGED <<dev, took, todo, counted, fails>>
    <3>1. cmd' \in Cmds /\ cmd'.pc = "abort_busy" /\ cmd'.dimm = cmd.dimm
            /\ cmd'.tries = cmd.tries
      BY <1>0, <2>2, GotoType DEF Steps
    <3>2. TypeOK'
      BY <1>0, <1>2, <2>2, <3>1 DEF SubmitStart, TypeOK
    <3> QED
      BY <1>0, <2>2, <3>1, <3>2, QuietStep
  <2>3. CASE /\ Return("EBUSY") \/ Return("ENXIO")
             /\ Fail \/ Succeed
             /\ UNCHANGED <<dev, took>>
    <3>1. /\ cmd' \in Cmds /\ cmd'.pc = "next"
          /\ todo' \subseteq Dimms /\ counted' \subseteq Dimms
      BY <1>0, <2>3, ReturnType
    <3>2. TypeOK'
      BY <1>0, <1>2, <2>3, <3>1, FailType DEF SubmitStart, TypeOK
    <3> QED
      BY <2>3, <3>1, <3>2, QuietStep DEF AtDimm
  <2>4. CASE /\ Fail /\ Return("ENXIO") /\ took' = took \ {cmd.dimm}
             /\ dev' = [dev EXCEPT ![cmd.dimm] = NewContext("ours")]
    <3>1. /\ cmd' \in Cmds /\ cmd'.pc = "next"
          /\ todo' \subseteq Dimms /\ counted' \subseteq Dimms
      BY <1>0, <2>4, ReturnType
    <3>2. /\ dev' \in [Dimms -> Devices]
          /\ \A d \in Dimms : dev'[d].owner = "finishing" => dev'[d] = dev[d]
      BY <1>0, <1>1, <2>4 DEF TypeOK, Owners, NewContext
    <3>3. TypeOK'
      BY <1>0, <1>2, <2>4, <3>1, <3>2, FailType DEF SubmitStart, TypeOK
    <3> QED
      BY <3>1, <3>2, <3>3, QuietStep DEF AtDimm
  <2> QED
    BY <1>2, <2>1, <2>2, <2>3, <2>4 DEF SubmitStart, Succeed
<1>3. CASE AbortBusy
  <2>1. CASE /\ Succeed /\ Again
             /\ dev' = [dev EXCEPT ![cmd.dimm] = NewContext("none")]
             /\ UNCHANGED <<todo, counted>>
    <3> DEFINE pc == IF cmd.tries < 2 THEN "start" ELSE "send"
    <3>1. /\ pc \in {"start", "send"} /\ pc \in Steps
          /\ pc = "start" => cmd.tries + 1 <= 2
          /\ cmd.tries + 1 \in 0..3
      BY <1>0 DEF Steps
    <3>2. cmd' = [cmd EXCEPT !.pc = pc, !.tries = @ + 1, !.start = FALSE,
                             !.copied = 0]
      BY <2>1 DEF Again
    <3> HIDE DEF pc
    <3>3. /\ cmd' \in Cmds /\ cmd'.pc = pc /\ cmd'.tries = cmd.tries + 1
          /\ cmd'.copied = 0 /\ cmd'.dimm = cmd.dimm /\ cmd'.start = FALSE
      BY <1>0, <3>1, <3>2, Zenon DEF Cmds
    <3>4. dev' \in [Dimms -> Devices] /\ dev'[cmd.dimm] = NewContext("none")
      BY <1>0, <1>1, <2>1 DEF TypeOK, Owners
    <3>5. TypeOK'
      BY <1>0, <1>3, <2>1, <3>3, <3>4, FailType DEF AbortBusy, TypeOK
    <3>6. SentIsRead'
      BY <3>3, <3>4 DEF SentIsRead, NewContext
    <3>7. FinishedIsWhole'
      BY <1>0, <2>1 DEF IInv, FinishedIsWhole, NewContext, TypeOK
    <3>8. (cmd.copied <= f_pos)'
      BY <3>3, <3>5 DEF TypeOK
    <3> QED
      BY <1>0, <3>1, <3>3, <3>5, <3>6, <3>7, <3>8 DEF IInv
  <2>2. CASE (Fail \/ Succeed) /\ Return("EBUSY") /\ UNCHANGED dev
    <3>1. /\ cmd' \in Cmds /\ cmd'.pc = "next"
          /\ todo' \subseteq Dimms /\ counted' \subseteq Dimms
      BY <1>0, <2>2, ReturnType
    <3>2. TypeOK'
      BY <1>0, <1>3, <2>2, <3>1, FailType DEF AbortBusy, TypeOK
    <3> QED
      BY <2>2, <3>1, <3>2, QuietStep DEF AtDimm
  <2> QED
    BY <1>3, <2>1, <2>2 DEF AbortBusy
<1> QED
  BY <1>2, <1>3

\* As many chunks as the image has, none from beyond the end of the file, are
\* the image.
LEMMA WholeImage ==
    ASSUME NEW got \in Seq(Nat), NEW pos \in 0..Chunks, Chunks <= pos,
           Len(got) = Chunks, \A i \in 1..Chunks : got[i] = (pos - Chunks) + i
    PROVE  got = Image
<1>1. pos = Chunks /\ Chunks \in Nat
  BY ConstantsAssumption
<1>2. \A i \in 1..Chunks : got[i] = i
  BY <1>1
<1>3. got = [i \in 1..Chunks |-> got[i]]
  OBVIOUS
<1> QED
  BY <1>2, <1>3 DEF Image

\* The sends: a chunk, the end of the image, and the failures.
LEMMA SendStep ==
    ASSUME IInv, SendFirmware
    PROVE  IInv'
<1> USE ConstantsAssumption
<1>0. /\ TypeOK /\ cmd \in Cmds /\ cmd.dimm \in Dimms /\ cmd.pc = "send"
      /\ dev[cmd.dimm] \in Devices /\ f_pos \in 0..Chunks /\ cmd.copied \in Nat
      /\ cmd.copied <= f_pos /\ SentIsRead
      /\ ~cmd.start => cmd.copied = 0
  BY Zenon DEF IInv, SendFirmware, AtDimm, TypeOK, Cmds
<1>a. dev[cmd.dimm].got \in Seq(Nat)
  BY <1>0 DEF Devices
<1>1. CASE /\ cmd.copied = Chunks /\ Goto("finish") /\ f_pos' = 0
           /\ UNCHANGED <<dev, todo, counted, fails>>
  <2>1. cmd' \in Cmds /\ cmd'.pc = "finish" /\ cmd'.dimm = cmd.dimm
    BY <1>0, <1>1, GotoType DEF Steps
  <2>2. TypeOK'
    BY <1>0, <1>1, <2>1 DEF SendFirmware, TypeOK
  <2>3. dev[cmd.dimm].owner = "ours" => dev[cmd.dimm].got = Image
    <3>1. cmd.start
      BY <1>0, <1>1
    <3> QED
      BY <1>0, <1>a, <1>1, <3>1, WholeImage, Zenon DEF SentIsRead
  <2>4. FinishedIsWhole'
    BY <1>1 DEF IInv, FinishedIsWhole
  <2> QED
    BY <1>0, <1>1, <2>1, <2>2, <2>3, <2>4 DEF IInv, SentIsRead, Image
<1>2. CASE /\ Goto("abort") /\ (Fail \/ Succeed) /\ f_pos' \in 0..Chunks
           /\ UNCHANGED <<dev, todo, counted>>
  <2>1. cmd' \in Cmds /\ cmd'.pc = "abort" /\ cmd'.dimm = cmd.dimm
    BY <1>0, <1>2, GotoType DEF Steps
  <2>2. TypeOK'
    BY <1>0, <1>2, <2>1, FailType, SMTT(30) DEF SendFirmware, TypeOK
  <2> QED
    BY <1>0, <1>2, <2>1, <2>2, QuietStep
<1>3. CASE /\ ReadFile /\ cmd.start /\ dev[cmd.dimm].owner = "ours"
           /\ dev' = [dev EXCEPT ![cmd.dimm].got = Append(@, f_pos + 1)]
           /\ f_pos' = f_pos + 1 /\ cmd' = [cmd EXCEPT !.copied = @ + 1]
           /\ UNCHANGED <<todo, counted, fails>>
  <2> DEFINE new == Append(dev[cmd.dimm].got, f_pos + 1)
  <2>1. /\ new \in Seq(Nat) /\ Len(new) = cmd.copied + 1
        /\ \A i \in 1..(cmd.copied + 1) :
              new[i] = ((f_pos + 1) - (cmd.copied + 1)) + i
    <3>1. /\ Len(dev[cmd.dimm].got) = cmd.copied
          /\ \A i \in 1..cmd.copied :
                dev[cmd.dimm].got[i] = (f_pos - cmd.copied) + i
      BY <1>0, <1>3 DEF SentIsRead
    <3>2. f_pos \in Nat
      BY <1>0
    <3>3. new = Append(dev[cmd.dimm].got, f_pos + 1)
      OBVIOUS
    <3> DEFINE got == dev[cmd.dimm].got
               copied == cmd.copied
    <3>4. /\ got \in Seq(Nat) /\ copied \in Nat /\ copied <= f_pos
          /\ Len(got) = copied /\ new = Append(got, f_pos + 1)
          /\ \A i \in 1..copied : got[i] = (f_pos - copied) + i
      BY <1>0, <1>a, <3>1, <3>3
    <3>5. /\ new \in Seq(Nat) /\ Len(new) = copied + 1
          /\ \A i \in 1..(copied + 1) : new[i] = ((f_pos + 1) - (copied + 1)) + i
      <4> HIDE DEF got, copied, new
      <4> QED
        BY <3>2, <3>4, SMTT(30)
    <3> QED
      BY <3>5, Zenon
  <2>2. /\ cmd' \in Cmds /\ cmd'.pc = "send" /\ cmd'.dimm = cmd.dimm
        /\ cmd'.copied = cmd.copied + 1
    <3>1. cmd.copied + 1 \in Nat
      BY <1>0
    <3>2. cmd' = [cmd EXCEPT !.copied = cmd.copied + 1]
      BY <1>3
    <3> QED
      BY <1>0, <3>1, <3>2 DEF Cmds
  <2>s. cmd'.start = cmd.start
    BY <1>0, <1>3, Zenon DEF Cmds
  <2>3. f_pos' \in 0..Chunks /\ cmd'.copied <= f_pos'
    BY <1>0, <1>3, <2>2, SMTT(30) DEF ReadFile
  <2>4. dev' = [dev EXCEPT ![cmd.dimm].got = new]
    BY <1>3
  <2> HIDE DEF new
  <2>5. /\ dev' \in [Dimms -> Devices] /\ dev'[cmd.dimm].got = new
        /\ dev'[cmd.dimm].owner = "ours"
        /\ \A d \in Dimms \ {cmd.dimm} : dev'[d] = dev[d]
    <3>1. [dev[cmd.dimm] EXCEPT !.got = new] \in Devices
      BY <1>0, <2>1, Zenon DEF Devices
    <3>2. dev' = [dev EXCEPT ![cmd.dimm] = [dev[cmd.dimm] EXCEPT !.got = new]]
      BY <2>4
    <3>3. /\ [dev[cmd.dimm] EXCEPT !.got = new].got = new
          /\ [dev[cmd.dimm] EXCEPT !.got = new].owner = "ours"
      BY <1>0, <1>3 DEF Devices
    <3> QED
      BY <1>0, <3>1, <3>2, <3>3 DEF TypeOK
  <2>6. TypeOK'
    BY <1>0, <1>3, <2>2, <2>3, <2>5, SMTT(30) DEF SendFirmware, TypeOK
  <2>7. SentIsRead'
    BY <1>3, <2>1, <2>2, <2>5, ZenonT(40) DEF SentIsRead
  <2>8. FinishedIsWhole'
    BY <2>5 DEF IInv, FinishedIsWhole, Image
  <2> QED
    BY <1>0, <1>3, <2>2, <2>s, <2>3, <2>6, <2>7, <2>8, SMTT(30) DEF IInv
<1>4. CASE End /\ UNCHANGED <<dev, fails>>
  <2>1. TypeOK'
    BY <1>0, <1>4, EndType, SMTT(30) DEF SendFirmware, TypeOK
  <2> QED
    BY <1>0, <1>4, <2>1, EndType, QuietStep DEF AtDimm
<1> QED
  BY <1>0, <1>1, <1>2, <1>3, <1>4
  DEF SendFirmware, Sent, ReadFile, Succeed

\* The abort, the finish and the query.
LEMMA FinishSteps ==
    ASSUME IInv, Abort \/ SubmitFinish \/ QueryFinish
    PROVE  IInv'
<1> USE ConstantsAssumption
<1>0. /\ TypeOK /\ cmd \in Cmds /\ cmd.dimm \in Dimms
      /\ dev[cmd.dimm] \in Devices
  BY DEF IInv, Abort, SubmitFinish, QueryFinish, AtDimm, TypeOK
<1>1. NewContext("none") \in Devices
  BY DEF NewContext, Devices, Owners
<1>2. CASE Abort
  <2>1. /\ dev' \in [Dimms -> Devices]
        /\ \A d \in Dimms : dev'[d].owner = "finishing" => dev'[d] = dev[d]
    BY <1>0, <1>1, <1>2 DEF Abort, TypeOK, NewContext
  <2>2. /\ cmd' \in Cmds /\ cmd'.pc \in {"next", "idle"}
        /\ todo' \subseteq Dimms /\ counted' \subseteq Dimms
        /\ f_pos' \in 0..Chunks /\ fails' \in 0..MaxFails
    <3>1. CASE (Return("ok") \/ Return("ENXIO")) /\ UNCHANGED f_pos
                 /\ (Fail \/ Succeed)
      BY <1>0, <3>1, ReturnType, FailType DEF TypeOK
    <3>2. CASE End /\ UNCHANGED fails
      BY <1>0, <3>2, EndType DEF TypeOK
    <3> QED
      BY <1>2, <3>1, <3>2 DEF Abort
  <2>3. TypeOK'
    BY <1>0, <1>2, <2>1, <2>2 DEF Abort, TypeOK
  <2> QED
    BY <2>1, <2>2, <2>3, QuietStep DEF AtDimm
<1>3. CASE SubmitFinish
  <2>1. CASE /\ dev[cmd.dimm].owner = "ours" /\ (Fail \/ Succeed)
             /\ dev' = [dev EXCEPT ![cmd.dimm].owner = "finishing"]
             /\ \/ cmd' = [cmd EXCEPT !.pc = "query", !.queries = 0]
                \/ Goto("abort")
    <3>1. cmd' \in Cmds /\ cmd'.pc \in {"query", "abort"} /\ cmd'.dimm = cmd.dimm
      <4>1. 0 \in 0..MaxQueries /\ "query" \in Steps /\ "abort" \in Steps
        BY DEF Steps
      <4>2. CASE Goto("abort")
        BY <1>0, <4>1, <4>2, GotoType
      <4>3. CASE cmd' = [cmd EXCEPT !.pc = "query", !.queries = 0]
        BY <1>0, <4>1, <4>3, Zenon DEF Cmds
      <4> QED
        BY <2>1, <4>2, <4>3
    <3>2. dev[cmd.dimm].got = Image
      BY <1>3, <2>1 DEF IInv, SubmitFinish
    <3> DEFINE new == [dev[cmd.dimm] EXCEPT !.owner = "finishing"]
    <3>3. new \in Devices /\ new.got = Image
      BY <1>0, <3>2 DEF Devices, Owners
    <3>4. dev' = [dev EXCEPT ![cmd.dimm] = new]
      BY <2>1
    <3> HIDE DEF new
    <3>5. TypeOK'
      BY <1>0, <1>3, <2>1, <3>1, <3>3, <3>4, FailType DEF SubmitFinish, TypeOK
    <3>6. FinishedIsWhole'
      <4>1. Image' = Image
        BY DEF Image
      <4>2. \A d \in Dimms : dev'[d] = IF d = cmd.dimm THEN new ELSE dev[d]
        BY <1>0, <3>4 DEF TypeOK
      <4> QED
        BY <3>3, <4>1, <4>2 DEF IInv, FinishedIsWhole
    <3> QED
      BY <1>0, <3>1, <3>5, <3>6 DEF IInv, SentIsRead, AtDimm
  <2>2. CASE /\ cmd' = [cmd EXCEPT !.pc = "query", !.queries = 0]
             /\ Fail \/ Succeed
             /\ UNCHANGED dev
    <3>1. cmd' \in Cmds /\ cmd'.pc = "query" /\ cmd'.dimm = cmd.dimm
      <4>1. 0 \in 0..MaxQueries /\ "query" \in Steps
        BY DEF Steps
      <4> QED
        BY <1>0, <2>2, <4>1, Zenon DEF Cmds
    <3>2. TypeOK'
      BY <1>0, <1>3, <2>2, <3>1, FailType DEF SubmitFinish, TypeOK
    <3> QED
      BY <1>0, <2>2, <3>1, <3>2, QuietStep
  <2>3. CASE Fail /\ Goto("abort") /\ UNCHANGED dev
    <3>1. cmd' \in Cmds /\ cmd'.pc = "abort" /\ cmd'.dimm = cmd.dimm
      BY <1>0, <2>3, GotoType DEF Steps
    <3>2. TypeOK'
      BY <1>0, <1>3, <2>3, <3>1, FailType DEF SubmitFinish, TypeOK
    <3> QED
      BY <1>0, <2>3, <3>1, <3>2, QuietStep
  <2> QED
    BY <1>3, <2>1, <2>2, <2>3 DEF SubmitFinish
<1>4. CASE QueryFinish
  <2>1. /\ cmd' \in Cmds /\ todo' \subseteq Dimms /\ counted' \subseteq Dimms
        /\ fails' \in 0..MaxFails
        /\ \/ cmd'.pc = "next"
           \/ cmd'.pc \in {"arm", "query"} /\ cmd'.dimm = cmd.dimm
    <3>1. CASE /\ TimeLeft /\ UNCHANGED <<todo, counted, fails>>
               /\ cmd' = [cmd EXCEPT !.queries = IF @ < MaxQueries THEN @ + 1 ELSE @]
      <4> DEFINE q == IF cmd.queries < MaxQueries THEN cmd.queries + 1
                                                  ELSE cmd.queries
      <4>1. q \in 0..MaxQueries /\ cmd.pc = "query"
        BY <1>0, <1>4 DEF Cmds, QueryFinish
      <4>2. cmd' = [cmd EXCEPT !.queries = q]
        BY <3>1
      <4> HIDE DEF q
      <4> QED
        BY <1>0, <3>1, <4>1, <4>2 DEF Cmds, TypeOK
    <3>2. CASE (Return("ETIMEDOUT") \/ Return("EIO")) /\ (Fail \/ Succeed)
      BY <1>0, <3>2, ReturnType, FailType
    <3>3. CASE Goto("arm") /\ UNCHANGED <<todo, counted, fails>>
      BY <1>0, <3>3, GotoType DEF Steps, TypeOK
    <3> QED
      BY <1>4, <3>1, <3>2, <3>3 DEF QueryFinish, Succeed
  <2>2. TypeOK'
    BY <1>0, <1>4, <2>1, SMTT(30) DEF QueryFinish, TypeOK
  <2> QED
    BY <1>0, <1>4, <2>1, <2>2, QuietStep DEF QueryFinish, AtDimm
<1> QED
  BY <1>2, <1>3, <1>4

\* Arming and activation do not touch the devices' contexts.
LEMMA ArmSteps ==
    ASSUME IInv,
           ToggleArm \/ Recheck \/ SetNoidle \/ Activate \/ ClearNoidle
    PROVE  IInv'
<1> USE ConstantsAssumption
<1>0. TypeOK /\ cmd \in Cmds /\ dev' = dev /\ took' = took /\ others' = others
  BY Zenon DEF IInv, TypeOK, ToggleArm, Recheck, SetNoidle, Activate, ClearNoidle
<1>1. \A valid : Toggled(valid) => \E rc : Return(rc)
  BY DEF Toggled
<1>2. CASE ToggleArm
  <2>0. cmd.dimm \in Dimms
    BY <1>2 DEF IInv, ToggleArm, AtDimm
  <2>1. /\ cmd' \in Cmds /\ todo' \subseteq Dimms /\ counted' \subseteq Dimms
        /\ cmd'.pc = "next" \/ (cmd'.pc = "recheck" /\ cmd'.dimm = cmd.dimm)
    <3>1. CASE Toggled(TRUE) \/ Toggled(FALSE)
      BY <1>0, <1>1, <2>0, <3>1, ReturnType, Zenon
    <3>2. CASE Goto("recheck") /\ UNCHANGED <<todo, counted>>
      BY <1>0, <3>2, GotoType DEF TypeOK, Steps
    <3> QED
      BY <1>2, <3>1, <3>2, Zenon DEF ToggleArm
  <2>2. armed' \subseteq Dimms /\ (Fail \/ Succeed)
    BY <1>0, <1>2, <2>0, Zenon DEF ToggleArm, TypeOK
  <2>3. TypeOK'
    BY <1>0, <1>2, <2>1, <2>2, FailType DEF ToggleArm, TypeOK
  <2> QED
    BY <1>0, <2>0, <2>1, <2>3, QuietStep DEF AtDimm
<1>3. CASE Recheck
  <2>0. cmd.dimm \in Dimms
    BY <1>3 DEF IInv, Recheck, AtDimm
  <2>1. /\ cmd' \in Cmds /\ todo' \subseteq Dimms /\ counted' \subseteq Dimms
        /\ cmd'.pc = "next"
    <3>1. \E valid : Toggled(valid)
      BY <1>3, Zenon DEF Recheck
    <3> QED
      BY <1>0, <1>1, <2>0, <3>1, ReturnType
  <2>2. armed' \subseteq Dimms /\ (Fail \/ Succeed)
    BY <1>0, <1>3, Zenon DEF Recheck, TypeOK
  <2>3. TypeOK'
    BY <1>0, <1>3, <2>1, <2>2, FailType DEF Recheck, TypeOK
  <2> QED
    BY <1>0, <2>1, <2>3, QuietStep DEF AtDimm
<1>4. CASE SetNoidle
  <2>1. cmd' \in Cmds /\ cmd'.pc = "activate"
    BY <1>0, <1>4, GotoType DEF SetNoidle, Steps
  <2>2. noidle' \in BOOLEAN
    BY <1>0, <1>4, Zenon DEF SetNoidle, TypeOK
  <2>3. TypeOK'
    BY <1>0, <1>4, <2>1, <2>2, FailType DEF SetNoidle, TypeOK
  <2> QED
    BY <1>0, <2>1, <2>3, QuietStep DEF AtDimm
<1>5. CASE Activate
  <2>1. /\ cmd' \in Cmds /\ todo' \subseteq Dimms /\ counted' \subseteq Dimms
        /\ f_pos' \in 0..Chunks /\ cmd'.pc \in {"idle", "clear_noidle"}
    <3>1. CASE End
      BY <1>0, <3>1, EndType
    <3>2. CASE Goto("clear_noidle") /\ UNCHANGED <<todo, counted, f_pos>>
      BY <1>0, <3>2, GotoType DEF TypeOK, Steps
    <3> QED
      BY <1>5, <3>1, <3>2 DEF Activate, AfterActivate
  <2>2. armed' \subseteq Dimms /\ (Fail \/ Succeed)
    BY <1>0, <1>5 DEF Activate, TypeOK
  <2>3. TypeOK'
    BY <1>0, <1>5, <2>1, <2>2, FailType DEF Activate, TypeOK
  <2> QED
    BY <1>0, <2>1, <2>3, QuietStep DEF AtDimm
<1>6. CASE ClearNoidle
  <2>1. End /\ (Fail \/ Succeed)
    BY <1>6 DEF ClearNoidle
  <2>2. noidle' \in BOOLEAN
    BY <1>0, <1>6, Zenon DEF ClearNoidle, TypeOK
  <2>3. TypeOK'
    BY <1>0, <1>6, <2>1, <2>2, EndType, FailType, SMTT(30) DEF ClearNoidle, TypeOK
  <2> QED
    BY <1>0, <2>1, <2>3, EndType, QuietStep DEF AtDimm
<1> QED
  BY <1>2, <1>3, <1>4, <1>5, <1>6

\* The devices and the other process.
LEMMA EnvironmentSteps ==
    ASSUME IInv, NEW d \in Dimms, DeviceDone(d) \/ Other(d) \/ OtherEnd(d)
    PROVE  IInv'
<1> USE ConstantsAssumption
<1>0. TypeOK /\ dev[d] \in Devices /\ cmd' = cmd /\ f_pos' = f_pos
  BY SMTT(30) DEF IInv, TypeOK, DeviceDone, Other, OtherEnd
<1>1. \A who \in Owners : NewContext(who) \in Devices
  BY DEF NewContext, Devices
<1>2. PICK new \in Devices :
         /\ dev' = [dev EXCEPT ![d] = new]
         /\ new.owner \in {"none", "other", "done"}
  <2>1. CASE dev' = [dev EXCEPT ![d].owner = "done"]
    <3>1. [dev[d] EXCEPT !.owner = "done"] \in Devices
      BY <1>0 DEF Devices, Owners
    <3>2. [dev[d] EXCEPT !.owner = "done"].owner = "done"
      BY <1>0 DEF Devices
    <3> QED
      BY <2>1, <3>1, <3>2, Zenon
  <2>2. CASE \E who \in {"none", "other"} :
                dev' = [dev EXCEPT ![d] = NewContext(who)]
    BY <1>1, <2>2, Zenon DEF NewContext, Owners
  <2> QED
    BY <2>1, <2>2 DEF DeviceDone, Other, OtherEnd
<1>3. \A e \in Dimms : dev'[e] = IF e = d THEN new ELSE dev[e]
  BY <1>0, <1>2 DEF TypeOK
<1>4. TypeOK'
  <2>1. others' \in 0..MaxOthers /\ fails' \in 0..MaxFails
    BY <1>0, FailType DEF DeviceDone, Other, OtherEnd, TypeOK, Succeed
  <2>2. took' \subseteq Dimms
    BY <1>0 DEF DeviceDone, Other, OtherEnd, TypeOK
  <2> QED
    BY <1>0, <1>2, <2>1, <2>2 DEF DeviceDone, Other, OtherEnd, TypeOK
<1>5. FinishedIsWhole'
  <2>1. Image' = Image
    BY SMTT(30) DEF Image
  <2> QED
    BY <1>2, <1>3, <2>1 DEF IInv, FinishedIsWhole
<1>6. SentIsRead'
  <2>1. cmd.pc = "send" => cmd.dimm \in Dimms
    BY DEF IInv, AtDimm
  <2> QED
    BY <1>0, <1>2, <1>3, <2>1, SMTT(30) DEF IInv, SentIsRead
<1>7. cmd.pc = "finish" /\ dev'[cmd.dimm].owner = "ours"
         => dev'[cmd.dimm].got = Image
  <2>1. cmd.pc = "finish" => cmd.dimm \in Dimms
    BY DEF IInv, AtDimm
  <2> QED
    BY <1>2, <1>3, <2>1, SMTT(30) DEF IInv
<1>8. Image' = Image
  BY DEF Image
<1> QED
  BY <1>0, <1>4, <1>5, <1>6, <1>7, <1>8 DEF IInv, AtDimm

\* The inductive invariant holds throughout.
LEMMA Inductive == Spec => []IInv
<1>1. IInv /\ [Next]_vars => IInv'
  <2> SUFFICES ASSUME IInv, [Next]_vars PROVE IInv'
    BY SMTT(30)
  <2>1. CASE UNCHANGED vars
    <3>1. Image' = Image
      BY DEF Image
    <3> QED
      BY <2>1, <3>1 DEF vars, IInv, TypeOK, SentIsRead, FinishedIsWhole, AtDimm
  <2>2. CASE Next
    BY <2>2, LoopSteps, StartSteps, SendStep, FinishSteps, ArmSteps,
       EnvironmentSteps DEF Next, Step
  <2> QED
    BY <2>1, <2>2
<1> QED
  BY InitIInv, <1>1, PTL DEF Spec

\* Every variable of an update or activation keeps its type: the position never
\* passes the end of the file, and no more than three starts are attempted.
THEOREM TypeCorrect == Spec => []TypeOK
<1>1. IInv => TypeOK
  BY DEF IInv
<1> QED
  BY Inductive, <1>1, PTL

\* A device that was told to finish has been sent the whole file from its first
\* chunk, for any number of DIMMs and of chunks (send_firmware, and the rewind
\* in update_firmware that a failed send leaves out).
THEOREM FinishedHasImage == Spec => []FinishedIsWhole
<1>1. IInv => FinishedIsWhole
  BY DEF IInv
<1> QED
  BY Inductive, <1>1, PTL

\* A context in the way is aborted only with --force.
ForcedAbort == cmd.pc = "abort_busy" => cmd.opt.force

\* Every step that does not stay at it, or come from SubmitStart, is to another
\* step than the abort.
LEMMA ForcedAbortInductive == Spec => []ForcedAbort
<1>1. Init => ForcedAbort
  BY DEF Init, ForcedAbort, NoCmd
<1>2. IInv /\ ForcedAbort /\ [Next]_vars => ForcedAbort'
  <2> SUFFICES ASSUME IInv, ForcedAbort, [Next]_vars, cmd' # cmd
               PROVE  ForcedAbort'
    BY DEF ForcedAbort
  <2>0. cmd \in Cmds /\ TypeOK
    BY DEF IInv, TypeOK
  <2>1. \A pc \in Steps : Goto(pc) => cmd'.pc = pc /\ cmd'.opt = cmd.opt
    BY <2>0 DEF Goto, Cmds
  <2>2. \A rc : Return(rc) => cmd'.pc = "next"
    BY DEF Return, NoCmd
  <2>3. End => cmd'.pc = "idle"
    BY DEF End, NoCmd
  <2>4. CASE SubmitStart
    <3>1. CASE cmd.opt.force /\ Goto("abort_busy")
      BY <2>1, <3>1 DEF ForcedAbort, Steps
    <3>2. CASE cmd' = [cmd EXCEPT !.pc = "send", !.start = TRUE, !.copied = 0]
      BY <2>0, <3>2 DEF ForcedAbort, Cmds
    <3>3. CASE Return("EBUSY") \/ Return("ENXIO")
      BY <2>2, <3>3 DEF ForcedAbort
    <3> QED
      BY <2>4, <3>1, <3>2, <3>3 DEF SubmitStart
  <2>5. CASE BeginUpdate \/ BeginActivate \/ NextDimm \/ ActionUpdate \/ Kill
    <3>1. cmd'.pc # "abort_busy"
      BY ZenonT(40), <2>0, <2>1, <2>2, <2>3, <2>5
      DEF BeginUpdate, BeginActivate, NextDimm, ActionUpdate, Kill, Cmds, Steps
    <3> QED
      BY <3>1, SMTT(30) DEF ForcedAbort
  <2>6. CASE AbortBusy \/ SendFirmware \/ Abort \/ SubmitFinish \/ QueryFinish
    <3>1. cmd'.pc # "abort_busy"
      BY Zenon, <2>0, <2>1, <2>2, <2>3, <2>6
      DEF AbortBusy, SendFirmware, Abort, SubmitFinish, QueryFinish, Again,
          Cmds, Steps
    <3> QED
      BY <3>1 DEF ForcedAbort
  <2>7. CASE ToggleArm \/ Recheck \/ SetNoidle \/ Activate \/ ClearNoidle
    <3>1. cmd'.pc # "abort_busy"
      BY <2>1, <2>2, <2>3, <2>7
      DEF ToggleArm, Recheck, Toggled, SetNoidle, Activate, AfterActivate,
          ClearNoidle, Steps
    <3> QED
      BY <3>1 DEF ForcedAbort
  <2> QED
    BY <2>4, <2>5, <2>6, <2>7
    DEF Next, Step, vars, DeviceDone, Other, OtherEnd
<1> QED
  BY Inductive, <1>1, <1>2, PTL DEF Spec

\* The upload of another process is ended only by itself or with --force, for
\* any number of DIMMs (submit_start_firmware_upload).
THEOREM OthersAreLeftAlone == Spec => OthersSurvive
<1>1. IInv /\ ForcedAbort /\ [Next]_vars
        => [\A d \in Dimms :
               dev[d].owner = "other" /\ dev'[d].owner # "other"
                  => cmd.opt.force \/ UNCHANGED cmd]_vars
  <2> SUFFICES ASSUME IInv, ForcedAbort, Next, NEW d \in Dimms,
                      dev[d].owner = "other", dev'[d].owner # "other"
               PROVE  cmd.opt.force \/ UNCHANGED cmd
    OBVIOUS
  <2>0. dev \in [Dimms -> Devices] /\ dev'[d] # dev[d]
    BY SMTT(30) DEF IInv, TypeOK
  <2>1. dev' # dev
    BY <2>0
  <2>2. ~ SubmitStart
    BY <2>0 DEF SubmitStart, Busy
  <2>3. ~ SendFirmware /\ ~ Abort /\ ~ SubmitFinish
    BY <2>0 DEF SendFirmware, Abort, SubmitFinish
  <2>4. CASE AbortBusy
    BY <2>4 DEF AbortBusy, ForcedAbort
  <2>5. CASE \E e \in Dimms : DeviceDone(e) \/ Other(e) \/ OtherEnd(e)
    BY <2>5 DEF DeviceDone, Other, OtherEnd
  <2> QED
    BY Zenon, <2>1, <2>2, <2>3, <2>4, <2>5
    DEF Next, Step, BeginUpdate, BeginActivate, Kill, NextDimm, ActionUpdate,
        QueryFinish, ToggleArm, Recheck, SetNoidle, Activate, ClearNoidle
<1> QED
  BY Inductive, ForcedAbortInductive, <1>1, PTL DEF Spec, OthersSurvive

-----------------------------------------------------------------------------
(* A forced update that nothing disturbs.                                  *)

Settled(d) == d \in took \/ dev[d].owner = "finishing"
Calm == cmd.opt.infile /\ cmd.opt.force /\ cmd.alone /\ fails + others = cmd.since

\* What such a command has done: the DIMMs behind it are settled, the context in
\* its way is aborted at the first attempt (unless the device has accepted what
\* it held in the meantime) and the second one starts, and it never aborts.
Reclaims ==
    /\ \A d \in Dimms : dev[d].owner # "other"
    /\ \A d \in Dimms \ todo : Settled(d) \/ (cmd.pc \in AtDimm /\ d = cmd.dimm)
    /\ cmd.pc \notin {"abort", "recheck"}
    /\ cmd.pc # "send" => f_pos = 0
    /\ cmd.pc = "start" => cmd.tries = 0 \/ (cmd.tries = 1 /\ ~Busy(cmd.dimm))
    /\ cmd.pc = "abort_busy"
          => cmd.tries = 0 /\ (Busy(cmd.dimm) \/ cmd.dimm \in took)
    /\ cmd.pc = "send"
          => cmd.start /\ dev[cmd.dimm].owner = "ours" /\ f_pos = cmd.copied
    /\ cmd.pc = "finish" => dev[cmd.dimm].owner = "ours"
    /\ cmd.pc \in {"query", "arm"} => Settled(cmd.dimm)

RInv ==
    /\ cmd.since <= fails + others
    /\ cmd.pc = "idle" => f_pos = 0
    /\ cmd.opt.infile => cmd.pc = "next" \/ cmd.pc \in AtDimm
    /\ Calm => Reclaims

\* The options and the history of a command stay with it to its end.
Keeps == cmd'.opt = cmd.opt /\ cmd'.alone = cmd.alone /\ cmd'.since = cmd.since

\* Return and Goto keep them.
LEMMA ReturnKeeps ==
    ASSUME NEW rc, Return(rc)
    PROVE  Keeps /\ cmd'.pc = "next" /\ todo' = todo
<1>1. cmd' = [[[[NoCmd EXCEPT !.pc = "next"] EXCEPT !.opt = cmd.opt]
                  EXCEPT !.alone = cmd.alone] EXCEPT !.since = cmd.since]
  BY Zenon DEF Return
<1>2. Keeps /\ cmd'.pc = "next"
  BY <1>1 DEF NoCmd, Keeps
<1> QED
  BY <1>2, Zenon DEF Return

LEMMA GotoKeeps ==
    ASSUME cmd \in Cmds, NEW pc, Goto(pc)
    PROVE  /\ Keeps /\ cmd'.pc = pc /\ cmd'.dimm = cmd.dimm
           /\ cmd'.start = cmd.start /\ cmd'.copied = cmd.copied
           /\ cmd'.tries = cmd.tries
BY DEF Goto, Cmds, Keeps

\* Nothing failed and no other process was at work in a step of a command that
\* is undisturbed after it, and it was undisturbed before.
LEMMA CalmBefore ==
    ASSUME TypeOK, RInv, Keeps, Fail \/ fails' = fails,
           others' = others \/ others' = others + 1,
           fails' + others' = cmd'.since
    PROVE  fails' = fails /\ others' = others /\ fails + others = cmd.since
<1>1. fails \in Nat /\ others \in Nat /\ cmd.since \in Nat
  BY ConstantsAssumption DEF TypeOK, Cmds
<1>2. fails' \in {fails, fails + 1} /\ others' \in {others, others + 1}
  BY DEF Fail
<1>3. cmd.since <= fails + others /\ fails' + others' = cmd.since
  BY DEF RInv, Keeps
<1> QED
  BY <1>1, <1>2, <1>3

\* A step that keeps the command going keeps the invariant if it keeps what an
\* undisturbed command has done.
LEMMA KeepsRInv ==
    ASSUME TypeOK, RInv, Keeps, Fail \/ fails' = fails,
           others' = others \/ others' = others + 1,
           cmd'.pc # "idle",
           cmd.opt.infile => cmd'.pc = "next" \/ cmd'.pc \in AtDimm,
           Calm /\ fails' = fails /\ others' = others /\ Reclaims => Reclaims'
    PROVE  RInv'
<1>1. fails \in Nat /\ others \in Nat /\ cmd.since \in Nat
  BY ConstantsAssumption DEF TypeOK, Cmds
<1>2. fails' \in {fails, fails + 1} /\ others' \in {others, others + 1}
  BY DEF Fail
<1>3. cmd'.since <= fails' + others'
  <2>1. cmd.since <= fails + others /\ cmd'.since = cmd.since
    BY DEF RInv, Keeps
  <2> QED
    BY <1>1, <1>2, <2>1, SMTT(30)
<1>4. ASSUME Calm' PROVE Reclaims'
  <2>1. fails' = fails /\ others' = others /\ fails + others = cmd.since
    BY <1>4, CalmBefore DEF Calm
  <2>2. Calm
    BY <1>4, <2>1 DEF Calm, Keeps
  <2> QED
    BY <2>1, <2>2, Zenon DEF RInv
<1>5. cmd'.opt.infile => cmd'.pc = "next" \/ cmd'.pc \in AtDimm
  BY DEF Keeps
<1> QED
  BY <1>3, <1>4, <1>5 DEF RInv, AtDimm

\* The end of a process keeps the invariant.
LEMMA EndRInv ==
    ASSUME TypeOK, End, Fail \/ fails' = fails, others' = others
    PROVE  RInv'
<1>1. fails' \in Nat /\ others' \in Nat
  BY ConstantsAssumption DEF TypeOK, Fail
<1>2. cmd'.since = 0 /\ ~cmd'.opt.infile /\ f_pos' = 0
  BY DEF End, NoCmd
<1>3. cmd'.since <= fails' + others'
  <2>1. \A m, n \in Nat : 0 <= m + n
    OBVIOUS
  <2> QED
    BY <1>1, <1>2, <2>1, Zenon
<1>4. ~Calm'
  BY <1>2 DEF Calm
<1> QED
  BY <1>2, <1>3, <1>4, Zenon DEF RInv

\* The commands' own first steps, and those of the loop over the DIMMs.
LEMMA LoopReclaims ==
    ASSUME IInv, RInv,
           BeginUpdate \/ BeginActivate \/ NextDimm \/ ActionUpdate \/ Kill
    PROVE  RInv'
<1>0. TypeOK /\ cmd \in Cmds
  BY DEF IInv, TypeOK
<1>1. CASE BeginUpdate
  <2> DEFINE alone == \A d \in Dimms : dev[d].owner # "other"
  <2>1. PICK o \in Options :
           cmd' = [cmd EXCEPT !.pc = "next", !.opt = o, !.since = fails + others,
                              !.alone = alone]
    BY <1>1, ZenonT(40) DEF BeginUpdate
  <2>2. /\ cmd.pc = "idle" /\ todo' = Dimms
        /\ UNCHANGED <<dev, f_pos, others, fails>>
    BY <1>1, Zenon DEF BeginUpdate
  <2> HIDE DEF alone
  <2>3. cmd'.pc = "next" /\ cmd'.since = fails + others /\ cmd'.alone = alone
    BY <1>0, <2>1 DEF Cmds
  <2>4. cmd'.since <= fails' + others'
    BY <1>0, <2>2, <2>3, ConstantsAssumption DEF TypeOK
  <2>5. f_pos' = 0
    BY <2>2, SMTT(30) DEF RInv
  <2>6. ASSUME Calm' PROVE Reclaims'
    <3>1. \A d \in Dimms : dev'[d].owner # "other"
      BY <2>2, <2>3, <2>6, Zenon DEF Calm, alone
    <3> QED
      BY <2>2, <2>3, <2>5, <3>1 DEF Reclaims, AtDimm
  <2> QED
    BY <2>3, <2>4, <2>5, <2>6, SMTT(30) DEF RInv
<1>2. CASE BeginActivate
  <2>1. PICK o \in Options :
           /\ ~o.infile
           /\ cmd' = [cmd EXCEPT !.pc = IF o.idle THEN "activate" ELSE "set_noidle",
                                 !.opt = o]
    BY <1>2, Zenon DEF BeginActivate
  <2>2. /\ cmd'.pc \in {"activate", "set_noidle"} /\ cmd'.opt = o
        /\ cmd'.since = cmd.since
    BY <1>0, <2>1, SMTT(30) DEF Cmds
  <2>3. UNCHANGED <<others, fails>>
    BY <1>2, Zenon DEF BeginActivate
  <2>4. ~Calm' /\ ~cmd'.opt.infile
    BY <2>1, <2>2 DEF Calm
  <2> QED
    BY <2>2, <2>3, <2>4 DEF RInv
<1>3. CASE NextDimm
  <2>1. cmd.pc = "next" /\ UNCHANGED <<dev, took, others, fails>>
    BY <1>3, Zenon DEF NextDimm
  <2>2. CASE End
    BY <1>0, <2>1, <2>2, EndRInv
  <2>3. CASE ~End
    <3>1. PICK d \in todo :
             /\ cmd' = [cmd EXCEPT !.pc = "update", !.dimm = d]
             /\ todo' = todo \ {d} /\ UNCHANGED f_pos
      BY <1>3, <2>3, Zenon DEF NextDimm
    <3>2. Keeps /\ cmd'.pc = "update" /\ cmd'.dimm = d
      BY <1>0, <3>1 DEF Cmds, Keeps
    <3>3. ASSUME Reclaims PROVE Reclaims'
      <4>1. \A e \in Dimms \ todo : Settled(e)' \/ e = d
        BY <2>1, <3>3 DEF Reclaims, Settled, AtDimm
      <4>2. \A e \in Dimms \ todo' : Settled(e)' \/ e = d
        BY <3>1, <4>1
      <4> QED
        BY <2>1, <3>1, <3>2, <3>3, <4>2, SMTT(30) DEF Reclaims, AtDimm
    <3> QED
      BY <1>0, <2>1, <3>2, <3>3, KeepsRInv, SMTT(30) DEF AtDimm
  <2> QED
    BY <2>2, <2>3, SMTT(30)
<1>4. CASE ActionUpdate
  <2>1. cmd.pc = "update" /\ UNCHANGED <<dev, f_pos, took, others>>
    BY <1>4 DEF ActionUpdate
  <2>2. CASE Goto("arm") /\ ~cmd.opt.infile /\ UNCHANGED fails
    BY <1>0, <2>1, <2>2, GotoKeeps, KeepsRInv DEF Calm, AtDimm
  <2>3. CASE /\ \/ Return("EBUSY") /\ ~cmd.opt.force /\ UNCHANGED fails
                \/ Return("ENXIO") /\ Fail
    <3>1. Keeps /\ cmd'.pc = "next"
      BY <2>3, ReturnKeeps
    <3>2. Fail => fails' # fails
      BY <1>0, ConstantsAssumption DEF TypeOK, Fail
    <3>3. ~(Calm /\ fails' = fails)
      BY <2>3, <3>2 DEF Calm
    <3> QED
      BY <1>0, <2>1, <2>3, <3>1, <3>3, KeepsRInv
  <2>4. CASE /\ cmd' = [cmd EXCEPT !.pc = "start", !.tries = 0]
             /\ UNCHANGED <<todo, fails>>
    <3>1. /\ Keeps /\ cmd'.pc = "start" /\ cmd'.tries = 0
          /\ cmd'.dimm = cmd.dimm
      BY <1>0, <2>4 DEF Cmds, Keeps
    <3>2. ASSUME Reclaims PROVE Reclaims'
      BY <2>1, <2>4, <3>1, <3>2 DEF Reclaims, Settled, AtDimm
    <3> QED
      BY <1>0, <2>1, <2>4, <3>1, <3>2, KeepsRInv DEF AtDimm
  <2> QED
    BY <1>4, <2>2, <2>3, <2>4 DEF ActionUpdate, GetInfo, Succeed
<1>5. CASE Kill
  BY <1>0, <1>5, EndRInv DEF Kill
<1> QED
  BY <1>1, <1>2, <1>3, <1>4, <1>5

\* A step that returns to the loop keeps the invariant if an undisturbed command
\* leaves a settled DIMM.
LEMMA ReturnReclaims ==
    ASSUME TypeOK, RInv, NEW rc, Return(rc), Fail \/ fails' = fails,
           UNCHANGED <<dev, took, others, f_pos>>,
           Calm /\ fails' = fails /\ Reclaims
              => cmd.pc # "send" /\ Settled(cmd.dimm)
    PROVE  RInv'
<1>1. Keeps /\ cmd'.pc = "next" /\ todo' = todo
  BY ReturnKeeps, SMTT(30)
<1>2. ASSUME Calm, fails' = fails, Reclaims PROVE Reclaims'
  BY <1>1, <1>2 DEF Reclaims, Settled, AtDimm
<1> QED
  BY <1>1, <1>2, KeepsRInv

\* A step to a failure of the command's own is a disturbance.
LEMMA FailDisturbs ==
    ASSUME TypeOK, Fail
    PROVE  fails' # fails
BY ConstantsAssumption DEF TypeOK, Fail

\* The start of an upload, and the abort of one that is in its way.
LEMMA StartReclaims ==
    ASSUME IInv, RInv, SubmitStart \/ AbortBusy
    PROVE  RInv'
<1>0. /\ TypeOK /\ cmd \in Cmds /\ cmd.dimm \in Dimms
      /\ dev \in [Dimms -> Devices]
  BY DEF IInv, SubmitStart, AbortBusy, AtDimm, TypeOK
<1>1. CASE SubmitStart
  <2>1. cmd.pc = "start" /\ UNCHANGED <<f_pos, others>>
    BY <1>1 DEF SubmitStart
  <2>2. CASE /\ ~Busy(cmd.dimm) /\ fails' = fails
             /\ dev' = [dev EXCEPT ![cmd.dimm] = NewContext("ours")]
             /\ took' = took \ {cmd.dimm}
             /\ cmd' = [cmd EXCEPT !.pc = "send", !.start = TRUE, !.copied = 0]
             /\ UNCHANGED todo
    <3>1. /\ Keeps /\ cmd'.pc = "send" /\ cmd'.start /\ cmd'.copied = 0
          /\ cmd'.dimm = cmd.dimm
      BY <1>0, <2>2 DEF Cmds, Keeps
    <3>2. /\ dev'[cmd.dimm].owner = "ours"
          /\ \A d \in Dimms : d # cmd.dimm => dev'[d] = dev[d]
      BY <1>0, <2>2 DEF NewContext
    <3>3. ASSUME Reclaims PROVE Reclaims'
      <4>1. \A d \in Dimms : dev'[d].owner # "other"
        BY <3>2, <3>3 DEF Reclaims
      <4>2. \A d \in Dimms \ todo : Settled(d)' \/ d = cmd.dimm
        BY <2>2, <3>2, <3>3 DEF Reclaims, Settled
      <4> QED
        BY <2>1, <2>2, <3>1, <3>2, <3>3, <4>1, <4>2, SMTT(30) DEF Reclaims, AtDimm
    <3> QED
      BY <1>0, <2>1, <2>2, <3>1, <3>3, KeepsRInv DEF AtDimm
  <2>3. CASE /\ Busy(cmd.dimm) /\ Goto("abort_busy")
             /\ UNCHANGED <<dev, took, todo, fails>>
    <3>1. /\ Keeps /\ cmd'.pc = "abort_busy" /\ cmd'.dimm = cmd.dimm
          /\ cmd'.tries = cmd.tries
      BY <1>0, <2>3, GotoKeeps, SMTT(30)
    <3>2. ASSUME Reclaims PROVE Reclaims'
      BY <2>1, <2>3, <3>1, <3>2 DEF Reclaims, Settled, AtDimm, Busy
    <3> QED
      BY <1>0, <2>1, <2>3, <3>1, <3>2, KeepsRInv, SMTT(30) DEF AtDimm
  <2>4. CASE /\ \E rc : Return(rc)
             /\ Fail \/ (fails' = fails /\ ~cmd.opt.force)
    <3>1. Keeps /\ cmd'.pc = "next"
      BY <2>4, ReturnKeeps
    <3>2. ~(Calm /\ fails' = fails)
      BY <1>0, <2>4, FailDisturbs DEF Calm
    <3> QED
      BY <1>0, <2>1, <2>4, <3>1, <3>2, KeepsRInv
  <2> QED
    BY <1>1, <2>2, <2>3, <2>4 DEF SubmitStart, Succeed
<1>2. CASE AbortBusy
  <2>1. cmd.pc = "abort_busy" /\ UNCHANGED <<f_pos, took, others>>
    BY <1>2, SMTT(30) DEF AbortBusy
  <2>2. CASE /\ fails' = fails /\ Again /\ UNCHANGED todo
             /\ dev' = [dev EXCEPT ![cmd.dimm] = NewContext("none")]
    <3>1. /\ Keeps /\ cmd'.tries = cmd.tries + 1 /\ cmd'.dimm = cmd.dimm
          /\ cmd'.pc = IF cmd.tries < 2 THEN "start" ELSE "send"
      BY <1>0, <2>2 DEF Again, Cmds, Keeps
    <3>2. /\ dev'[cmd.dimm].owner = "none"
          /\ \A d \in Dimms : d # cmd.dimm => dev'[d] = dev[d]
      BY <1>0, <2>2, SMTT(30) DEF NewContext
    <3>3. ASSUME Reclaims PROVE Reclaims'
      <4>1. cmd.tries = 0
        BY <2>1, <3>3, SMTT(30) DEF Reclaims
      <4>2. cmd'.pc = "start" /\ cmd'.tries = 1
        BY <3>1, <4>1, SMTT(30)
      <4>3. \A d \in Dimms : dev'[d].owner # "other"
        BY <3>2, <3>3, SMTT(30) DEF Reclaims
      <4>4. \A d \in Dimms \ todo : Settled(d)' \/ d = cmd.dimm
        BY <2>1, <3>2, <3>3 DEF Reclaims, Settled
      <4> QED
        BY SMTT(30), <2>1, <2>2, <3>1, <3>2, <3>3, <4>2, <4>3, <4>4
        DEF Reclaims, AtDimm, Busy
    <3> QED
      BY <1>0, <2>1, <2>2, <3>1, <3>3, KeepsRInv DEF AtDimm
  <2>3. CASE /\ (~Busy(cmd.dimm) /\ fails' = fails) \/ Fail
             /\ Return("EBUSY") /\ UNCHANGED dev
    <3>1. Calm /\ fails' = fails /\ Reclaims => Settled(cmd.dimm)
      BY <1>0, <2>1, <2>3, FailDisturbs DEF Reclaims, Settled
    <3> QED
      BY <1>0, <2>1, <2>3, <3>1, ReturnReclaims
  <2> QED
    BY <1>2, <2>2, <2>3 DEF AbortBusy, Succeed
<1> QED
  BY <1>1, <1>2

\* The sends.
LEMMA SendReclaims ==
    ASSUME IInv, RInv, SendFirmware
    PROVE  RInv'
<1>0. /\ TypeOK /\ cmd \in Cmds /\ cmd.dimm \in Dimms /\ cmd.pc = "send"
      /\ dev \in [Dimms -> Devices] /\ cmd.copied \in Nat /\ f_pos \in 0..Chunks
  BY SMTT(30) DEF IInv, SendFirmware, AtDimm, TypeOK, Cmds
<1>1. UNCHANGED <<took, others>>
  BY DEF SendFirmware
<1>2. CASE Goto("finish") /\ f_pos' = 0 /\ UNCHANGED <<dev, todo, fails>>
  <2>1. Keeps /\ cmd'.pc = "finish" /\ cmd'.dimm = cmd.dimm
    BY <1>0, <1>2, GotoKeeps, SMTT(30)
  <2>2. ASSUME Reclaims PROVE Reclaims'
    BY <1>0, <1>1, <1>2, <2>1, <2>2 DEF Reclaims, Settled, AtDimm
  <2> QED
    BY <1>0, <1>1, <1>2, <2>1, <2>2, KeepsRInv DEF AtDimm
<1>3. CASE /\ Goto("abort") /\ (Fail \/ fails' = fails)
           /\ Fail \/ (~Sent /\ ~ReadFile) \/ dev[cmd.dimm].owner # "ours"
  <2>1. Keeps /\ cmd'.pc = "abort"
    BY <1>0, <1>3, GotoKeeps, SMTT(30)
  <2>2. ~(Reclaims /\ fails' = fails)
    BY <1>0, <1>3, FailDisturbs, ConstantsAssumption DEF Reclaims, Sent, ReadFile
  <2> QED
    BY <1>0, <1>1, <1>3, <2>1, <2>2, KeepsRInv, SMTT(30) DEF AtDimm
<1>4. CASE /\ cmd.start /\ dev[cmd.dimm].owner = "ours"
           /\ dev' = [dev EXCEPT ![cmd.dimm].got = Append(@, f_pos + 1)]
           /\ f_pos' = f_pos + 1 /\ cmd' = [cmd EXCEPT !.copied = @ + 1]
           /\ UNCHANGED <<todo, fails>>
  <2>1. /\ Keeps /\ cmd'.pc = "send" /\ cmd'.dimm = cmd.dimm
        /\ cmd'.start = cmd.start /\ cmd'.copied = cmd.copied + 1
    BY <1>0, <1>4, Zenon DEF Cmds, Keeps
  <2>2. \A d \in Dimms : dev'[d].owner = dev[d].owner
    BY <1>0, <1>4 DEF Devices
  <2>3. ASSUME Reclaims PROVE Reclaims'
    BY <1>0, <1>1, <1>4, <2>1, <2>2, <2>3 DEF Reclaims, Settled, AtDimm
  <2> QED
    BY <1>0, <1>1, <1>4, <2>1, <2>3, KeepsRInv DEF AtDimm
<1>5. CASE End /\ UNCHANGED fails
  BY <1>0, <1>1, <1>5, EndRInv
<1> QED
  BY <1>2, <1>3, <1>4, <1>5 DEF SendFirmware, Succeed

\* The abort, the finish and the query.
LEMMA FinishReclaims ==
    ASSUME IInv, RInv, Abort \/ SubmitFinish \/ QueryFinish
    PROVE  RInv'
<1>0. /\ TypeOK /\ cmd \in Cmds /\ cmd.dimm \in Dimms
      /\ dev \in [Dimms -> Devices] /\ UNCHANGED <<took, others>>
  BY DEF IInv, Abort, SubmitFinish, QueryFinish, AtDimm, TypeOK
<1>1. CASE Abort
  <2>1. cmd.pc = "abort" /\ (Fail \/ fails' = fails)
    BY <1>1 DEF Abort, Succeed
  <2>2. CASE \E rc : Return(rc)
    <3>1. Keeps /\ cmd'.pc = "next"
      BY <2>2, ReturnKeeps, SMTT(30)
    <3>2. ~Reclaims
      BY <2>1 DEF Reclaims
    <3> QED
      BY <1>0, <2>1, <3>1, <3>2, KeepsRInv
  <2>3. CASE End
    BY <1>0, <2>1, <2>3, EndRInv, SMTT(30)
  <2> QED
    BY <1>1, <2>2, <2>3 DEF Abort
<1>2. CASE SubmitFinish
  <2>1. cmd.pc = "finish" /\ UNCHANGED <<f_pos, todo>> /\ (Fail \/ fails' = fails)
    BY <1>2 DEF SubmitFinish, Succeed
  <2>2. /\ Keeps /\ cmd'.pc \in {"query", "abort"} /\ cmd'.dimm = cmd.dimm
        /\ cmd'.pc = "abort" => Fail
    <3>1. CASE cmd' = [cmd EXCEPT !.pc = "query", !.queries = 0]
      BY <1>0, <3>1, SMTT(30) DEF Cmds, Keeps
    <3>2. CASE Fail /\ Goto("abort")
      BY <1>0, <3>2, GotoKeeps, SMTT(30)
    <3> QED
      BY <1>2, <3>1, <3>2 DEF SubmitFinish
  <2>3. ASSUME fails' = fails, Reclaims PROVE Reclaims'
    <3>1. ~Fail
      BY <1>0, <2>3, FailDisturbs, SMTT(30)
    <3>2. dev[cmd.dimm].owner = "ours"
      BY <2>1, <2>3 DEF Reclaims
    <3>3. dev' = [dev EXCEPT ![cmd.dimm].owner = "finishing"]
      BY <1>2, <3>1, <3>2 DEF SubmitFinish
    <3>4. /\ dev'[cmd.dimm].owner = "finishing"
          /\ \A d \in Dimms : d # cmd.dimm => dev'[d] = dev[d]
      BY <1>0, <3>3, SMTT(30) DEF Devices
    <3>5. \A d \in Dimms : dev'[d].owner # "other"
      BY <2>3, <3>4, SMTT(30) DEF Reclaims
    <3>6. \A d \in Dimms \ todo : Settled(d)'
      BY <1>0, <2>3, <3>4 DEF Reclaims, Settled
    <3>7. Settled(cmd.dimm)'
      BY <2>2, <3>4 DEF Settled
    <3> QED
      BY <2>1, <2>2, <2>3, <3>1, <3>5, <3>6, <3>7 DEF Reclaims
  <2> QED
    BY <1>0, <2>1, <2>2, <2>3, KeepsRInv DEF AtDimm
<1>3. CASE QueryFinish
  <2>1. cmd.pc = "query" /\ UNCHANGED <<dev, f_pos>> /\ (Fail \/ fails' = fails)
    BY <1>3 DEF QueryFinish, Succeed
  <2>2. CASE \E rc : Return(rc)
    <3>1. Reclaims => Settled(cmd.dimm)
      BY <2>1, SMTT(30) DEF Reclaims
    <3> QED
      BY <1>0, <2>1, <2>2, <3>1, ReturnReclaims, SMTT(30)
  <2>3. CASE ~ \E rc : Return(rc)
    <3>1. UNCHANGED <<todo, fails>>
      BY <1>3, <2>3 DEF QueryFinish
    <3>2. Keeps /\ cmd'.pc \in {"query", "arm"} /\ cmd'.dimm = cmd.dimm
      <4>1. CASE Goto("arm")
        BY <1>0, <4>1, GotoKeeps
      <4>2. CASE cmd' = [cmd EXCEPT !.queries = IF @ < MaxQueries THEN @ + 1 ELSE @]
        BY <1>0, <2>1, <4>2, SMTT(30) DEF Cmds, Keeps
      <4> QED
        BY <1>3, <2>3, <4>1, <4>2 DEF QueryFinish
    <3>3. ASSUME Reclaims PROVE Reclaims'
      BY <1>0, <2>1, <3>1, <3>2, <3>3 DEF Reclaims, Settled, AtDimm
    <3> QED
      BY <1>0, <2>1, <3>1, <3>2, <3>3, KeepsRInv DEF AtDimm
  <2> QED
    BY <2>2, <2>3
<1> QED
  BY <1>1, <1>2, <1>3

\* Arming and activation: an undisturbed update with --force does not look for
\* an overflow again.
LEMMA ArmReclaims ==
    ASSUME IInv, RInv,
           ToggleArm \/ Recheck \/ SetNoidle \/ Activate \/ ClearNoidle
    PROVE  RInv'
<1>0. /\ TypeOK /\ cmd \in Cmds /\ UNCHANGED <<dev, took, others>>
      /\ Fail \/ fails' = fails
  BY Zenon
  DEF IInv, TypeOK, ToggleArm, Recheck, SetNoidle, Activate, ClearNoidle, Succeed
<1>1. CASE (ToggleArm \/ Recheck) /\ \E rc : Return(rc)
  <2>1. cmd.pc \in {"arm", "recheck"} /\ UNCHANGED f_pos
    BY <1>1, Zenon DEF ToggleArm, Recheck
  <2>2. Reclaims => Settled(cmd.dimm)
    BY <2>1, SMTT(30) DEF Reclaims
  <2> QED
    BY <1>0, <1>1, <2>1, <2>2, ReturnReclaims
<1>2. CASE (ToggleArm \/ Recheck) /\ ~ \E rc : Return(rc)
  <2>1. ~cmd.opt.force /\ Goto("recheck")
    BY <1>2 DEF ToggleArm, Recheck, Toggled
  <2> QED
    BY <1>0, <2>1, GotoKeeps, KeepsRInv, SMTT(30) DEF Calm, AtDimm
<1>3. CASE SetNoidle \/ Activate \/ ClearNoidle
  <2>1. ~cmd.opt.infile
    BY <1>3 DEF SetNoidle, Activate, ClearNoidle, RInv, AtDimm
  <2>2. CASE End
    BY <1>0, <2>2, EndRInv
  <2>3. CASE ~End
    <3>1. PICK pc \in {"activate", "clear_noidle"} : Goto(pc)
      BY <1>3, <2>3 DEF SetNoidle, Activate, ClearNoidle, AfterActivate
    <3>2. Keeps /\ cmd'.pc # "idle"
      BY <1>0, <3>1, GotoKeeps
    <3> QED
      BY <1>0, <2>1, <3>2, KeepsRInv, SMTT(30) DEF Calm
  <2> QED
    BY <2>2, <2>3, SMTT(30)
<1> QED
  BY <1>1, <1>2, <1>3, SMTT(30)

\* The devices and the other process: a device may accept what the command is
\* about to abort.
LEMMA EnvironmentReclaims ==
    ASSUME IInv, RInv, NEW d \in Dimms, DeviceDone(d) \/ Other(d) \/ OtherEnd(d)
    PROVE  RInv'
<1>0. /\ TypeOK /\ cmd \in Cmds /\ dev \in [Dimms -> Devices]
      /\ UNCHANGED <<cmd, todo, f_pos>> /\ (Fail \/ fails' = fails)
      /\ others' = others \/ others' = others + 1
  BY DEF IInv, TypeOK, DeviceDone, Other, OtherEnd, Succeed
<1>1. Keeps
  BY <1>0, SMTT(30) DEF Keeps
<1>2. ASSUME fails' = fails, others' = others, Reclaims PROVE Reclaims'
  <2>1. ~Fail /\ ~Other(d)
    BY <1>0, <1>2, FailDisturbs, ConstantsAssumption, SMTT(30) DEF Other, TypeOK
  <2>2. ~OtherEnd(d)
    BY <1>2 DEF OtherEnd, Reclaims
  <2>3. /\ dev[d].owner = "finishing" /\ took' = took \cup {d}
        /\ dev' = [dev EXCEPT ![d].owner = "done"]
    BY <2>1, <2>2 DEF DeviceDone, IInv, FinishedIsWhole
  <2>4. /\ dev'[d].owner = "done" /\ d \in took'
        /\ \A e \in Dimms : e # d => dev'[e] = dev[e]
    BY <1>0, <2>3 DEF Devices
  <2>5. \A e \in Dimms : Settled(e) => Settled(e)'
    BY <2>3, <2>4 DEF Settled
  <2>6. \A e \in Dimms : /\ dev[e].owner = "ours" => dev'[e].owner = "ours"
                         /\ ~Busy(e) => ~Busy(e)'
                         /\ Busy(e) => Busy(e)' \/ e \in took'
    BY <2>3, <2>4, SMTT(30) DEF Busy
  <2>7. cmd.pc \in AtDimm => cmd.dimm \in Dimms
    BY SMTT(30) DEF IInv
  <2>8. \A e \in Dimms : dev'[e].owner # "other"
    BY <1>2, <2>4 DEF Reclaims
  <2>9. took \subseteq took'
    BY <2>3, SMTT(30)
  <2> QED
    BY <1>0, <1>2, <2>5, <2>6, <2>7, <2>8, <2>9, Zenon DEF Reclaims, AtDimm
<1>3. CASE cmd.pc # "idle"
  BY <1>0, <1>1, <1>2, <1>3, KeepsRInv DEF RInv
<1>4. CASE cmd.pc = "idle"
  <2>1. ~cmd.opt.infile
    BY <1>4 DEF RInv, AtDimm
  <2>2. cmd'.since <= fails' + others'
    <3>1. fails \in Nat /\ others \in Nat /\ cmd.since \in Nat
      BY <1>0, ConstantsAssumption DEF TypeOK, Cmds
    <3>2. fails' \in {fails, fails + 1} /\ cmd'.since = cmd.since
      BY <1>0 DEF Fail
    <3>3. cmd.since <= fails + others
      BY DEF RInv
    <3> QED
      BY <1>0, <3>1, <3>2, <3>3, SMTT(30)
  <2>3. ~Calm' /\ ~cmd'.opt.infile
    BY <1>0, <2>1 DEF Calm
  <2>4. f_pos' = 0
    BY <1>0, <1>4 DEF RInv
  <2> QED
    BY <2>2, <2>3, <2>4, Zenon DEF RInv
<1> QED
  BY <1>3, <1>4

\* What an undisturbed command has done holds throughout.
LEMMA ReclaimsInductive == Spec => []RInv
<1>1. Init => RInv
  <2> SUFFICES ASSUME Init PROVE RInv
    OBVIOUS
  <2>1. cmd.since = 0 /\ ~cmd.opt.infile /\ f_pos = 0 /\ fails = 0 /\ others = 0
    BY DEF Init, NoCmd
  <2> QED
    BY <2>1, SMTT(30) DEF RInv, Calm
<1>2. IInv /\ RInv /\ [Next]_vars => RInv'
  <2> SUFFICES ASSUME IInv, RInv, [Next]_vars PROVE RInv'
    BY SMTT(30)
  <2>1. CASE UNCHANGED vars
    BY <2>1 DEF vars, RInv, Calm, Reclaims, Settled, Busy
  <2>2. CASE Next
    BY <2>2, LoopReclaims, StartReclaims, SendReclaims, FinishReclaims,
       ArmReclaims, EnvironmentReclaims, Zenon DEF Next, Step
  <2> QED
    BY <2>1, <2>2
<1> QED
  BY Inductive, <1>1, <1>2, PTL DEF Spec

\* For any number of DIMMs and of chunks and any history before it, an update
\* with --force that nothing disturbs ends with each DIMM having accepted an
\* image or still verifying it (update_firmware, submit_start_firmware_upload).
THEOREM ForcedUpdatesReclaim == Spec => ForcedReclaims
<1> DEFINE Reclaimed ==
      cmd.opt.infile /\ cmd.opt.force /\ cmd.pc # "idle" /\ cmd'.pc = "idle"
         /\ Undisturbed
         => \A d \in Dimms : d \in took' \/ dev'[d].owner = "finishing"
<1>1. IInv /\ RInv /\ [Next]_vars => [Reclaimed]_vars
  <2> SUFFICES ASSUME IInv, RInv, Next, cmd.opt.infile, cmd.opt.force,
                      cmd.pc # "idle", cmd'.pc = "idle", Undisturbed
               PROVE  \A d \in Dimms : d \in took' \/ dev'[d].owner = "finishing"
    BY Zenon
  <2>0. TypeOK /\ cmd \in Cmds /\ cmd.pc \in {"next"} \cup AtDimm
    BY DEF IInv, TypeOK, RInv
  <2>1. \A pc : Goto(pc) => cmd'.pc = pc
    BY <2>0, GotoKeeps
  <2>2. \A rc : ~Return(rc)
    BY ReturnKeeps, SMTT(30)
  <2>3. fails \in Nat /\ others \in Nat /\ cmd.since <= fails + others
          /\ cmd.since \in Nat
    BY <2>0, ConstantsAssumption DEF TypeOK, RInv, Cmds
  <2>4. ~Kill
    BY <2>3 DEF Kill, Fail, Undisturbed
  <2>5. CASE UNCHANGED <<fails, others>>
    <3>1. Reclaims
      BY <2>5, SMTT(30) DEF RInv, Calm, Undisturbed
    <3>2. CASE NextDimm
      <4>1. cmd.pc = "next" /\ UNCHANGED <<dev, took>>
        BY <3>2, Zenon DEF NextDimm
      <4>2. ASSUME NEW d, cmd' = [cmd EXCEPT !.pc = "update", !.dimm = d]
            PROVE  FALSE
        <5>1. cmd'.pc = "update"
          BY <2>0, <4>2, SMTT(30) DEF Cmds
        <5> QED
          BY <5>1
      <4>3. todo = {}
        BY <3>2, <4>2, Zenon DEF NextDimm
      <4> QED
        BY <3>1, <4>1, <4>3, SMTT(30) DEF Reclaims, Settled, AtDimm
    <3>3. ~SendFirmware
      BY <2>0, <2>1, <3>1, SMTT(30) DEF SendFirmware, Reclaims, Cmds
    <3>4. ~Abort
      BY <3>1, SMTT(30) DEF Abort, Reclaims
    <3>5. ~BeginUpdate /\ ~BeginActivate /\ ~SetNoidle /\ ~Activate /\ ~ClearNoidle
      BY <2>0, Zenon
      DEF BeginUpdate, BeginActivate, SetNoidle, Activate, ClearNoidle, AtDimm
    <3>6. ~ActionUpdate /\ ~SubmitStart /\ ~AbortBusy
      <4>1. cmd' # [cmd EXCEPT !.pc = "start", !.tries = 0]
        BY <2>0, Zenon DEF Cmds
      <4>2. ASSUME cmd' = [cmd EXCEPT !.pc = "send", !.start = TRUE, !.copied = 0]
            PROVE  FALSE
        <5>1. cmd'.pc = "send"
          BY <2>0, <4>2 DEF Cmds
        <5> QED
          BY <5>1
      <4>3. ~Again
        <5>1. Again => cmd'.pc \in {"start", "send"}
          BY <2>0 DEF Cmds, Again
        <5> QED
          BY <5>1
      <4> QED
        BY <2>1, <2>2, <4>1, <4>2, <4>3 DEF ActionUpdate, SubmitStart, AbortBusy
    <3>7. ~SubmitFinish /\ ~QueryFinish /\ ~ToggleArm /\ ~Recheck
      <4>1. /\ cmd' # [cmd EXCEPT !.pc = "query", !.queries = 0]
            /\ cmd' # [cmd EXCEPT !.queries = IF @ < MaxQueries THEN @ + 1 ELSE @]
        <5>1. ASSUME cmd' = [cmd EXCEPT !.pc = "query", !.queries = 0] PROVE FALSE
          <6>1. cmd'.pc = "query"
            BY <2>0, <5>1, SMTT(30) DEF Cmds
          <6> QED BY <6>1
        <5>2. ASSUME NEW n, cmd' = [cmd EXCEPT !.queries = n] PROVE FALSE
          <6>1. cmd'.pc = cmd.pc
            BY <2>0, <5>2, SMTT(30) DEF Cmds
          <6> QED BY <6>1
        <5> QED BY <5>1, <5>2, Zenon
      <4>2. \A valid : ~Toggled(valid)
        BY <2>2 DEF Toggled
      <4> QED
        BY <2>1, <2>2, <4>1, <4>2, Zenon
        DEF SubmitFinish, QueryFinish, ToggleArm, Recheck
    <3> QED
      BY SMTT(30), <2>4, <3>2, <3>3, <3>4, <3>5, <3>6, <3>7
      DEF Next, Step, DeviceDone, Other, OtherEnd
  <2>6. CASE ~UNCHANGED <<fails, others>>
    <3>1. /\ fails' \in {fails, fails + 1} /\ others' \in {others, others + 1}
          /\ fails' # fails \/ others' # others
      <4>1. Fail \/ Succeed
        BY Zenon, <2>4, <2>6
        DEF Next, Step, BeginUpdate, BeginActivate, NextDimm, ActionUpdate, GetInfo,
            SubmitStart, AbortBusy, SendFirmware, Abort, SubmitFinish, QueryFinish,
            ToggleArm, Recheck, SetNoidle, Activate, ClearNoidle, DeviceDone,
            Other, OtherEnd, Succeed
      <4>2. others' = others \/ others' = others + 1
        BY Zenon, <2>4
        DEF Next, Step, BeginUpdate, BeginActivate, NextDimm, ActionUpdate,
            SubmitStart, AbortBusy, SendFirmware, Abort, SubmitFinish, QueryFinish,
            ToggleArm, Recheck, SetNoidle, Activate, ClearNoidle, DeviceDone,
            Other, OtherEnd
      <4> QED
        BY <2>6, <4>1, <4>2 DEF Fail, Succeed
    <3>2. fails' + others' = cmd.since
      BY DEF Undisturbed
    <3> QED
      BY <2>3, <3>1, <3>2
  <2> QED
    BY <2>5, <2>6
<1> QED
  BY Inductive, ReclaimsInductive, <1>1, PTL DEF Spec, ForcedReclaims
============================================================================
