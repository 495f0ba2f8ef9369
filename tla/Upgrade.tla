------------------------------ MODULE Upgrade ------------------------------
(***************************************************************************)
(* The firmware upgrade of the TP79 boot loader (TP79_BOOT).  The boot     *)
(* loader runs when the boot flag in flash is 0x88888888.  It logs in to   *)
(* the server through the PoC modem, compares versions, has the modem      *)
(* download the image, and then asks for the image pack by pack (256 bytes *)
(* each), programs every pack at its place, reads it back and counts it.   *)
(*                                                                         *)
(* There is one thread: download_code_bin() is a loop of poc_task(), which *)
(* runs the switch over the status and then handles every message received *)
(* so far, followed by the checks on the status that leave the loop.  The  *)
(* model takes one step per switch, per message, per flash operation and   *)
(* per check, and the supply may fail between any two of them.             *)
(*                                                                         *)
(* The modem and the server are external.  A reply to a request may be     *)
(* lost, delayed, repeated or reordered; the login notification is         *)
(* unsolicited.  All that was ever asked for in this power-on may arrive   *)
(* at any later time, so no channel is needed.                             *)
(*                                                                         *)
(* A garbled reply whose command, product name or CRC no longer fits is    *)
(* dropped, which is as good as lost, and the CRC is taken to find every   *)
(* garbled data byte.  Nothing protects three other fields: the version of *)
(* +POC:42, the count of +POC:4302 and the pack number of +POC:4303.  What *)
(* arrives in them is whatever the line made of it (Garbles).              *)
(***************************************************************************)
EXTENDS Integers

CONSTANTS
  N,           \* the packs of the server's image, the pack_sum of +POC:4302
  EraseCap,    \* the packs Flash_Erase clears: 390 KB, 1560 packs
  ServerVer,   \* the version the server offers
  VerSoft,     \* VER_SOFT, the version compiled into the boot loader
  OldVer,      \* the version the application left in the configuration
  NoCfg,       \* configuration whose init_flag is not 0x66666666
  Garbles,     \* the unprotected fields the line may garble
  MaxSum,      \* bound: counts and pack numbers that arrive
  MaxBoot,     \* bound: power-ons
  MaxFault     \* bound: packs the flash programs wrongly

ASSUME UpgradeAssumption ==
  /\ N \in Nat \ {0}
  /\ EraseCap \in Nat
  /\ Garbles \subseteq {"version", "count", "number"}
  /\ MaxSum \in Nat /\ MaxSum >= N
  /\ MaxBoot \in Nat
  /\ MaxFault \in Nat
  /\ ServerVer # VerSoft
  /\ ServerVer # OldVer
  /\ "none" \notin {ServerVer, VerSoft, OldVer}
  /\ NoCfg \notin [ver : {ServerVer, VerSoft, OldVer}, order : {"memory", "reversed"}]

VARIABLES
  \* what survives a power cut
  flag,        \* the word at FLASH_ADDR_BOOT_FLAG
  app,         \* the application area, by place of a pack
  cfg,         \* the configuration page: version and its byte order
  \* the boot loader's RAM
  pc,          \* where download_code_bin is
  reason,      \* why it left its loop
  status,      \* poc_device.status
  down_status, \* poc_device.down_status
  cnt,         \* poc_device.down_pack_cnt
  sum,         \* poc_device.pack_sum
  server_soft_ver, \* poc_device.server_soft_ver, "none" when empty
  dat256,      \* the accepted pack's data: those of its place or of another
  erase_flag,  \* the static of poc_uart_msg_deal
  time,        \* "late" when SysTick_Cnt > 300000
  verdict,     \* history: how the pass took the last version message
  garbled,     \* history: the fields in which something wrong was believed
  \* the modem and the clock of the model
  asked,       \* requests sent in this power-on
  askedPack,   \* packs asked for in this power-on: 1 .. askedPack
  boots,       \* power-ons so far
  faults       \* packs programmed wrongly so far

flash  == <<flag, app, cfg>>
poc    == <<status, down_status, cnt, sum, server_soft_ver>>
modem  == <<asked, askedPack>>
bounds == <<boots, faults>>
line   == <<verdict, garbled>>
vars == <<flash, pc, reason, poc, dat256, erase_flag, time, line, modem, bounds>>

Pack    == 1 .. N         \* the packs of the image, and their places
Place   == 1 .. MaxSum    \* the places a pack may be programmed at
Content == {"old", "erased", "new", "other", "junk"}
Version == {ServerVer, VerSoft, OldVer}
Order   == {"memory", "reversed"}
Status  == {"STARTING", "CHECKED_OK", "LANDING", "LAND_SUCCESSED",
            "VER_DWONLOAD", "VER_UPGRADE", "VER_SAME", "DWONLOAD_SUCCESS"}
Where   == {"boot", "switch", "drain", "erase", "program", "check",
            "flagErase", "flagWrite", "cfgErase", "cfgWrite", "app"}

\* Flash_Write stores the version in memory order, Flash_Read returns the
\* bytes of every word in the opposite order: a read turns the order round.
Flash_Read(c) ==
  [c EXCEPT !.order = IF @ = "memory" THEN "reversed" ELSE "memory"]

\* The device_cfg of the RAM: boot_ui_init read it from flash.
device_cfg == Flash_Read(cfg)

Init ==
  /\ flag = "set"
  /\ \/ /\ app = [k \in Place |-> "old"]
        /\ cfg \in {NoCfg} \cup [ver : {OldVer}, order : Order]
     \/ /\ app = [k \in Place |-> IF k \in Pack THEN "new" ELSE "erased"]
        /\ cfg \in [ver : {ServerVer}, order : Order]
  /\ pc = "boot" /\ reason = "none"
  /\ status = "STARTING" /\ down_status = 0 /\ cnt = 0 /\ sum = 0
  /\ server_soft_ver = "none" /\ dat256 = "none"
  /\ erase_flag = 0 /\ time = "early"
  /\ verdict = "none" /\ garbled = {}
  /\ asked = {} /\ askedPack = 0
  /\ boots = 0 /\ faults = 0

-----------------------------------------------------------------------------
(* Power-on: main, device_init, boot_ui_init and poc_init.                 *)

\* The start-up code clears the statics, poc_init and boot_ui_init the rest; a
\* board without supply is in the same state, for nothing reads its RAM.
RamStartsUp ==
  /\ reason' = "none"
  /\ status' = "STARTING" /\ down_status' = 0 /\ cnt' = 0 /\ sum' = 0
  /\ server_soft_ver' = "none" /\ dat256' = "none"
  /\ erase_flag' = 0 /\ time' = "early"
  /\ verdict' = "none"
  /\ asked' = {} /\ askedPack' = 0

Boot ==
  /\ pc = "boot"
  /\ IF flag = "set"
       THEN /\ pc' = "switch"
            /\ cfg' = IF cfg = NoCfg THEN [ver |-> VerSoft, order |-> "memory"] ELSE cfg
       ELSE /\ pc' = "app"
            /\ UNCHANGED cfg
  /\ RamStartsUp
  /\ UNCHANGED <<flag, app, garbled, bounds>>

-----------------------------------------------------------------------------
(* poc_task, first half: the switch over the status.  Whether a resend     *)
(* timer has run out is a choice.                                          *)

Ask(req) ==
  /\ asked' = asked \cup {req}
  /\ UNCHANGED <<poc, askedPack>>

SendVersionRequest ==
  /\ status = "LAND_SUCCESSED" /\ server_soft_ver = "none"
  /\ Ask("ver")

SendDownloadRequest ==
  /\ status = "VER_DWONLOAD" /\ cnt = 0 /\ down_status = 0
  /\ Ask("dl")

\* Wrong variant: asks again for the pack counted last.
SendPackRequest_Last ==
  /\ status = "VER_UPGRADE" /\ cnt < sum
  /\ askedPack' = IF cnt > askedPack THEN cnt ELSE askedPack
  /\ UNCHANGED <<poc, asked>>

\* Wrong variant: asks for one pack too many.
SendPackRequest_PastLast ==
  /\ status = "VER_UPGRADE" /\ cnt <= sum
  /\ askedPack' = IF cnt + 1 > askedPack THEN cnt + 1 ELSE askedPack
  /\ UNCHANGED <<poc, asked>>

SendPackRequest ==
  /\ status = "VER_UPGRADE" /\ cnt < sum
  /\ askedPack' = IF cnt + 1 > askedPack THEN cnt + 1 ELSE askedPack
  /\ UNCHANGED <<poc, asked>>

\* Wrong variant: one pack too early.
AllPacksCounted_Early ==
  /\ status = "VER_UPGRADE" /\ cnt + 1 >= sum
  /\ status' = "DWONLOAD_SUCCESS"
  /\ UNCHANGED <<down_status, cnt, sum, server_soft_ver, modem>>

AllPacksCounted ==
  /\ status = "VER_UPGRADE" /\ cnt >= sum
  /\ status' = "DWONLOAD_SUCCESS"
  /\ UNCHANGED <<down_status, cnt, sum, server_soft_ver, modem>>

\* Nothing to send, or its timer is still running.
SendNothing ==
  /\ ~(status = "VER_UPGRADE" /\ cnt >= sum)
  /\ UNCHANGED <<poc, modem>>

Send == SendVersionRequest \/ SendDownloadRequest \/ SendPackRequest

Switch ==
  /\ pc = "switch"
  /\ Send \/ AllPacksCounted \/ SendNothing
  /\ pc' = "drain"
  /\ UNCHANGED <<flash, reason, dat256, erase_flag, time, line, bounds>>

-----------------------------------------------------------------------------
(* poc_task, second half: poc_uart_msg_deal on every message received.     *)

Handle ==
  /\ pc = "drain"
  /\ UNCHANGED <<flash, reason, erase_flag, time, modem, bounds>>

RecvOK ==
  /\ Handle /\ pc' = pc
  /\ status = "STARTING"
  /\ status' = "CHECKED_OK"
  /\ UNCHANGED <<down_status, cnt, sum, server_soft_ver, dat256, line>>

\* +POC:8201 and +POC:8202, the login notification.
RecvLogin ==
  /\ Handle /\ pc' = pc
  /\ \E s \in {"LANDING", "LAND_SUCCESSED"} : status' = s
  /\ UNCHANGED <<down_status, cnt, sum, server_soft_ver, dat256, line>>

\* What is believed of a field: what was sent, or anything else once garbled.
Believe(field, got, sent) ==
  /\ got # sent => field \in Garbles
  /\ garbled' = IF got = sent THEN garbled ELSE garbled \cup {field}

\* +POC:42.  The first 12 bytes name the product, the same for all versions,
\* so they differ from the record only when the record's order is reversed.
RecvVersion ==
  /\ Handle /\ pc' = pc
  /\ "ver" \in asked
  /\ \/ /\ device_cfg.order = "reversed"
        /\ verdict' = "ignored"
        /\ UNCHANGED <<status, server_soft_ver, garbled>>
     \/ /\ device_cfg.order = "memory"
        /\ \E v \in Version :
             /\ Believe("version", v, ServerVer)
             /\ \/ /\ device_cfg.ver = v
                   /\ verdict' = "same" /\ status' = "VER_SAME"
                   /\ UNCHANGED server_soft_ver
                \/ /\ device_cfg.ver # v
                   /\ verdict' = "other" /\ status' = "VER_DWONLOAD"
                   /\ server_soft_ver' = v
  /\ UNCHANGED <<down_status, cnt, sum, dat256>>

\* +POC:4300, the modem is downloading.
RecvDownloading ==
  /\ Handle /\ pc' = pc
  /\ "dl" \in asked
  /\ down_status' = 1
  /\ UNCHANGED <<status, cnt, sum, server_soft_ver, dat256, line>>

\* +POC:4302, the modem holds the image.  Its count is taken unchecked.
RecvDownloaded ==
  /\ Handle /\ pc' = pc
  /\ "dl" \in asked
  /\ status' = "VER_UPGRADE"
  /\ sum' \in 0 .. MaxSum
  /\ Believe("count", sum', N)
  /\ UNCHANGED <<down_status, cnt, server_soft_ver, dat256, verdict>>

\* +POC:4303.  A pack whose data do not fit the CRC or whose number is not
\* the next one is dropped.  The CRC does not cover the number: pack k with
\* sound data and a garbled number is taken for the next one too.  The first
\* pack taken erases the application.
RecvPack ==
  /\ Handle
  /\ \E k \in 1 .. askedPack, number \in Place, crc_ok \in BOOLEAN :
       /\ k \in Pack
       /\ crc_ok /\ number = cnt + 1
       /\ Believe("number", number, k)
       /\ dat256' = IF k = number THEN "new" ELSE "other"
  /\ pc' = IF erase_flag = 1 THEN "program" ELSE "erase"
  /\ UNCHANGED <<poc, verdict>>

DrainDone ==
  /\ Handle /\ pc' = "check"
  /\ verdict' = "none"
  /\ UNCHANGED <<poc, dat256, garbled>>

\* Wrong variant: the boot flag goes with the application.
EraseApp_FlagToo ==
  /\ pc = "erase" /\ pc' = "program"
  /\ erase_flag' = 1
  /\ app' = [k \in Place |-> IF k <= EraseCap THEN "erased" ELSE app[k]]
  /\ flag' = "clear"
  /\ UNCHANGED <<cfg, reason, poc, dat256, time, line, modem, bounds>>

EraseApp ==
  /\ pc = "erase" /\ pc' = "program"
  /\ erase_flag' = 1
  /\ app' = [k \in Place |-> IF k <= EraseCap THEN "erased" ELSE app[k]]
  /\ UNCHANGED <<flag, cfg, reason, poc, dat256, time, line, modem, bounds>>

\* Only an erased pack can be programmed; a failure leaves junk behind.
Program(old, data, ok) ==
  IF old # "erased" THEN old ELSE IF ok THEN data ELSE "junk"

\* Wrong variant: the pack is counted without the comparison.
ProgramPack_NoCompare ==
  /\ pc = "program" /\ pc' = "drain"
  /\ \E ok \in BOOLEAN :
       /\ ~ok => faults < MaxFault
       /\ faults' = IF ok THEN faults ELSE faults + 1
       /\ app' = [app EXCEPT ![cnt + 1] = Program(@, dat256, ok)]
  /\ cnt' = cnt + 1
  /\ dat256' = "none"
  /\ UNCHANGED <<flag, cfg, reason, status, down_status, sum, server_soft_ver,
                 erase_flag, time, line, modem, boots>>

\* What is read back is sure to be what was to be written.  Of two packs in a
\* wrong place, the one there and the one to be written, it is not known.
SameData ==
  /\ app'[cnt + 1] = dat256
  /\ ~(app[cnt + 1] = "other" /\ dat256 = "other")

\* Flash_Write, Flash_Read_for_download and the comparison that counts it.
ProgramPack ==
  /\ pc = "program" /\ pc' = "drain"
  /\ \E ok \in BOOLEAN :
       /\ ~ok => faults < MaxFault
       /\ faults' = IF ok THEN faults ELSE faults + 1
       /\ app' = [app EXCEPT ![cnt + 1] = Program(@, dat256, ok)]
  /\ \/ app'[cnt + 1] = dat256 /\ cnt' = cnt + 1
     \/ ~SameData /\ cnt' = cnt
  /\ dat256' = "none"
  /\ UNCHANGED <<flag, cfg, reason, status, down_status, sum, server_soft_ver,
                 erase_flag, time, line, modem, boots>>

-----------------------------------------------------------------------------
(* download_code_bin: the checks that leave the loop.                      *)

Leave(why) ==
  /\ pc = "check" /\ pc' = "flagErase"
  /\ reason' = why
  /\ UNCHANGED <<flash, poc, dat256, erase_flag, time, line, modem, bounds>>

LeaveSame    == status = "VER_SAME" /\ Leave("same")
LeaveSuccess == status = "DWONLOAD_SUCCESS" /\ Leave("success")
LeaveTimeout ==
  /\ status \notin {"VER_SAME", "DWONLOAD_SUCCESS", "VER_UPGRADE"}
  /\ time = "late"
  /\ Leave("timeout")

Stay ==
  /\ pc = "check" /\ pc' = "switch"
  /\ status \notin {"VER_SAME", "DWONLOAD_SUCCESS"}
  /\ time = "late" => status = "VER_UPGRADE"
  /\ UNCHANGED <<flash, reason, poc, dat256, erase_flag, time, line, modem, bounds>>

\* Flash_Updata of the flag: the page is erased, then programmed.
FlagErase ==
  /\ pc = "flagErase" /\ pc' = "flagWrite"
  /\ flag' = "erased"
  /\ UNCHANGED <<app, cfg, reason, poc, dat256, erase_flag, time, line, modem, bounds>>

FlagWrite ==
  /\ pc = "flagWrite"
  /\ pc' = IF reason = "success" THEN "cfgErase" ELSE "app"
  /\ flag' = "clear"
  /\ UNCHANGED <<app, cfg, reason, poc, dat256, erase_flag, time, line, modem, bounds>>

\* device_config_save_flash of the version the server offered.
CfgErase ==
  /\ pc = "cfgErase" /\ pc' = "cfgWrite"
  /\ cfg' = NoCfg
  /\ UNCHANGED <<flag, app, reason, poc, dat256, erase_flag, time, line, modem, bounds>>

CfgWrite ==
  /\ pc = "cfgWrite" /\ pc' = "app"
  /\ cfg' = [ver |-> server_soft_ver, order |-> "memory"]
  /\ UNCHANGED <<flag, app, reason, poc, dat256, erase_flag, time, line, modem, bounds>>

-----------------------------------------------------------------------------
(* The clock, the supply and the application, which is external.           *)

Clock ==
  /\ pc \notin {"boot", "app"} /\ time = "early"
  /\ time' = "late"
  /\ UNCHANGED <<flash, pc, reason, poc, dat256, erase_flag, line, modem, bounds>>

\* What a power cut leaves of the flash operation under way.
Torn(a) ==
  \/ /\ pc # "erase" /\ pc # "program" /\ a = app
  \/ /\ pc = "erase"
     /\ \E j \in 0 .. EraseCap :
          a = [k \in Place |-> IF k <= j THEN "erased" ELSE app[k]]
  \/ /\ pc = "program"
     /\ \/ a = app
        \/ app[cnt + 1] = "erased" /\ a = [app EXCEPT ![cnt + 1] = "junk"]

PowerCycle ==
  /\ pc # "boot" /\ boots < MaxBoot
  /\ Torn(app')
  /\ pc' = "boot"
  /\ boots' = boots + 1
  /\ RamStartsUp
  /\ UNCHANGED <<flag, cfg, garbled, faults>>

\* The image's places hold one whole application.
Whole(a) == \E c \in {"old", "new"} : \A k \in Pack : a[k] = c

\* A whole application may ask for another upgrade and restart the board.
AppAsksForUpgrade ==
  /\ pc = "app" /\ boots < MaxBoot
  /\ Whole(app)
  /\ flag' = "set"
  /\ pc' = "boot"
  /\ boots' = boots + 1
  /\ RamStartsUp
  /\ UNCHANGED <<app, cfg, garbled, faults>>

Receive ==
  \/ RecvOK \/ RecvLogin \/ RecvVersion \/ RecvDownloading
  \/ RecvDownloaded \/ RecvPack

Loop ==
  \/ Switch \/ DrainDone \/ EraseApp \/ ProgramPack
  \/ LeaveSame \/ LeaveSuccess \/ LeaveTimeout \/ Stay
  \/ FlagErase \/ FlagWrite \/ CfgErase \/ CfgWrite

Next ==
  \/ Boot \/ Loop \/ Receive
  \/ Clock \/ PowerCycle \/ AppAsksForUpgrade

Spec == Init /\ [][Next]_vars

\* The loop runs and the clock ticks; the resend timer of the packs runs out
\* again and again; a pack asked for again and again arrives some time as it was
\* sent; and passes that find no message waiting, the normal case on a 115200
\* baud line, do not stay away from the passes that declared success.
Fairness ==
  /\ WF_vars(Boot) /\ WF_vars(Loop) /\ WF_vars(Clock)
  /\ SF_vars(Switch /\ SendPackRequest) /\ SF_vars(RecvPack /\ dat256' = "new")
  /\ SF_vars(DrainDone /\ status = "DWONLOAD_SUCCESS")

FairSpec == Spec /\ Fairness

-----------------------------------------------------------------------------
(* Properties.                                                             *)

\* Every variable has its type. Unless a count was garbled no pack past the
\* last is asked for, and unless a number was none is counted (poc_task).
TypeOK ==
  /\ flag \in {"set", "erased", "clear"}
  /\ app \in [Place -> Content]
  /\ cfg \in {NoCfg} \cup [ver : Version, order : Order]
  /\ pc \in Where
  /\ reason \in {"none", "same", "success", "timeout"}
  /\ status \in Status
  /\ down_status \in {0, 1}
  /\ cnt \in 0 .. (IF "number" \in garbled THEN MaxSum ELSE N)
  /\ sum \in IF "count" \in garbled THEN 0 .. MaxSum ELSE {0, N}
  /\ server_soft_ver \in {"none"} \cup Version
  /\ dat256 \in {"none", "new", "other"}
  /\ erase_flag \in {0, 1}
  /\ time \in {"early", "late"}
  /\ asked \in SUBSET {"ver", "dl"}
  /\ askedPack \in 0 .. (IF "count" \in garbled THEN MaxSum ELSE N)
  /\ verdict \in {"none", "ignored", "same", "other"}
  /\ garbled \in SUBSET Garbles
  /\ boots \in 0 .. MaxBoot
  /\ faults \in 0 .. MaxFault

Installed == \A k \in Pack : app[k] = "new"

\* The packs counted so far are in flash, in order and verified, however packs
\* were lost, repeated, delayed, badly programmed or garbled in their data, and
\* whatever count and version arrived (poc_uart_msg_deal: number, CRC, erase
\* once, read back).  It ends where the number of a pack is garbled into the
\* next one, for the CRC does not cover it.
CountedPacksAreInFlash ==
  pc # "boot" /\ "number" \notin garbled
  => \A k \in Pack : k <= cnt => app[k] = "new"

\* The boot loader reports success and clears the flag for it only with the
\* whole image in place, unless a count or a number was garbled; with the
\* server's version on record the image is in place and stays, unless one of
\* these or the version offered was.
SuccessMeansInstalled ==
  /\ /\ pc \in {"flagErase", "flagWrite", "cfgErase", "cfgWrite"}
     /\ reason = "success"
     /\ garbled \subseteq {"version"}
     => Installed
  /\ cfg # NoCfg /\ cfg.ver = ServerVer /\ garbled = {} => Installed

\* Same version, the upgrade ends (poc.c:184): a version message that offers
\* the very version of the record finds it the same.
SameVersionIsRecognised ==
  /\ pc = "drain" /\ verdict # "none"
  /\ cfg # NoCfg /\ cfg.ver = ServerVer
  => verdict = "same"

\* The flag that brings the board back to the upgrade after a power cut goes
\* away only with a whole application, or when the five minutes gave up, or
\* when something garbled was believed: a count or a number before a success,
\* any of the three before the same version (download_code_bin).
FlagCoversTornApp ==
  [][flag = "set" /\ flag' # "set"
     => \/ Whole(app')
        \/ reason = "timeout"
        \/ reason = "success" /\ ~(garbled \subseteq {"version"})
        \/ reason = "same" /\ garbled # {}]_vars

\* Every power-on ends with the application started: the upgrade ends by
\* success, by finding the same version or by the five minutes, whatever version
\* and pack numbers are garbled. It needs a sound flash, an image within the
\* erased area and a count as it was sent: a pack programmed wrongly, and one the
\* server does not have, is asked for for ever, since VER_UPGRADE has no time-out
\* and nothing erases a page again (poc.c:205-241, main.c:284).
HandsOver == [](faults = 0 /\ "count" \notin garbled) => []<>(pc = "app")

=============================================================================
