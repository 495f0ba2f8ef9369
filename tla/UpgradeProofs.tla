--------------------------- MODULE UpgradeProofs ---------------------------
(***************************************************************************)
(* Proofs about the boot loader's upgrade (Upgrade), for images of any     *)
(* size, any number of power cuts and flash faults, and whatever the line  *)
(* garbles in the fields nothing protects: the history garbled says in     *)
(* which of them something wrong was believed, and each part of the        *)
(* invariant names those it cannot do without.                             *)
(***************************************************************************)
EXTENDS Upgrade, TLAPS

\* The record names the server's version.
RecordIsServers == cfg # NoCfg /\ cfg.ver = ServerVer

\* The loop of download_code_bin and the handlers it calls are running.
InLoop == pc \in {"switch", "drain", "erase", "program", "check"}

\* The application is erased only before the first pack is counted, and a
\* pack is programmed only after it.  The data in hand are those of the next
\* pack, unless its number was garbled.
EraseComesFirst ==
  /\ InLoop /\ erase_flag = 0 => cnt = 0
  /\ pc = "erase" => erase_flag = 0
  /\ pc = "program" => erase_flag = 1
  /\ pc \in {"erase", "program"} =>
       /\ cnt < MaxSum
       /\ \/ dat256 = "new" /\ cnt < N
          \/ dat256 \in {"new", "other"} /\ "number" \in garbled

\* Without a version from the server no image is asked for.
VersionComesFirst ==
  server_soft_ver = "none" =>
    /\ "dl" \notin asked
    /\ status \notin {"VER_DWONLOAD", "VER_UPGRADE", "DWONLOAD_SUCCESS"}
    /\ reason # "success"

\* An upgrade status goes with the image's size and success with all its packs,
\* unless a count was garbled; the same version goes with the record.
StatusMatchesCount ==
  /\ "count" \notin garbled =>
       /\ InLoop /\ status = "VER_UPGRADE" => sum = N
       /\ InLoop /\ status = "DWONLOAD_SUCCESS" => cnt >= N
       /\ pc \in {"flagErase", "flagWrite", "cfgErase", "cfgWrite"} /\ reason = "success"
            => cnt >= N
  /\ pc \in {"cfgErase", "cfgWrite"} => reason = "success"
  /\ InLoop => cfg # NoCfg
  /\ InLoop /\ status = "VER_SAME" => RecordIsServers \/ "version" \in garbled
  /\ pc = "flagWrite" => flag = "erased"
  /\ pc = "flagErase" =>
       /\ reason # "none"
       /\ reason = "same" => RecordIsServers \/ "version" \in garbled

\* With the server's version on record no image is ever asked for, unless
\* something garbled was believed.
RecordKeepsImage ==
  RecordIsServers /\ garbled = {} =>
    /\ Installed
    /\ pc \notin {"erase", "program"}
    /\ InLoop => /\ "dl" \notin asked /\ askedPack = 0
                 /\ status \notin {"VER_DWONLOAD", "VER_UPGRADE", "DWONLOAD_SUCCESS"}

\* The inductive invariant.
UpgradeInv ==
  /\ TypeOK
  /\ EraseComesFirst
  /\ VersionComesFirst
  /\ CountedPacksAreInFlash
  /\ StatusMatchesCount
  /\ RecordKeepsImage
-----------------------------------------------------------------------------
\* Every step of the upgrade keeps the types of its variables: no status, pc
\* or counter leaves its range (download_code_bin, poc_task).
LEMMA TypeStep ==
  ASSUME TypeOK, EraseComesFirst, VersionComesFirst, StatusMatchesCount, [Next]_vars
  PROVE  TypeOK'
  <1> USE UpgradeAssumption
      DEF TypeOK, EraseComesFirst, VersionComesFirst, StatusMatchesCount, InLoop,
          Pack, Place, Content, Where, Status, Version, Order,
          vars, flash, poc, line, modem, bounds
  <1>1. CASE Boot
    <2>1. CASE flag = "set" /\ cfg = NoCfg
      BY <1>1, <2>1 DEF Boot, RamStartsUp
    <2>2. CASE ~(flag = "set" /\ cfg = NoCfg)
      <3>1. cfg' = cfg
        BY <1>1, <2>2 DEF Boot
      <3>2. QED
        BY <1>1, <3>1 DEF Boot, RamStartsUp
    <2>3. QED
      BY <2>1, <2>2
  <1>2. CASE Switch
    <2>1. CASE SendVersionRequest \/ SendDownloadRequest
      <3>1. \E req \in {"ver", "dl"} : Ask(req)
        BY <2>1 DEF SendVersionRequest, SendDownloadRequest
      <3>2. asked' \in SUBSET {"ver", "dl"}
        BY <3>1 DEF Ask
      <3>3. QED
        BY <1>2, <3>1, <3>2 DEF Switch, Ask
    <2>2. CASE SendPackRequest
      BY <1>2, <2>2 DEF Switch, SendPackRequest
    <2>3. CASE AllPacksCounted
      BY <1>2, <2>3 DEF Switch, AllPacksCounted
    <2>4. CASE SendNothing
      BY <1>2, <2>4 DEF Switch, SendNothing
    <2>5. QED
      BY <1>2, <2>1, <2>2, <2>3, <2>4 DEF Switch, Send
  <1>3. CASE DrainDone
    BY <1>3 DEF DrainDone, Handle
  <1>4. CASE EraseApp
    BY <1>4 DEF EraseApp
  <1>5. CASE ProgramPack
    <2>1. cnt' \in 0 .. (IF "number" \in garbled THEN MaxSum ELSE N)
      BY <1>5 DEF ProgramPack
    <2>2. app' \in [Place -> Content] /\ dat256' = "none"
      BY <1>5 DEF ProgramPack, Program
    <2>3. faults' \in 0 .. MaxFault /\ pc' = "drain"
      BY <1>5 DEF ProgramPack
    <2>4. UNCHANGED <<flag, cfg, reason, status, down_status, sum, server_soft_ver,
                      erase_flag, time, verdict, garbled, modem, boots>>
      BY <1>5 DEF ProgramPack
    <2>5. QED
      BY <2>1, <2>2, <2>3, <2>4
  <1>6. CASE LeaveSame
    BY <1>6 DEF LeaveSame, Leave
  <1>7. CASE LeaveSuccess
    BY <1>7 DEF LeaveSuccess, Leave
  <1>8. CASE LeaveTimeout
    BY <1>8 DEF LeaveTimeout, Leave
  <1>9. CASE Stay
    BY <1>9 DEF Stay
  <1>10. CASE FlagErase
    BY <1>10 DEF FlagErase
  <1>11. CASE FlagWrite
    BY <1>11 DEF FlagWrite
  <1>12. CASE CfgErase
    BY <1>12 DEF CfgErase
  <1>13. CASE CfgWrite
    BY <1>13 DEF CfgWrite
  <1>14. CASE RecvOK
    BY <1>14 DEF RecvOK, Handle
  <1>15. CASE RecvLogin
    BY <1>15 DEF RecvLogin, Handle
  <1>16. CASE RecvVersion
    <2>1. verdict' \in {"ignored", "same", "other"}
      BY <1>16 DEF RecvVersion
    <2>2. status' \in Status /\ server_soft_ver' \in {"none"} \cup Version
      BY <1>16, <2>1 DEF RecvVersion
    <2>3. garbled' \in SUBSET Garbles
      BY <1>16 DEF RecvVersion, Believe
    <2>4. UNCHANGED <<flash, reason, erase_flag, time, modem, bounds, pc,
                      down_status, cnt, sum, dat256>>
      BY <1>16 DEF RecvVersion, Handle
    <2>5. garbled \subseteq garbled' /\ garbled' \subseteq garbled \cup {"version"}
      BY <1>16 DEF RecvVersion, Believe
    <2>6. QED
      BY <2>1, <2>2, <2>3, <2>4, <2>5
  <1>17. CASE RecvDownloading
    BY <1>17 DEF RecvDownloading, Handle
  <1>18. CASE RecvDownloaded
    BY <1>18 DEF RecvDownloaded, Handle, Believe
  <1>19. CASE RecvPack
    BY <1>19 DEF RecvPack, Handle, Believe
  <1>20. CASE Clock
    BY <1>20 DEF Clock
  <1>21. CASE PowerCycle
    BY <1>21 DEF PowerCycle, Torn, RamStartsUp
  <1>22. CASE AppAsksForUpgrade
    BY <1>22 DEF AppAsksForUpgrade, Whole, RamStartsUp
  <1>23. CASE UNCHANGED vars
    BY <1>23
  <1>24. QED
    BY <1>1, <1>2, <1>3, <1>4, <1>5, <1>6, <1>7, <1>8, <1>9, <1>10, <1>11, <1>12, <1>13, <1>14, <1>15, <1>16, <1>17, <1>18, <1>19, <1>20, <1>21, <1>22, <1>23 DEF Next, Loop, Receive

\* The erase flag and the count keep each other's order (poc_uart_msg_deal).
LEMMA EraseStep ==
  ASSUME TypeOK, EraseComesFirst, StatusMatchesCount, TypeOK', [Next]_vars
  PROVE  EraseComesFirst'
  <1> USE UpgradeAssumption
      DEF vars, flash, poc, line, modem, bounds, Pack, Place, Content, Where, Status, Version, Order,
          TypeOK, InLoop, EraseComesFirst, StatusMatchesCount, RecordIsServers
  <1>1. CASE Boot
    BY <1>1 DEF Boot, RamStartsUp
  <1>2. CASE Switch
    BY <1>2 DEF Switch, Send, SendVersionRequest, SendDownloadRequest, SendPackRequest,
        AllPacksCounted, SendNothing, Ask
  <1>3. CASE DrainDone
    BY <1>3 DEF DrainDone, Handle
  <1>4. CASE EraseApp
    BY <1>4 DEF EraseApp
  <1>5. CASE ProgramPack
    BY <1>5 DEF ProgramPack, Program, SameData
  <1>6. CASE LeaveSame
    BY <1>6 DEF LeaveSame, Leave
  <1>7. CASE LeaveSuccess
    BY <1>7 DEF LeaveSuccess, Leave
  <1>8. CASE LeaveTimeout
    BY <1>8 DEF LeaveTimeout, Leave
  <1>9. CASE Stay
    BY <1>9 DEF Stay
  <1>10. CASE FlagErase
    BY <1>10 DEF FlagErase
  <1>11. CASE FlagWrite
    BY <1>11 DEF FlagWrite
  <1>12. CASE CfgErase
    BY <1>12 DEF CfgErase
  <1>13. CASE CfgWrite
    BY <1>13 DEF CfgWrite
  <1>14. CASE RecvOK
    BY <1>14 DEF RecvOK, Handle
  <1>15. CASE RecvLogin
    BY <1>15 DEF RecvLogin, Handle
  <1>16. CASE RecvVersion
    BY <1>16 DEF RecvVersion, Handle, Believe, device_cfg, Flash_Read
  <1>17. CASE RecvDownloading
    BY <1>17 DEF RecvDownloading, Handle
  <1>18. CASE RecvDownloaded
    BY <1>18 DEF RecvDownloaded, Handle, Believe
  <1>19. CASE RecvPack
    BY <1>19 DEF RecvPack, Handle, Believe
  <1>20. CASE Clock
    BY <1>20 DEF Clock
  <1>21. CASE PowerCycle
    BY <1>21 DEF PowerCycle, Torn, RamStartsUp
  <1>22. CASE AppAsksForUpgrade
    BY <1>22 DEF AppAsksForUpgrade, Whole, RamStartsUp
  <1>23. CASE UNCHANGED vars
    BY <1>23
  <1>24. QED
    BY <1>1, <1>2, <1>3, <1>4, <1>5, <1>6, <1>7, <1>8, <1>9, <1>10,
       <1>11, <1>12, <1>13, <1>14, <1>15, <1>16, <1>17, <1>18, <1>19,
       <1>20, <1>21, <1>22, <1>23 DEF Next, Loop, Receive

\* The version is there before the image is asked for (poc_task).
LEMMA VersionStep ==
  ASSUME TypeOK, VersionComesFirst, TypeOK', [Next]_vars
  PROVE  VersionComesFirst'
  <1> USE UpgradeAssumption
      DEF vars, flash, poc, line, modem, bounds, Pack, Place, Content, Where, Status, Version, Order,
          TypeOK, VersionComesFirst
  <1>1. CASE Boot
    BY <1>1 DEF Boot, RamStartsUp
  <1>2. CASE Switch
    BY <1>2 DEF Switch, Send, SendVersionRequest, SendDownloadRequest, SendPackRequest,
        AllPacksCounted, SendNothing, Ask
  <1>3. CASE DrainDone
    BY <1>3 DEF DrainDone, Handle
  <1>4. CASE EraseApp
    BY <1>4 DEF EraseApp
  <1>5. CASE ProgramPack
    BY <1>5 DEF ProgramPack, Program, SameData
  <1>6. CASE LeaveSame
    BY <1>6 DEF LeaveSame, Leave
  <1>7. CASE LeaveSuccess
    BY <1>7 DEF LeaveSuccess, Leave
  <1>8. CASE LeaveTimeout
    BY <1>8 DEF LeaveTimeout, Leave
  <1>9. CASE Stay
    BY <1>9 DEF Stay
  <1>10. CASE FlagErase
    BY <1>10 DEF FlagErase
  <1>11. CASE FlagWrite
    BY <1>11 DEF FlagWrite
  <1>12. CASE CfgErase
    BY <1>12 DEF CfgErase
  <1>13. CASE CfgWrite
    BY <1>13 DEF CfgWrite
  <1>14. CASE RecvOK
    BY <1>14 DEF RecvOK, Handle
  <1>15. CASE RecvLogin
    BY <1>15 DEF RecvLogin, Handle
  <1>16. CASE RecvVersion
    BY <1>16 DEF RecvVersion, Handle, Believe, device_cfg, Flash_Read
  <1>17. CASE RecvDownloading
    BY <1>17 DEF RecvDownloading, Handle
  <1>18. CASE RecvDownloaded
    BY <1>18 DEF RecvDownloaded, Handle, Believe
  <1>19. CASE RecvPack
    BY <1>19 DEF RecvPack, Handle, Believe
  <1>20. CASE Clock
    BY <1>20 DEF Clock
  <1>21. CASE PowerCycle
    BY <1>21 DEF PowerCycle, Torn, RamStartsUp
  <1>22. CASE AppAsksForUpgrade
    BY <1>22 DEF AppAsksForUpgrade, Whole, RamStartsUp
  <1>23. CASE UNCHANGED vars
    BY <1>23
  <1>24. QED
    BY <1>1, <1>2, <1>3, <1>4, <1>5, <1>6, <1>7, <1>8, <1>9, <1>10,
       <1>11, <1>12, <1>13, <1>14, <1>15, <1>16, <1>17, <1>18, <1>19,
       <1>20, <1>21, <1>22, <1>23 DEF Next, Loop, Receive

\* What was counted under its own number stays in flash.
LEMMA CountedStep ==
  ASSUME TypeOK, TypeOK', EraseComesFirst, CountedPacksAreInFlash, [Next]_vars
  PROVE  CountedPacksAreInFlash'
  <1> USE UpgradeAssumption
      DEF vars, flash, poc, line, modem, bounds, Pack, Place, Content, Where, Status, Version, Order,
          TypeOK, InLoop, EraseComesFirst, CountedPacksAreInFlash
  <1>1. CASE Boot
    BY <1>1 DEF Boot, RamStartsUp
  <1>2. CASE Switch
    BY <1>2 DEF Switch, Send, SendVersionRequest, SendDownloadRequest, SendPackRequest,
        AllPacksCounted, SendNothing, Ask
  <1>3. CASE DrainDone
    BY <1>3 DEF DrainDone, Handle
  <1>4. CASE EraseApp
    BY <1>4 DEF EraseApp
  <1>5. CASE ProgramPack
    BY <1>5 DEF ProgramPack, Program, SameData
  <1>6. CASE LeaveSame
    BY <1>6 DEF LeaveSame, Leave
  <1>7. CASE LeaveSuccess
    BY <1>7 DEF LeaveSuccess, Leave
  <1>8. CASE LeaveTimeout
    BY <1>8 DEF LeaveTimeout, Leave
  <1>9. CASE Stay
    BY <1>9 DEF Stay
  <1>10. CASE FlagErase
    BY <1>10 DEF FlagErase
  <1>11. CASE FlagWrite
    BY <1>11 DEF FlagWrite
  <1>12. CASE CfgErase
    BY <1>12 DEF CfgErase
  <1>13. CASE CfgWrite
    BY <1>13 DEF CfgWrite
  <1>14. CASE RecvOK
    BY <1>14 DEF RecvOK, Handle
  <1>15. CASE RecvLogin
    BY <1>15 DEF RecvLogin, Handle
  <1>16. CASE RecvVersion
    BY <1>16 DEF RecvVersion, Handle, Believe, device_cfg, Flash_Read
  <1>17. CASE RecvDownloading
    BY <1>17 DEF RecvDownloading, Handle
  <1>18. CASE RecvDownloaded
    BY <1>18 DEF RecvDownloaded, Handle, Believe
  <1>19. CASE RecvPack
    BY <1>19 DEF RecvPack, Handle, Believe
  <1>20. CASE Clock
    BY <1>20 DEF Clock
  <1>21. CASE PowerCycle
    BY <1>21 DEF PowerCycle, Torn, RamStartsUp
  <1>22. CASE AppAsksForUpgrade
    BY <1>22 DEF AppAsksForUpgrade, Whole, RamStartsUp
  <1>23. CASE UNCHANGED vars
    BY <1>23
  <1>24. QED
    BY <1>1, <1>2, <1>3, <1>4, <1>5, <1>6, <1>7, <1>8, <1>9, <1>10,
       <1>11, <1>12, <1>13, <1>14, <1>15, <1>16, <1>17, <1>18, <1>19,
       <1>20, <1>21, <1>22, <1>23 DEF Next, Loop, Receive

\* Success is only declared with every pack counted that the count names.
LEMMA StatusStep ==
  ASSUME TypeOK, TypeOK', EraseComesFirst, StatusMatchesCount, [Next]_vars
  PROVE  StatusMatchesCount'
  <1> USE UpgradeAssumption
      DEF vars, flash, poc, line, modem, bounds, Pack, Place, Content, Where, Status, Version, Order,
          TypeOK, InLoop, EraseComesFirst, StatusMatchesCount, RecordIsServers
  <1>1. CASE Boot
    BY <1>1 DEF Boot, RamStartsUp
  <1>2. CASE Switch
    BY <1>2 DEF Switch, Send, SendVersionRequest, SendDownloadRequest, SendPackRequest,
        AllPacksCounted, SendNothing, Ask
  <1>3. CASE DrainDone
    BY <1>3 DEF DrainDone, Handle
  <1>4. CASE EraseApp
    BY <1>4 DEF EraseApp
  <1>5. CASE ProgramPack
    BY <1>5 DEF ProgramPack, Program, SameData
  <1>6. CASE LeaveSame
    BY <1>6 DEF LeaveSame, Leave
  <1>7. CASE LeaveSuccess
    BY <1>7 DEF LeaveSuccess, Leave
  <1>8. CASE LeaveTimeout
    BY <1>8 DEF LeaveTimeout, Leave
  <1>9. CASE Stay
    BY <1>9 DEF Stay
  <1>10. CASE FlagErase
    BY <1>10 DEF FlagErase
  <1>11. CASE FlagWrite
    BY <1>11 DEF FlagWrite
  <1>12. CASE CfgErase
    BY <1>12 DEF CfgErase
  <1>13. CASE CfgWrite
    BY <1>13 DEF CfgWrite
  <1>14. CASE RecvOK
    BY <1>14 DEF RecvOK, Handle
  <1>15. CASE RecvLogin
    BY <1>15 DEF RecvLogin, Handle
  <1>16. CASE RecvVersion
    BY <1>16 DEF RecvVersion, Handle, Believe, device_cfg, Flash_Read
  <1>17. CASE RecvDownloading
    BY <1>17 DEF RecvDownloading, Handle
  <1>18. CASE RecvDownloaded
    BY <1>18 DEF RecvDownloaded, Handle, Believe
  <1>19. CASE RecvPack
    BY <1>19 DEF RecvPack, Handle, Believe
  <1>20. CASE Clock
    BY <1>20 DEF Clock
  <1>21. CASE PowerCycle
    BY <1>21 DEF PowerCycle, Torn, RamStartsUp
  <1>22. CASE AppAsksForUpgrade
    BY <1>22 DEF AppAsksForUpgrade, Whole, RamStartsUp
  <1>23. CASE UNCHANGED vars
    BY <1>23
  <1>24. QED
    BY <1>1, <1>2, <1>3, <1>4, <1>5, <1>6, <1>7, <1>8, <1>9, <1>10,
       <1>11, <1>12, <1>13, <1>14, <1>15, <1>16, <1>17, <1>18, <1>19,
       <1>20, <1>21, <1>22, <1>23 DEF Next, Loop, Receive

\* The server's version goes on record with the whole image, which then stays.
LEMMA RecordStep ==
  ASSUME TypeOK, EraseComesFirst, CountedPacksAreInFlash,
         StatusMatchesCount, RecordKeepsImage, TypeOK', [Next]_vars
  PROVE  RecordKeepsImage'
  <1> USE UpgradeAssumption
      DEF vars, flash, poc, line, modem, bounds, Pack, Place, Content, Where, Status, Version, Order,
          TypeOK, InLoop, EraseComesFirst, StatusMatchesCount,
          CountedPacksAreInFlash, RecordKeepsImage, RecordIsServers, Installed
  <1>1. CASE Boot
    BY <1>1 DEF Boot, RamStartsUp
  <1>2. CASE Switch
    BY <1>2 DEF Switch, Send, SendVersionRequest, SendDownloadRequest, SendPackRequest,
        AllPacksCounted, SendNothing, Ask
  <1>3. CASE DrainDone
    BY <1>3 DEF DrainDone, Handle
  <1>4. CASE EraseApp
    BY <1>4 DEF EraseApp
  <1>5. CASE ProgramPack
    BY <1>5 DEF ProgramPack, Program, SameData
  <1>6. CASE LeaveSame
    BY <1>6 DEF LeaveSame, Leave
  <1>7. CASE LeaveSuccess
    BY <1>7 DEF LeaveSuccess, Leave
  <1>8. CASE LeaveTimeout
    BY <1>8 DEF LeaveTimeout, Leave
  <1>9. CASE Stay
    BY <1>9 DEF Stay
  <1>10. CASE FlagErase
    BY <1>10 DEF FlagErase
  <1>11. CASE FlagWrite
    BY <1>11 DEF FlagWrite
  <1>12. CASE CfgErase
    BY <1>12 DEF CfgErase
  <1>13. CASE CfgWrite
    BY <1>13 DEF CfgWrite
  <1>14. CASE RecvOK
    BY <1>14 DEF RecvOK, Handle
  <1>15. CASE RecvLogin
    BY <1>15 DEF RecvLogin, Handle
  <1>16. CASE RecvVersion
    BY <1>16 DEF RecvVersion, Handle, Believe, device_cfg, Flash_Read
  <1>17. CASE RecvDownloading
    BY <1>17 DEF RecvDownloading, Handle
  <1>18. CASE RecvDownloaded
    BY <1>18 DEF RecvDownloaded, Handle, Believe
  <1>19. CASE RecvPack
    BY <1>19 DEF RecvPack, Handle, Believe
  <1>20. CASE Clock
    BY <1>20 DEF Clock
  <1>21. CASE PowerCycle
    BY <1>21 DEF PowerCycle, Torn, RamStartsUp
  <1>22. CASE AppAsksForUpgrade
    BY <1>22 DEF AppAsksForUpgrade, Whole, RamStartsUp
  <1>23. CASE UNCHANGED vars
    BY <1>23
  <1>24. QED
    BY <1>1, <1>2, <1>3, <1>4, <1>5, <1>6, <1>7, <1>8, <1>9, <1>10,
       <1>11, <1>12, <1>13, <1>14, <1>15, <1>16, <1>17, <1>18, <1>19,
       <1>20, <1>21, <1>22, <1>23 DEF Next, Loop, Receive

-----------------------------------------------------------------------------
\* The inductive invariant holds in every reachable state.
THEOREM UpgradeInvariance == Spec => []UpgradeInv
  <1>1. Init => UpgradeInv
    BY UpgradeAssumption
    DEF Init, UpgradeInv, TypeOK, EraseComesFirst, VersionComesFirst,
        CountedPacksAreInFlash, StatusMatchesCount, RecordKeepsImage,
        RecordIsServers, Installed, InLoop, Pack, Place, Content, Where, Status, Version, Order
  <1>2. UpgradeInv /\ [Next]_vars => UpgradeInv'
    BY TypeStep, EraseStep, VersionStep, CountedStep, StatusStep, RecordStep DEF UpgradeInv
  <1>3. QED
    BY <1>1, <1>2, PTL DEF Spec

\* For every image, whatever is lost, repeated or garbled but the number of a
\* pack, and whenever the supply fails: what down_pack_cnt counts is in flash
\* (poc_uart_msg_deal).
THEOREM CountedInFlash == Spec => []CountedPacksAreInFlash
  <1>1. UpgradeInv => CountedPacksAreInFlash
    BY DEF UpgradeInv
  <1>2. QED
    BY <1>1, UpgradeInvariance, PTL

\* The upgrade's variables keep their types (download_code_bin, poc_task).
THEOREM UpgradeType == Spec => []TypeOK
  <1>1. UpgradeInv => TypeOK
    BY DEF UpgradeInv
  <1>2. QED
    BY <1>1, UpgradeInvariance, PTL

\* The boot loader leaves with success only over a whole image unless a count
\* or a number was garbled, and has the server's version on record only over
\* one unless anything was (poc_task, download_code_bin).
THEOREM SuccessIsInstalled == Spec => []SuccessMeansInstalled
  <1>1. UpgradeInv => SuccessMeansInstalled
    <2> SUFFICES ASSUME UpgradeInv PROVE SuccessMeansInstalled
      OBVIOUS
    <2>1. ASSUME pc # "boot", cnt >= N, "number" \notin garbled
          PROVE  Installed
      BY <2>1, UpgradeAssumption
      DEF UpgradeInv, CountedPacksAreInFlash, TypeOK, Pack, Installed
    <2>2. QED
      BY <2>1, "count" # "version", "number" # "version" DEF UpgradeInv, SuccessMeansInstalled, StatusMatchesCount,
                  RecordKeepsImage, RecordIsServers
  <1>2. QED
    BY <1>1, UpgradeInvariance, PTL

\* The boot flag is given up only over a whole application, after the five
\* minutes, or after something garbled was believed that the reason for giving
\* it up rests on (download_code_bin).
THEOREM FlagCovers == Spec => FlagCoversTornApp
  <1>1. ASSUME UpgradeInv, [Next]_vars, flag = "set", flag' # "set"
        PROVE  \/ Whole(app')
               \/ reason = "timeout"
               \/ reason = "success" /\ ~(garbled \subseteq {"version"})
               \/ reason = "same" /\ garbled # {}
    <2>1. FlagErase
      <3>1. CASE Boot \/ Receive
        BY <1>1, <3>1 DEF Boot, Receive, Handle, flash, RecvOK, RecvLogin,
          RecvVersion, RecvDownloading, RecvDownloaded, RecvPack
      <3>2. CASE Switch \/ DrainDone \/ LeaveSame \/ LeaveSuccess \/ LeaveTimeout \/ Stay
        BY <1>1, <3>2 DEF Switch, DrainDone, Handle, LeaveSame, LeaveSuccess,
          LeaveTimeout, Leave, Stay, flash
      <3>3. CASE EraseApp \/ ProgramPack \/ CfgErase \/ CfgWrite
        BY <1>1, <3>3 DEF EraseApp, ProgramPack, CfgErase, CfgWrite
      <3>4. CASE FlagWrite
        BY <1>1, <3>4 DEF FlagWrite, UpgradeInv, StatusMatchesCount
      <3>5. CASE Clock \/ PowerCycle \/ AppAsksForUpgrade
        BY <1>1, <3>5 DEF Clock, PowerCycle, AppAsksForUpgrade, flash
      <3>6. CASE UNCHANGED vars
        BY <1>1, <3>6 DEF vars, flash
      <3>7. QED
        BY <1>1, <3>1, <3>2, <3>3, <3>4, <3>5, <3>6 DEF Next, Loop
    <2>2. reason \in {"same", "success", "timeout"}
      BY <1>1, <2>1 DEF UpgradeInv, TypeOK, StatusMatchesCount, FlagErase
    <2>3. app' = app
      BY <2>1 DEF FlagErase
    <2>4. \/ Installed
          \/ reason = "timeout"
          \/ reason = "success" /\ ~(garbled \subseteq {"version"})
          \/ reason = "same" /\ garbled # {}
      <3>1. CASE reason = "same"
        BY <1>1, <2>1, <3>1
        DEF UpgradeInv, StatusMatchesCount, RecordKeepsImage, FlagErase
      <3>2. CASE reason = "success"
        BY <1>1, <2>1, <3>2, UpgradeAssumption
        DEF UpgradeInv, StatusMatchesCount, CountedPacksAreInFlash, FlagErase,
            TypeOK, Pack, Installed
      <3>3. QED
        BY <2>2, <3>1, <3>2
    <2>5. QED
      BY <2>3, <2>4 DEF Whole, Installed
  <1>2. QED
    BY <1>1, UpgradeInvariance, PTL DEF Spec, FlagCoversTornApp
=============================================================================
