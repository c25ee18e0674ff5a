-------------------------- MODULE ConfigStoreProofs --------------------------
(***************************************************************************)
(* Proofs about ConfigStore, for any commands and any number of edits.     *)
(*                                                                         *)
(* That nothing torn is published is not inductive: what Replace renames   *)
(* must be whole before it is proxy.json.  As long as only commands with    *)
(* the lock have written (OneWriter), whoever writes has the temporary     *)
(* file to itself, so that what it has filled is still whole when it is    *)
(* renamed; and the temporary name never names proxy.json itself (Names),  *)
(* so that a writer that dies halfway has spoilt no file a reader may      *)
(* open.                                                                   *)
(***************************************************************************)
EXTENDS ConfigStore, TLAPS

\* With or without locks: the two names never name one file, and a command
\* that has not begun to write has not created a file either.
Names ==
  /\ tmp # main
  /\ \A c \in Commands :
       cmd[c].pc \in {"new", "loaded", "locked"} => main # c /\ tmp # c

\* Whole texts and locks: the one writer has the temporary file to itself, and what it
\* has filled is whole.
OneWriter ==
  /\ \A c \in Commands :
       cmd[c].pc \in {"locked", "writing", "written"} <=> holder = c
  /\ \A c \in Commands :
       IF cmd[c].pc = "writing" THEN tmp \in Inodes /\ cmd[c].open = tmp
                                ELSE cmd[c].open = None
  /\ \A c \in Commands :
       cmd[c].pc = "written" => tmp \in Inodes /\ inode[tmp].state = "whole"

Whole == Disk.state # "torn"

LInv == StoreTypeOK /\ Names /\ (Meddled \/ (OneWriter /\ Whole))

-----------------------------------------------------------------------------
(* Types and names                                                         *)

LEMMA InodeNames ==
  /\ Origin \in Inodes /\ None \notin Inodes
  /\ Commands \subseteq Inodes /\ Origin \notin Commands
  /\ Free \notin Commands
BY StoreAssumption DEF Inodes, Origin, None, Free

LEMMA StoreInitTypes == StoreInit => StoreTypeOK
BY StoreAssumption, InodeNames
   DEF StoreInit, StoreTypeOK, Text, CommandState

LEMMA GoneTypes ==
  ASSUME StoreTypeOK, NEW c \in Commands, Gone(c)
  PROVE  /\ cmd' \in [Commands -> CommandState]
         /\ holder' \in Commands \cup {Free}
BY DEF StoreTypeOK, Gone, CommandState

LEMMA CommandTypes ==
  ASSUME StoreTypeOK, NEW c \in Commands, CommandStep(c) \/ Crash(c)
  PROVE  StoreTypeOK'
<1>a. cmd[c] \in CommandState /\ now + 1 \in Nat
  BY DEF StoreTypeOK
<1>1. CASE Load(c)
  <2>1. CASE Readable(Disk)
    <3>1. Disk.has \in SUBSET Commands
      BY DEF StoreTypeOK, Disk, Text
    <3>2. cmd' = [cmd EXCEPT ![c] = [@ EXCEPT !.pc = "loaded",
                                              !.copy = Disk.has]]
      BY <1>1, <2>1 DEF Load
    <3>3. [cmd[c] EXCEPT !.pc = "loaded", !.copy = Disk.has] \in CommandState
      BY <1>a, <3>1 DEF CommandState
    <3>4. cmd' \in [Commands -> CommandState]
      BY <3>2, <3>3 DEF StoreTypeOK
    <3> QED
      BY <1>1, <2>1, <3>4 DEF Load, StoreTypeOK
  <2>2. CASE ~ Readable(Disk)
    BY <1>1, <2>2, GoneTypes DEF Load, StoreTypeOK
  <2> QED
    BY <2>1, <2>2
<1>2. CASE Enter(c)
  BY <1>2 DEF Enter, StoreTypeOK, CommandState
<1>3. CASE TimeOut(c) \/ ReplaceFails(c) \/ Crash(c)
  BY <1>3, GoneTypes DEF TimeOut, ReplaceFails, Crash, StoreTypeOK
<1>4. CASE OpenTmp(c)
  <2> DEFINE i == IF tmp = None THEN c ELSE tmp
  <2>1. i \in Inodes
    BY InodeNames DEF StoreTypeOK
  <2>2. [state |-> "torn", has |-> {}, time |-> now + 1] \in Text
    BY <1>a DEF Text
  <2>3. /\ inode' \in [Inodes -> Text]
        /\ now' \in Nat
    BY <1>4, <2>1, <2>2 DEF OpenTmp, StoreTypeOK
  <2>4. [cmd[c] EXCEPT !.pc = "writing", !.open = i] \in CommandState
    BY <1>a, <2>1 DEF CommandState
  <2>5. cmd' \in [Commands -> CommandState]
    BY <1>4, <2>4 DEF OpenTmp, StoreTypeOK
  <2> QED
    BY <1>4, <2>1, <2>3, <2>5 DEF OpenTmp, StoreTypeOK
<1>5. CASE Fill(c)
  <2>1. PICK state \in {"whole", "torn"} :
          inode' = [inode EXCEPT ![cmd[c].open] =
                      [state |-> state, has |-> cmd[c].copy \cup {c},
                       time |-> now + 1]]
    BY <1>5 DEF Fill
  <2>2. [state |-> state, has |-> cmd[c].copy \cup {c}, time |-> now + 1]
          \in Text
    BY <1>a DEF Text, CommandState
  <2>3. inode' \in [Inodes -> Text] /\ now' \in Nat
    BY <1>5, <1>a, <2>1, <2>2 DEF Fill, StoreTypeOK
  <2>4. [cmd[c] EXCEPT !.pc = "written", !.open = None] \in CommandState
    BY <1>a DEF CommandState
  <2>5. cmd' \in [Commands -> CommandState]
    BY <1>5, <2>4 DEF Fill, StoreTypeOK
  <2> QED
    BY <1>5, <2>3, <2>5 DEF Fill, StoreTypeOK
<1>6. CASE Replace(c)
  BY <1>6, GoneTypes DEF Replace, StoreTypeOK
<1> QED
  BY <1>1, <1>2, <1>3, <1>4, <1>5, <1>6 DEF CommandStep

LEMMA EditTypes == StoreTypeOK /\ HandEdit => StoreTypeOK'
<1> SUFFICES ASSUME StoreTypeOK, HandEdit PROVE StoreTypeOK'
  OBVIOUS
<1>1. PICK state \in {"whole", "garbled"} :
        inode' = [inode EXCEPT ![main] =
                    [@ EXCEPT !.state = state, !.time = now + 1]]
  BY DEF HandEdit
<1>2. inode[main] \in Text /\ now + 1 \in Nat
  BY DEF StoreTypeOK
<1>3. [inode[main] EXCEPT !.state = state, !.time = now + 1] \in Text
  BY <1>2 DEF Text
<1>4. inode' \in [Inodes -> Text]
  BY <1>1, <1>3 DEF StoreTypeOK
<1> QED
  BY <1>2, <1>4, StoreAssumption DEF HandEdit, StoreTypeOK

\* What an action does to the command that takes it, and to the others.
LEMMA Moves ==
  ASSUME StoreTypeOK, NEW c \in Commands, CommandStep(c) \/ Crash(c)
  PROVE  /\ \A d \in Commands \ {c} : cmd'[d] = cmd[d]
         /\ Load(c) /\ Readable(Disk) =>
              cmd'[c].pc = "loaded" /\ cmd'[c].open = cmd[c].open
         /\ Enter(c) =>
              cmd'[c].pc = "locked" /\ cmd'[c].open = cmd[c].open
         /\ OpenTmp(c) =>
              cmd'[c].pc = "writing" /\ cmd'[c].open = tmp'
         /\ Fill(c) =>
              cmd'[c].pc = "written" /\ cmd'[c].open = None
         /\ Gone(c) =>
              cmd'[c].pc = "gone" /\ cmd'[c].open = None
<1>1. cmd[c] \in CommandState /\ cmd \in [Commands -> CommandState]
  BY DEF StoreTypeOK
<1>2. \A d \in Commands \ {c} : cmd'[d] = cmd[d]
  BY <1>1 DEF CommandStep, Load, Enter, TimeOut, OpenTmp, Fill, Replace,
              ReplaceFails, Crash, Gone
<1>3. ASSUME Load(c), Readable(Disk)
      PROVE  cmd'[c].pc = "loaded" /\ cmd'[c].open = cmd[c].open
  <2>1. cmd'[c] = [cmd[c] EXCEPT !.pc = "loaded", !.copy = Disk.has]
    BY <1>1, <1>3 DEF Load
  <2> QED
    BY <1>1, <2>1 DEF CommandState
<1>4. ASSUME Enter(c)
      PROVE  cmd'[c].pc = "locked" /\ cmd'[c].open = cmd[c].open
  <2>1. cmd'[c] = [cmd[c] EXCEPT !.pc = "locked"]
    BY <1>1, <1>4 DEF Enter
  <2> QED
    BY <1>1, <2>1 DEF CommandState
<1>5. ASSUME OpenTmp(c)
      PROVE  cmd'[c].pc = "writing" /\ cmd'[c].open = tmp'
  <2>1. cmd'[c] = [cmd[c] EXCEPT !.pc = "writing", !.open = tmp']
    BY <1>1, <1>5 DEF OpenTmp
  <2> QED
    BY <1>1, <2>1 DEF CommandState
<1>6. ASSUME Fill(c)
      PROVE  cmd'[c].pc = "written" /\ cmd'[c].open = None
  <2>1. cmd'[c] = [cmd[c] EXCEPT !.pc = "written", !.open = None]
    BY <1>1, <1>6 DEF Fill
  <2> QED
    BY <1>1, <2>1 DEF CommandState
<1>7. ASSUME Gone(c)
      PROVE  cmd'[c].pc = "gone" /\ cmd'[c].open = None
  BY <1>1, <1>7 DEF Gone
<1> QED
  BY <1>2, <1>3, <1>4, <1>5, <1>6, <1>7

LEMMA StepStoreTypes == StoreTypeOK /\ [StoreNext]_storeVars => StoreTypeOK'
BY CommandTypes, EditTypes DEF StoreNext, storeVars, StoreTypeOK

LEMMA InitNames == StoreInit => Names
BY InodeNames DEF StoreInit, Names

LEMMA StepNames ==
  StoreTypeOK /\ Names /\ [StoreNext]_storeVars => Names'
<1> SUFFICES ASSUME StoreTypeOK, Names, [StoreNext]_storeVars PROVE Names'
  OBVIOUS
<1>1. CASE UNCHANGED storeVars \/ HandEdit
  BY <1>1 DEF storeVars, HandEdit, Names
<1>2. ASSUME NEW c \in Commands, CommandStep(c) \/ Crash(c) PROVE Names'
  <2>1. CASE OpenTmp(c)
    <3>1. main # c /\ tmp # c
      BY <2>1 DEF OpenTmp, MayWrite, Names
    <3>2. /\ main' = main /\ tmp' \in {tmp, c} /\ tmp' # None
          /\ tmp' # main
      BY <2>1, <3>1, InodeNames DEF OpenTmp, Names
    <3>3. cmd'[c].pc = "writing" /\ \A d \in Commands \ {c} : cmd'[d] = cmd[d]
      BY <1>2, <2>1, Moves
    <3> QED
      BY <3>1, <3>2, <3>3 DEF Names
  <2>2. CASE Replace(c)
    <3>1. /\ main' = tmp /\ tmp' = None /\ main' # None
          /\ cmd'[c].pc = "gone"
          /\ \A d \in Commands \ {c} : cmd'[d] = cmd[d]
      BY <1>2, <2>2, Moves, InodeNames DEF Replace
    <3> QED
      BY <3>1, InodeNames DEF Names
  <2>3. CASE Load(c) \/ Enter(c) \/ TimeOut(c) \/ Fill(c) \/ ReplaceFails(c)
             \/ Crash(c)
    <3>1. main' = main /\ tmp' = tmp
      BY <2>3 DEF Load, Enter, TimeOut, Fill, ReplaceFails, Crash
    <3>2. /\ cmd'[c].pc \in {"loaded", "locked"} =>
               cmd[c].pc \in {"new", "loaded"}
          /\ cmd'[c].pc # "new"
          /\ \A d \in Commands \ {c} : cmd'[d] = cmd[d]
      BY <1>2, <2>3, Moves
         DEF Load, Enter, TimeOut, Fill, ReplaceFails, Crash
    <3> QED
      BY <3>1, <3>2 DEF Names
  <2> QED
    BY <1>2, <2>1, <2>2, <2>3 DEF CommandStep
<1> QED
  BY <1>1, <1>2 DEF StoreNext

-----------------------------------------------------------------------------
(* While only commands with the lock have written                          *)

LEMMA InitLInv == StoreInit => LInv
<1> SUFFICES ASSUME StoreInit PROVE LInv
  OBVIOUS
<1>1. OneWriter /\ Whole
  BY InodeNames DEF StoreInit, OneWriter, Whole, Disk
<1> QED
  BY <1>1, StoreInitTypes, InitNames DEF LInv

\* Who is gone has neither the lock nor a file; everybody else is as before.
LEMMA GoneWriter ==
  ASSUME StoreTypeOK, OneWriter, NEW c \in Commands, Gone(c),
         UNCHANGED <<inode, tmp>>
  PROVE  OneWriter'
<1>1. /\ cmd'[c].pc = "gone" /\ cmd'[c].open = None
      /\ \A d \in Commands \ {c} : cmd'[d] = cmd[d]
      /\ holder' # c
      /\ \A d \in Commands \ {c} : holder' = d <=> holder = d
  BY InodeNames DEF Gone, StoreTypeOK, CommandState
<1> QED
  BY <1>1 DEF OneWriter

LEMMA StepOneWriter ==
  ASSUME StoreTypeOK, Names, OneWriter, Whole, ~ Meddled',
         NEW c \in Commands, CommandStep(c) \/ Crash(c)
  PROVE  OneWriter' /\ Whole'
<1>1. CASE Load(c)
  <2>1. /\ inode' = inode /\ tmp' = tmp /\ main' = main
    BY <1>1 DEF Load
  <2>2. CASE Readable(Disk)
    <3>1. /\ cmd'[c].pc = "loaded" /\ cmd'[c].open = cmd[c].open
          /\ \A d \in Commands \ {c} : cmd'[d] = cmd[d]
          /\ holder' = holder
      BY <1>1, <2>2, Moves DEF Load
    <3>2. cmd[c].pc = "new"
      BY <1>1 DEF Load
    <3> QED
      BY <2>1, <3>1, <3>2 DEF OneWriter, Whole, Disk
  <2>3. CASE ~ Readable(Disk)
    BY <1>1, <2>1, <2>3, GoneWriter DEF Load, Whole, Disk
  <2> QED
    BY <2>2, <2>3
<1>2. CASE Enter(c)
  <2>1. /\ inode' = inode /\ tmp' = tmp /\ main' = main
        /\ cmd[c].pc = "loaded"
        /\ cmd'[c].pc = "locked" /\ cmd'[c].open = cmd[c].open
        /\ \A d \in Commands \ {c} : cmd'[d] = cmd[d]
        /\ holder = Free /\ holder' = c
    BY <1>2, Moves DEF Enter
  <2> QED
    BY <2>1, InodeNames DEF OneWriter, Whole, Disk
<1>3. CASE TimeOut(c) \/ ReplaceFails(c) \/ Crash(c)
  BY <1>3, GoneWriter
     DEF TimeOut, ReplaceFails, Crash, Whole, Disk
<1>4. CASE OpenTmp(c)
  <2>1. holder = c
    BY <1>4, Moves DEF OpenTmp, MayWrite, OneWriter, Meddled
  <2>2. /\ tmp' \in Inodes /\ tmp' # main /\ main' = main
        /\ \A i \in Inodes \ {tmp'} : inode'[i] = inode[i]
        /\ holder' = holder
        /\ cmd'[c].pc = "writing" /\ cmd'[c].open = tmp'
        /\ \A d \in Commands \ {c} : cmd'[d] = cmd[d]
    BY <1>4, Moves, InodeNames
       DEF OpenTmp, MayWrite, Names, StoreTypeOK
  <2>3. \A d \in Commands \ {c} :
          cmd[d].pc \notin {"locked", "writing", "written"}
    BY <2>1 DEF OneWriter
  <2>4. OneWriter'
    BY <2>1, <2>2, <2>3 DEF OneWriter
  <2> QED
    BY <2>2, <2>4 DEF Whole, Disk, StoreTypeOK
<1>5. CASE Fill(c)
  <2>1. /\ holder = c /\ tmp \in Inodes /\ cmd[c].open = tmp
        /\ \A d \in Commands \ {c} : cmd[d].open = None /\ holder # d
    BY <1>5 DEF Fill, OneWriter
  <2>2. ~ Shared(c)
    BY <2>1, InodeNames DEF Shared
  <2>3. inode' = [inode EXCEPT ![tmp] =
                    [state |-> "whole", has |-> cmd[c].copy \cup {c},
                     time |-> now + 1]]
    BY <1>5, <2>1, <2>2 DEF Fill
  <2>4. /\ inode'[tmp].state = "whole"
        /\ \A i \in Inodes \ {tmp} : inode'[i] = inode[i]
        /\ tmp' = tmp /\ main' = main /\ holder' = holder
        /\ cmd'[c].pc = "written" /\ cmd'[c].open = None
        /\ \A d \in Commands \ {c} : cmd'[d] = cmd[d]
    <3>1. inode \in [Inodes -> Text] /\ tmp \in Inodes
      BY <2>1 DEF StoreTypeOK
    <3>2. /\ inode'[tmp].state = "whole"
          /\ \A i \in Inodes \ {tmp} : inode'[i] = inode[i]
      BY <2>3, <3>1
    <3>3. tmp' = tmp /\ main' = main /\ holder' = holder
      BY <1>5 DEF Fill
    <3>4. /\ cmd'[c].pc = "written" /\ cmd'[c].open = None
          /\ \A d \in Commands \ {c} : cmd'[d] = cmd[d]
      BY <1>5, Moves
    <3> QED
      BY <3>2, <3>3, <3>4
  <2>5. \A d \in Commands \ {c} :
          cmd[d].pc \notin {"locked", "writing", "written"}
    BY <2>1 DEF OneWriter
  <2>6. OneWriter'
    BY <2>1, <2>4, <2>5 DEF OneWriter
  <2> QED
    BY <2>1, <2>4, <2>6 DEF Whole, Disk, Names, StoreTypeOK
<1>6. CASE Replace(c)
  <2>1. /\ holder = c /\ inode[tmp].state = "whole"
        /\ main' = tmp /\ inode' = inode
        /\ cmd'[c].pc = "gone" /\ cmd'[c].open = None
        /\ \A d \in Commands \ {c} : cmd'[d] = cmd[d]
        /\ holder' = Free
    BY <1>6, Moves DEF Replace, Gone, OneWriter
  <2>2. \A d \in Commands \ {c} :
          cmd[d].pc \notin {"locked", "writing", "written"}
    BY <2>1 DEF OneWriter
  <2>3. OneWriter'
    BY <2>1, <2>2, InodeNames DEF OneWriter
  <2> QED
    BY <2>1, <2>3 DEF Whole, Disk
<1> QED
  BY <1>1, <1>2, <1>3, <1>4, <1>5, <1>6 DEF CommandStep

\* Who has written without the lock has done so for good.
LEMMA Meddling ==
  ASSUME StoreTypeOK, [StoreNext]_storeVars, Meddled
  PROVE  Meddled'
<1>1. PICK m \in Unlocked : cmd[m].pc \in {"writing", "written", "gone"}
  BY DEF Meddled
<1>2. m \in Commands
  BY StoreAssumption
<1>3. cmd'[m].pc \in {"writing", "written", "gone"}
  <2>1. CASE UNCHANGED storeVars \/ HandEdit
    BY <1>1, <2>1 DEF storeVars, HandEdit
  <2>2. ASSUME NEW c \in Commands, CommandStep(c) \/ Crash(c)
        PROVE  cmd'[m].pc \in {"writing", "written", "gone"}
    <3>1. CASE c # m
      BY <1>1, <1>2, <2>2, <3>1
         DEF CommandStep, Load, Enter, TimeOut, OpenTmp, Fill, Replace,
             ReplaceFails, Crash, Gone, StoreTypeOK
    <3>2. CASE c = m
      <4>1. CASE Load(c) \/ Enter(c) \/ TimeOut(c) \/ OpenTmp(c)
        BY <1>1, <3>2, <4>1, StoreAssumption
           DEF Load, Enter, TimeOut, OpenTmp, MayWrite
      <4>2. CASE Fill(c)
        BY <2>2, <3>2, <4>2, Moves
      <4>3. CASE Replace(c) \/ ReplaceFails(c) \/ Crash(c)
        BY <2>2, <3>2, <4>3, Moves DEF Replace, ReplaceFails, Crash
      <4> QED
        BY <2>2, <4>1, <4>2, <4>3 DEF CommandStep
    <3> QED
      BY <3>1, <3>2
  <2> QED
    BY <2>1, <2>2 DEF StoreNext
<1> QED
  BY <1>1, <1>3 DEF Meddled

LEMMA EditOneWriter ==
  ASSUME StoreTypeOK, Names, OneWriter, Whole, HandEdit
  PROVE  OneWriter' /\ Whole'
<1>1. /\ main' = main /\ tmp' = tmp /\ holder' = holder /\ cmd' = cmd
      /\ \A i \in Inodes \ {main} : inode'[i] = inode[i]
      /\ inode'[main].state \in {"whole", "garbled"}
  BY DEF HandEdit, StoreTypeOK, Text
<1> QED
  BY <1>1 DEF OneWriter, Whole, Disk, Names

LEMMA StepLInv == LInv /\ [StoreNext]_storeVars => LInv'
<1> SUFFICES ASSUME LInv, [StoreNext]_storeVars PROVE LInv'
  OBVIOUS
<1>1. StoreTypeOK' /\ Names'
  BY StepStoreTypes, StepNames DEF LInv
<1>2. SUFFICES ASSUME ~ Meddled' PROVE OneWriter' /\ Whole'
  BY <1>1 DEF LInv
<1>3. StoreTypeOK /\ Names /\ OneWriter /\ Whole
  BY <1>2, Meddling DEF LInv
<1>4. CASE UNCHANGED storeVars
  BY <1>3, <1>4 DEF OneWriter, Whole, Disk, storeVars
<1>5. CASE HandEdit
  BY <1>3, <1>5, EditOneWriter
<1>6. ASSUME NEW c \in Commands, CommandStep(c) \/ Crash(c)
      PROVE  OneWriter' /\ Whole'
  BY <1>2, <1>3, <1>6, StepOneWriter
<1> QED
  BY <1>4, <1>5, <1>6 DEF StoreNext

\* As long as every command that has saved took config_lock, a reader of
\* proxy.json never finds half a text, wherever writers die
\* (config.py:327-339, server.py:226-227).
THEOREM WholeTexts == StoreSpec => []NeverTorn
<1>1. LInv => NeverTorn
  BY DEF LInv, NeverTorn, Whole
<1> QED
  BY InitLInv, StepLInv, <1>1, PTL DEF StoreSpec

\* The files keep their shape and the two names name two files, locks or
\* not.
THEOREM StoreNames == StoreSpec => [](StoreTypeOK /\ Names)
<1>1. StoreInit => StoreTypeOK /\ Names
  BY StoreInitTypes, InitNames
<1>2. StoreTypeOK /\ Names /\ [StoreNext]_storeVars
        => (StoreTypeOK /\ Names)'
  BY StepStoreTypes, StepNames
<1> QED
  BY <1>1, <1>2, PTL DEF StoreSpec
=============================================================================
