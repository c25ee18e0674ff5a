----------------------------- MODULE ConfigStore -----------------------------
(***************************************************************************)
(* proxy.json and the commands that write it.  A command is one process:   *)
(* it loads the configuration (load_config, in main()), works on its copy  *)
(* for as long as it takes (a probe: thirty seconds) and saves the copy    *)
(* whole (save_config): a temporary file of a fixed name is opened,        *)
(* filled, and renamed over proxy.json.                                    *)
(*                                                                         *)
(* Most commands save inside config_lock (_locked_save, models_set,        *)
(* run_probe, reconcile); start, stop and the onboarding dialogue do not.  *)
(*                                                                         *)
(* Two writers may have the same temporary file open, so files are         *)
(* modelled as inodes, named after the command that created them.          *)
(***************************************************************************)
EXTENDS Naturals

CONSTANTS
  Commands,   \* processes that save the configuration, each once
  Unlocked,   \* those that save without config_lock
  MaxEdits    \* bound: how often the user edits proxy.json by hand

Origin == "origin"   \* the inode proxy.json is before any command runs
None   == "none"     \* no temporary file, no open file
Free   == "free"     \* nobody has config_lock

ASSUME StoreAssumption ==
  /\ Unlocked \subseteq Commands
  /\ {Origin, None, Free} \cap Commands = {}
  /\ MaxEdits \in Nat

Inodes == Commands \cup {Origin}

\* What a file may hold: a configuration with the changes of the commands in
\* "has", the incomplete output of save_config, or what an editor left that
\* is no JSON.  "time" is its modification time, one tick per write.
Text == [state : {"whole", "torn", "garbled"}, has : SUBSET Commands,
         time : Nat]

VARIABLES
  inode,   \* inode[i]: what the file i holds
  main,    \* the inode proxy.json names
  tmp,     \* the inode proxy.json.tmp names, or None
  now,     \* the clock
  holder,  \* the command inside config_lock
  cmd,     \* cmd[c]: where c is, its copy and the inode it has open
  edits,   \* number of edits by hand
  said     \* history: the commands that reported success

storeVars == <<inode, main, tmp, now, holder, cmd, edits, said>>

Disk == inode[main]

Readable(text) == text.state = "whole"

StoreInit ==
  /\ inode = [i \in Inodes |->
                [state |-> IF i = Origin THEN "whole" ELSE "torn",
                 has |-> {}, time |-> IF i = Origin THEN 1 ELSE 0]]
  /\ main = Origin
  /\ tmp = None
  /\ now = 1
  /\ holder = Free
  /\ cmd = [c \in Commands |-> [pc |-> "new", copy |-> {}, open |-> None]]
  /\ edits = 0
  /\ said = {}

\* c is at its save_config.
MayWrite(c) ==
  \/ cmd[c].pc = "locked"
  \/ cmd[c].pc = "loaded" /\ c \in Unlocked

\* c has somebody else's writes under its own in the file it has open.
Shared(c) == \E d \in Commands \ {c} : cmd[d].open = cmd[c].open

\* c ends; closing its descriptors gives up config_lock.
Gone(c) ==
  /\ cmd' = [cmd EXCEPT ![c] = [pc |-> "gone", copy |-> {}, open |-> None]]
  /\ holder' = IF holder = c THEN Free ELSE holder

-----------------------------------------------------------------------------
(* A faulty variant, which a mistake in the code would give.  Nothing uses *)
(* it.                                                                     *)

\* proxy.json is written in place.
OpenInPlace(c) ==
  /\ MayWrite(c)
  /\ UNCHANGED tmp
  /\ inode' = [inode EXCEPT ![main] =
                 [state |-> "torn", has |-> {}, time |-> now + 1]]
  /\ now' = now + 1
  /\ cmd' = [cmd EXCEPT ![c] = [@ EXCEPT !.pc = "writing", !.open = main]]
  /\ UNCHANGED <<main, holder, edits, said>>

-----------------------------------------------------------------------------
(* A command *)

\* load_config; a configuration that cannot be read ends the command.
Load(c) ==
  /\ cmd[c].pc = "new"
  /\ IF Readable(Disk)
     THEN /\ cmd' = [cmd EXCEPT ![c] = [@ EXCEPT !.pc = "loaded",
                                                 !.copy = Disk.has]]
          /\ UNCHANGED holder
     ELSE Gone(c)
  /\ UNCHANGED <<inode, main, tmp, now, edits, said>>

\* config_lock around the save.
Enter(c) ==
  /\ cmd[c].pc = "loaded" /\ c \notin Unlocked
  /\ holder = Free
  /\ holder' = c
  /\ cmd' = [cmd EXCEPT ![c].pc = "locked"]
  /\ UNCHANGED <<inode, main, tmp, now, edits, said>>

\* TimeoutError leaves the command without a save.
TimeOut(c) ==
  /\ cmd[c].pc = "loaded" /\ c \notin Unlocked
  /\ holder # Free
  /\ Gone(c)
  /\ UNCHANGED <<inode, main, tmp, now, edits, said>>

\* open(tmp, "w"): what the name has is truncated, or a new file made.
OpenTmp(c) ==
  LET i == IF tmp = None THEN c ELSE tmp
  IN  /\ MayWrite(c)
      /\ tmp' = i
      /\ inode' = [inode EXCEPT ![i] =
                     [state |-> "torn", has |-> {}, time |-> now + 1]]
      /\ now' = now + 1
      /\ cmd' = [cmd EXCEPT ![c] = [@ EXCEPT !.pc = "writing", !.open = i]]
      /\ UNCHANGED <<main, holder, edits, said>>

\* json.dump and close.  Two writers of one file may leave a mixture.
Fill(c) ==
  /\ cmd[c].pc = "writing"
  /\ \E state \in {"whole"} \cup (IF Shared(c) THEN {"torn"} ELSE {}) :
       inode' = [inode EXCEPT ![cmd[c].open] =
                   [state |-> state, has |-> cmd[c].copy \cup {c},
                    time |-> now + 1]]
  /\ now' = now + 1
  /\ cmd' = [cmd EXCEPT ![c] = [@ EXCEPT !.pc = "written", !.open = None]]
  /\ UNCHANGED <<main, tmp, holder, edits, said>>

\* os.replace, which publishes whatever the name has by now.
Replace(c) ==
  /\ cmd[c].pc = "written" /\ tmp # None
  /\ main' = tmp
  /\ tmp' = None
  /\ said' = said \cup {c}
  /\ Gone(c)
  /\ UNCHANGED <<inode, now, edits>>

\* FileNotFoundError: another command has renamed the file away.
ReplaceFails(c) ==
  /\ cmd[c].pc = "written" /\ tmp = None
  /\ Gone(c)
  /\ UNCHANGED <<inode, main, tmp, now, edits, said>>

\* c dies between any two steps.
Crash(c) ==
  /\ cmd[c].pc # "gone"
  /\ Gone(c)
  /\ UNCHANGED <<inode, main, tmp, now, edits, said>>

\* The user edits proxy.json, and may leave it broken.
HandEdit ==
  /\ edits < MaxEdits
  /\ \E state \in {"whole", "garbled"} :
       inode' = [inode EXCEPT ![main] =
                   [@ EXCEPT !.state = state, !.time = now + 1]]
  /\ now' = now + 1
  /\ edits' = edits + 1
  /\ UNCHANGED <<main, tmp, holder, cmd, said>>

CommandStep(c) ==
  \/ Load(c) \/ Enter(c) \/ TimeOut(c) \/ OpenTmp(c) \/ Fill(c)
  \/ Replace(c) \/ ReplaceFails(c)

StoreNext == HandEdit \/ \E c \in Commands : CommandStep(c) \/ Crash(c)

StoreSpec == StoreInit /\ [][StoreNext]_storeVars

-----------------------------------------------------------------------------
(* Properties *)

CommandState ==
  [pc : {"new", "loaded", "locked", "writing", "written", "gone"},
   copy : SUBSET Commands, open : Inodes \cup {None}]

StoreTypeOK ==
  /\ inode \in [Inodes -> Text]
  /\ main \in Inodes
  /\ tmp \in Inodes \cup {None}
  /\ now \in Nat
  /\ holder \in Commands \cup {Free}
  /\ cmd \in [Commands -> CommandState]
  /\ edits \in 0..MaxEdits
  /\ said \subseteq Commands

\* A command without the lock has begun to write (or is gone).
Meddled == \E c \in Unlocked : cmd[c].pc \in {"writing", "written", "gone"}

\* Whoever reads proxy.json reads a whole text: commands that save inside
\* the lock, and die anywhere, never publish half of one, as long as nobody
\* has saved without it (server.py:226-227: save_config is tmp+rename, a
\* half-written file is never read).
NeverTorn == ~ Meddled => Disk.state # "torn"

\* What a command reported as saved stays in the configuration, unless the
\* command that removes it was asked to (annotate.py:3: what the user has
\* set is never overwritten by an automatic annotation).
UserWordStands == \A c \in said : c \in Disk.has
=============================================================================
