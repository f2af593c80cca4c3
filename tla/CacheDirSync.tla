---------------------------- MODULE CacheDirSync ----------------------------
(* The directory of one cache volume and its two copies A (0) and B (1) on   *)
(* disk: the periodic CacheSync, the sync at shutdown, the choice between    *)
(* the copies at a restart, the rewrite that ends a recovery, the clearing   *)
(* of a volume, and crashes between any two writes.                          *)
(*                                                                           *)
(* What the directory contains is abstracted to the number of the snapshot   *)
(* a piece on disk was written from.  A copy is a header (piece 0), body     *)
(* pieces of SYNC_MAX_WRITE bytes and a footer (the last piece); the header  *)
(* and the footer are one disk block each and are written or not, a body     *)
(* piece may be left half written (Torn).  The scan of the data that follows *)
(* the choice is the subject of CacheRecovery; here it has its outcomes.     *)
EXTENDS Naturals

CONSTANTS NBody,       \* body pieces of a copy
          MaxSyncs,    \* bound on snapshots taken by CacheSync
          MaxCrashes,  \* bound on crashes
          MaxStops,    \* bound on shutdowns
          MaxErrors,   \* bound on failed writes
          MaxClears,   \* bound on clears that are asked for or follow a failed read
          MaxSkip      \* how far the serial of a document may be ahead

ASSUME DirConstants == /\ NBody \in Nat \ {0} /\ MaxSyncs \in Nat
                       /\ MaxCrashes \in Nat /\ MaxStops \in Nat
                       /\ MaxErrors \in Nat /\ MaxClears \in Nat /\ MaxSkip \in Nat

VARIABLES st,        \* the volume: its handler, or down / stopping / stopped / bad
          serial,    \* header->sync_serial (and the footer's) in memory
          dirty,     \* header->dirty
          agg,       \* the aggregation buffer: agg_buf_pos and is_io_in_progress
          waiting,   \* dir_sync_waiting
          inprog,    \* dir_sync_in_progress
          cs,        \* CacheSync: its trigger is set, its write is under way, or parked
          writepos,  \* CacheSync::writepos, in pieces
          buf,       \* CacheSync::buf
          raw,       \* the image the volume itself writes
          wpos,      \* the next piece of that image
          disk,      \* the two copies
          snaps,     \* how many snapshots were taken
          exposed,   \* what the copies promise is suspended
          used       \* how much of each bound is used

vars == <<st, serial, dirty, agg, waiting, inprog, cs, writepos, buf, raw, wpos,
          disk, snaps, exposed, used>>

Footer == NBody + 1
Pieces == 0..Footer
Copies == {0, 1}
None   == 2

Stamp == [id : Nat, serial : Nat]
Blank == [id |-> 0, serial |-> 0]     \* a disk that was never formatted
Torn  == Blank                        \* a body piece of no snapshot

States == {"down", "chosen", "scan", "rewrite", "clear", "up", "stopping", "stopped", "bad"}

TypeOK ==
  /\ st \in States
  /\ serial \in Nat
  /\ dirty \in BOOLEAN /\ waiting \in BOOLEAN /\ inprog \in BOOLEAN /\ exposed \in BOOLEAN
  /\ agg \in {"empty", "buffered", "writing"}
  /\ cs \in {"timer", "io", "parked"}
  /\ writepos \in 0..Footer + 1
  /\ buf \in Stamp /\ raw \in Stamp
  /\ wpos \in 0..Footer + 1
  /\ disk \in [Copies -> [Pieces -> Stamp]]
  /\ snaps \in Nat
  /\ used \in [crashes : 0..MaxCrashes, stops : 0..MaxStops, errors : 0..MaxErrors,
              clears : 0..MaxClears, syncs : 0..MaxSyncs]

-----------------------------------------------------------------------------
(* The copies                                                                *)

Matches(c) == disk[c][0].serial = disk[c][Footer].serial

\* Mutant of Choice: the newer header, whatever the footers say.
ChoiceNewest == IF disk[0][0].serial >= disk[1][0].serial THEN 0 ELSE 1

(* handle_header_read: A if its serials match and it is not older than a     *)
(* matching B, else B if its serials match.                                  *)
Choice ==
  IF Matches(0) /\ (disk[0][0].serial >= disk[1][0].serial \/ ~Matches(1)) THEN 0
  ELSE IF Matches(1) THEN 1 ELSE None

(* VOL_MAGIC in the header and in the footer.                                *)
Formatted(c) == disk[c][0].id # 0 /\ disk[c][Footer].id # 0

(* A copy all of whose pieces come from one snapshot.                        *)
Whole(c) == \A p \in Pieces : disk[c][p] = disk[c][0]

(* The snapshot that a restart would load.                                   *)
Loadable == IF Choice \in Copies /\ Whole(Choice) THEN disk[Choice][0].id ELSE 0

(* The copy that a directory with the serial n is written to.                *)
Target(n) == n % 2

Put(c, p, s) == disk' = [disk EXCEPT ![c][p] = s]

(* A write that does not complete may have reached the disk in part.         *)
PutPart(c, p) == UNCHANGED disk \/ (p \in 1..NBody /\ Put(c, p, Torn))

(* The copy to be overwritten already ends with the serial it is about to    *)
(* get: from the header's write on it matches, whatever is in between.       *)
StaleFooter(n) == disk[Target(n)][Footer].serial = n

Bound == [crashes |-> MaxCrashes, stops |-> MaxStops, errors |-> MaxErrors,
          clears |-> MaxClears, syncs |-> MaxSyncs]

Spend(what) == /\ used[what] < Bound[what]
               /\ used' = [used EXCEPT ![what] = @ + 1]

syncvars == <<cs, writepos, buf>>
aggvars  == <<agg, waiting>>

-----------------------------------------------------------------------------
(* The running volume                                                        *)

(* dir_insert, dir_overwrite and dir_delete_entry set the dirty bit.         *)
DirChange ==
  /\ st = "up" /\ ~dirty
  /\ dirty' = TRUE
  /\ UNCHANGED <<st, serial, agg, waiting, inprog, syncvars, raw, wpos, disk, snaps, exposed, used>>

(* aggWrite copies documents into the buffer and waits for more.             *)
AggCopy ==
  /\ st = "up" /\ agg = "empty"
  /\ agg' = "buffered"
  /\ UNCHANGED <<st, serial, dirty, waiting, inprog, syncvars, raw, wpos, disk, snaps, exposed, used>>

(* aggWrite finds the buffer full enough, or a directory sync waiting for it.*)
AggWrite ==
  /\ st = "up" /\ agg = "buffered"
  /\ agg' = "writing"
  /\ UNCHANGED <<st, serial, dirty, waiting, inprog, syncvars, raw, wpos, disk, snaps, exposed, used>>

(* mainEvent with writepos 0 and nothing in the way: the next serial, a copy *)
(* of the directory in buf, and the write of the header.                     *)
SyncBegin ==
  /\ dirty' = FALSE
  /\ serial' = serial + 1
  /\ snaps' = snaps + 1
  /\ buf' = [id |-> snaps + 1, serial |-> serial + 1]
  /\ inprog' = TRUE
  /\ cs' = "io"
  /\ writepos' = 1
  /\ exposed' = (exposed \/ StaleFooter(serial + 1))

\* Mutant of AggWriteDone: the sync goes on waiting if the buffer fills again.
AggWriteDoneQuiet ==
  /\ st = "up" /\ agg = "writing"
  /\ agg' \in {"empty", "buffered", "writing"}
  /\ \/ waiting /\ agg' = "empty" /\ waiting' = FALSE /\ SyncBegin
     \/ ~(waiting /\ agg' = "empty") /\ UNCHANGED <<waiting, dirty, serial, snaps, inprog, syncvars, exposed>>
  /\ UNCHANGED <<st, raw, wpos, disk, used>>

(* The buffer is on disk; a sync that waited for it begins before more       *)
(* documents are copied.                                                     *)
AggWriteDone ==
  /\ st = "up" /\ agg = "writing"
  /\ waiting' = FALSE
  /\ agg' \in {"empty", "buffered", "writing"}
  /\ \/ waiting /\ SyncBegin
     \/ ~waiting /\ UNCHANGED <<dirty, serial, snaps, inprog, syncvars, exposed>>
  /\ UNCHANGED <<st, raw, wpos, disk, used>>

-----------------------------------------------------------------------------
(* CacheSync::mainEvent.  A miss of the volume's lock and a directory that   *)
(* is not dirty only set the trigger again.                                  *)

SyncStart ==
  /\ st = "up" /\ cs = "timer" /\ writepos = 0 /\ dirty /\ agg = "empty"
  /\ Spend("syncs")
  /\ SyncBegin
  /\ UNCHANGED <<st, aggvars, raw, wpos, disk>>

(* Data is on its way to the disk: wait for aggWriteDone, with no trigger.   *)
SyncPark ==
  /\ st = "up" /\ cs = "timer" /\ writepos = 0 /\ dirty /\ agg # "empty"
  /\ Spend("syncs")
  /\ waiting' = TRUE
  /\ cs' = "parked"
  /\ agg' \in {agg, "writing"}
  /\ UNCHANGED <<st, serial, dirty, inprog, writepos, buf, raw, wpos, disk, snaps, exposed>>

(* The next body piece or the footer.                                        *)
SyncWrite ==
  /\ st = "up" /\ cs = "timer" /\ writepos \in 1..Footer
  /\ cs' = "io"
  /\ writepos' = writepos + 1
  /\ UNCHANGED <<st, serial, dirty, aggvars, inprog, buf, raw, wpos, disk, snaps, exposed, used>>

SyncFinish ==
  /\ st = "up" /\ cs = "timer" /\ writepos = Footer + 1
  /\ inprog' = FALSE
  /\ writepos' = 0
  /\ UNCHANGED <<st, serial, dirty, aggvars, cs, buf, raw, wpos, disk, snaps, exposed, used>>

(* The write under way reaches the disk, also after a shutdown has begun.    *)
SyncLand ==
  /\ st \in {"up", "stopping", "stopped"} /\ cs = "io"
  /\ Put(Target(serial), writepos - 1, buf)
  /\ cs' = "timer"
  /\ exposed' = (exposed /\ ~(st = "up" /\ writepos - 1 = Footer))
  /\ UNCHANGED <<st, serial, dirty, aggvars, inprog, writepos, buf, raw, wpos, snaps, used>>

(* It fails: the sync is given up, dir_sync_in_progress and the serial stay  *)
(* as they are.                                                              *)
SyncError ==
  /\ st \in {"up", "stopping", "stopped"} /\ cs = "io"
  /\ Spend("errors")
  /\ PutPart(Target(serial), writepos - 1)
  /\ cs' = "timer"
  /\ writepos' = 0
  /\ exposed' = TRUE
  /\ UNCHANGED <<st, serial, dirty, aggvars, inprog, buf, raw, wpos, snaps>>

-----------------------------------------------------------------------------
(* sync_cache_dir_on_shutdown takes the volume's lock for good, flushes the  *)
(* aggregation buffer and writes the whole directory with one pwrite.  It    *)
(* takes the next serial unless a periodic sync is under way.  If the footer *)
(* of that sync has landed and SyncFinish is still to come, the copy it      *)
(* writes in place is the newest complete one: nothing has failed, but there *)
(* is no good copy until it is done (exposed, by StaleFooter).               *)

Shutdown ==
  /\ st = "up"
  /\ Spend("stops")
  /\ \/ /\ ~dirty /\ ~inprog
        /\ st' = "stopped"
        /\ UNCHANGED <<serial, aggvars, raw, wpos, snaps, exposed>>
     \/ /\ dirty \/ inprog
        /\ agg # "empty"                  \* the flush fails
        /\ st' = "stopped"
        /\ UNCHANGED <<serial, aggvars, raw, wpos, snaps, exposed>>
     \/ /\ dirty \/ inprog
        /\ st' = "stopping"
        /\ agg' = "empty"
        /\ serial' = IF inprog THEN serial ELSE serial + 1
        /\ snaps' = snaps + 1
        /\ raw' = [id |-> snaps + 1, serial |-> serial']
        /\ wpos' = 0
        /\ exposed' = (exposed \/ cs = "io" \/ StaleFooter(serial'))
        /\ UNCHANGED waiting
  /\ UNCHANGED <<dirty, inprog, syncvars, disk>>

ShutdownLand ==
  /\ st = "stopping"
  /\ Put(Target(serial), wpos, raw)
  /\ wpos' = wpos + 1
  /\ st' = IF wpos = Footer THEN "stopped" ELSE st
  /\ UNCHANGED <<serial, dirty, aggvars, inprog, syncvars, raw, snaps, exposed, used>>

-----------------------------------------------------------------------------
(* Crash and restart                                                         *)

Forget ==
  /\ st' = "down"
  /\ serial' = 0
  /\ dirty' = FALSE /\ agg' = "empty" /\ waiting' = FALSE /\ inprog' = FALSE
  /\ cs' = "timer" /\ writepos' = 0 /\ wpos' = 0
  /\ buf' = Blank /\ raw' = Blank
  /\ UNCHANGED <<snaps, exposed>>

(* The process dies; a body piece that is being written may be half there.   *)
Crash ==
  /\ st \notin {"down", "stopped", "bad"}
  /\ Spend("crashes")
  /\ Forget
  /\ \/ UNCHANGED disk
     \/ cs = "io" /\ PutPart(Target(serial), writepos - 1)
     \/ st \in {"stopping", "rewrite"} /\ PutPart(Target(serial), wpos)
     \/ st = "clear" /\ PutPart(0, wpos)

(* The end of the process after a shutdown, or of one whose volume is bad.   *)
Exit ==
  /\ st \in {"stopped", "bad"}
  /\ Forget
  /\ UNCHANGED <<disk, used>>

(* clear_dir: an empty directory with serial 0.                              *)
ClearDir ==
  /\ st' = "clear"
  /\ serial' = 0
  /\ dirty' = FALSE
  /\ snaps' = snaps + 1
  /\ raw' = [id |-> snaps + 1, serial |-> 0]
  /\ wpos' = 0
  /\ exposed' = TRUE
  /\ UNCHANGED <<aggvars, inprog, syncvars, disk>>

HandleHeaderRead ==
  /\ st = "down"
  /\ \/ /\ Choice \in Copies
        /\ st' = "chosen"
        /\ UNCHANGED <<serial, dirty, aggvars, inprog, syncvars, raw, wpos, disk, snaps, exposed, used>>
     \/ Choice = None /\ ClearDir /\ UNCHANGED used
     \/ Spend("clears") /\ ClearDir       \* Vol::init with clear, or a failed read

HandleDirRead ==
  /\ st = "chosen"
  /\ \/ /\ Formatted(Choice)
        /\ st' = "scan"
        /\ serial' = disk[Choice][0].serial
        /\ UNCHANGED <<dirty, aggvars, inprog, syncvars, raw, wpos, disk, snaps, exposed, used>>
     \/ ~Formatted(Choice) /\ ClearDir /\ UNCHANGED used
     \/ Spend("clears") /\ ClearDir       \* a failed read

\* Mutant of NextSerial: the parity is not looked at.
NextSerialPlain(max) == max + 1

(* The serial of the rewritten directory: above that of every document seen  *)
(* and of the other parity, so that the copy just read is not overwritten.   *)
NextSerial(max) == IF (max + 1) % 2 = serial % 2 THEN max + 2 ELSE max + 1

(* handle_recover_from_data: nothing to do, clear, or clear the entries of   *)
(* the inconsistent region and write the directory.                          *)
HandleRecover ==
  /\ st = "scan"
  /\ \/ /\ st' = "up"
        /\ UNCHANGED <<serial, dirty, aggvars, inprog, syncvars, raw, wpos, disk, snaps, exposed, used>>
     \/ serial # 0 /\ Spend("clears") /\ ClearDir
     \/ /\ serial # 0
        /\ \E max \in serial..serial + MaxSkip :
             /\ serial' = NextSerial(max)
             /\ raw' = [id |-> snaps + 1, serial |-> NextSerial(max)]
             /\ exposed' = (exposed \/ StaleFooter(NextSerial(max)))
        /\ st' = "rewrite"
        /\ snaps' = snaps + 1
        /\ wpos' = 0
        /\ dirty' \in BOOLEAN
        /\ UNCHANGED <<aggvars, inprog, syncvars, disk, used>>

(* The header, the body and the footer, one after the other.                 *)
RewriteLand ==
  /\ st = "rewrite"
  /\ Put(Target(serial), wpos, raw)
  /\ wpos' = wpos + 1
  /\ st' = IF wpos = Footer THEN "up" ELSE st
  /\ exposed' = (exposed /\ wpos # Footer)
  /\ UNCHANGED <<serial, dirty, aggvars, inprog, syncvars, raw, snaps, used>>

(* A failed write ends the chain, and handle_recover_write_dir does not look *)
(* at the result.                                                            *)
RewriteError ==
  /\ st = "rewrite"
  /\ Spend("errors")
  /\ st' = "up"
  /\ exposed' = TRUE
  /\ PutPart(Target(serial), wpos)
  /\ UNCHANGED <<serial, dirty, aggvars, inprog, syncvars, raw, wpos, snaps>>

(* handle_dir_clear: all of A, then the header of B.                         *)
ClearLand ==
  /\ st = "clear"
  /\ IF wpos <= Footer THEN Put(0, wpos, raw) ELSE Put(1, 0, raw)
  /\ \/ /\ wpos <= Footer
        /\ wpos' = wpos + 1
        /\ UNCHANGED <<st, exposed>>
     \/ /\ wpos = Footer + 1
        /\ st' = "up"
        /\ exposed' = FALSE
        /\ UNCHANGED wpos
  /\ UNCHANGED <<serial, dirty, aggvars, inprog, syncvars, raw, snaps, used>>

(* After a failed write of A the header of B is written all the same.        *)
ClearError ==
  /\ st = "clear"
  /\ Spend("errors")
  /\ st' = "bad"                          \* fd = -1
  /\ PutPart(0, wpos) \/ (wpos <= Footer /\ Put(1, 0, raw))
  /\ UNCHANGED <<serial, dirty, aggvars, inprog, syncvars, raw, wpos, snaps, exposed>>

-----------------------------------------------------------------------------

Init ==
  /\ st = "down" /\ serial = 0
  /\ dirty = FALSE /\ agg = "empty" /\ waiting = FALSE /\ inprog = FALSE
  /\ cs = "timer" /\ writepos = 0 /\ buf = Blank
  /\ raw = Blank /\ wpos = 0
  /\ disk = [c \in Copies |-> [p \in Pieces |-> Blank]]
  /\ snaps = 0 /\ exposed = FALSE
  /\ used = [b \in DOMAIN Bound |-> 0]

SyncStep == SyncStart \/ SyncPark \/ SyncWrite \/ SyncFinish \/ SyncLand \/ SyncError
AggStep  == AggWrite \/ AggWriteDone
InitStep == HandleHeaderRead \/ HandleDirRead \/ HandleRecover \/ RewriteLand \/ RewriteError
              \/ ClearLand \/ ClearError

Next == DirChange \/ AggCopy \/ AggStep \/ SyncStep \/ Shutdown \/ ShutdownLand
          \/ Crash \/ Exit \/ InitStep

Spec == Init /\ [][Next]_vars

(* An aggregation write that is due is issued and completes.                 *)
FairSpec == Spec /\ WF_vars(AggWrite) /\ WF_vars(AggWriteDone)

-----------------------------------------------------------------------------
(* Properties                                                                *)

(* The directory is being written to copy c and its footer is not there yet. *)
Writing(c) ==
  \/ st = "up" /\ writepos \in 1..Footer + 1 /\ ~(writepos = Footer + 1 /\ cs = "timer") /\ c = Target(serial)
  \/ st \in {"rewrite", "stopping"} /\ c = Target(serial)

(* "make that the next sync does not overwrite our good copy!"               *)
(* (handle_recover_from_data): while a copy is being written, the choice at  *)
(* a restart is the other one, and that one is whole.                        *)
GoodCopyKept ==
  ~exposed => \A c \in Copies : Writing(c) => Choice = 1 - c /\ Whole(1 - c)

(* The copies behave as one durable directory that is replaced atomically.   *)
Store == INSTANCE DirStore WITH taken <- snaps, durable <- Loadable, exposed <- exposed
ImplementsStore == Store!DSpec

(* A sync that waits for the aggregation buffer begins, unless the process   *)
(* stops: CacheSync has no trigger of its own in the meantime.               *)
WaitingSyncBegins == (cs = "parked") ~> (cs # "parked" \/ st # "up")

(* handle_dir_clear on copy B: "We don't need to clear the whole of          *)
(* directory B" -- the directory that is loaded comes from one snapshot (one *)
(* with serial 0 is empty in all its pieces).                                *)
LoadedIsWhole == (st = "scan" /\ serial # 0) => Whole(Choice)
=============================================================================
