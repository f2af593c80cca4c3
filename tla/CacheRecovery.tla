---------------------------- MODULE CacheRecovery ----------------------------
(* The circular log of documents of one cache volume and the recovery that   *)
(* follows a crash: which entries of the directory copy on disk still point  *)
(* at the documents they were made for.                                      *)
(*                                                                           *)
(* Positions are in cache blocks; the data area is Start..End-1.  A document *)
(* is one or more blocks; only its first block shows DOC_MAGIC, its length   *)
(* and its serials.  The directory on disk is what DirStore promises: a      *)
(* snapshot that is replaced atomically when a sync is complete.             *)
EXTENDS Integers, Sequences

CONSTANTS Start,      \* first block of the data area (start)
          End,        \* first block behind the volume (skip + len)
          AGG_SIZE,   \* size of the aggregation buffer
          Prefill,    \* lengths of the documents the log starts with
          Batches,    \* lengths of the documents of an aggregation write
          MaxLogWrites,   \* bound on aggregation writes
          MaxLogSyncs,    \* bound on directory syncs
          MaxLogCrashes,  \* bound on crashes
          MaxLogErrors    \* bound on failed aggregation writes

EVACUATION_SIZE == 2 * AGG_SIZE
RECOVERY_SIZE   == EVACUATION_SIZE
DIR_OFFSET_MAX  == 2 * End
BlockBytes      == 512

(* EndOf(b)[i]: where document i of the lengths b ends, and the next begins. *)
EndOf(b) == LET end[i \in 0..Len(b)] == IF i = 0 THEN 0 ELSE end[i - 1] + b[i] IN end
SizeOf(b) == EndOf(b)[Len(b)]
Before(b, i) == EndOf(b)[i - 1]

(* A volume is many times the size of the aggregation buffer (MIN_VOL_SIZE   *)
(* is 128 MB, AGG_SIZE 4 MB); a document fits into the buffer.               *)
ASSUME LogConstants ==
  /\ Start \in Nat \ {0} /\ AGG_SIZE \in Nat \ {0} /\ End \in Nat
  /\ End >= Start + 3 * AGG_SIZE
  /\ \A b \in Batches : b \in Seq(Nat \ {0}) /\ b # << >> /\ SizeOf(b) <= AGG_SIZE
  /\ Prefill \in Seq(Nat \ {0}) /\ Start + SizeOf(Prefill) <= End
  /\ \A i \in 1..Len(Prefill) : Prefill[i] <= AGG_SIZE
  /\ {MaxLogWrites, MaxLogSyncs, MaxLogCrashes, MaxLogErrors} \subseteq Nat

VARIABLES header,   \* VolHeaderFooter: the positions, the serials and the phase
          dir,      \* the directory: entries [off, len, phase, id]
          batch,    \* the lengths in the aggregation buffer, <<>> if it is empty
          data,     \* the blocks of the data area
          saved,    \* the directory copy a restart loads, with its header
          pend,     \* the copy being written, if any
          mode,     \* up, scanning (reading / examining) or down
          scan,     \* the locals and members handle_recover_from_data works with
          orphans,  \* history: entries of failed writes, and what those wrote over
          misled,   \* history: a scan may have mistaken the end of the log, and
                    \* the volume has not been cleared since
          spent     \* how much of each bound is used

logvars == <<header, dir, batch, data, saved, pend, mode, scan, orphans, misled, spent>>

Blocks == Start..End - 1

NoBlock == [id |-> 0, ws |-> 0, ss |-> 0, len |-> 0, k |-> 0]   \* no DOC_MAGIC here
NoScan  == << >>

FreshHeader == [write_pos |-> Start, last_write_pos |-> Start, agg_pos |-> Start,
                sync_serial |-> 0, write_serial |-> 0, phase |-> 0, dirty |-> FALSE]

offset_to_vol_offset(pos) == pos - Start + 1
vol_offset(e) == Start + e.off - 1

(* dir_valid: an entry of this phase lies before the write position, one of  *)
(* the phase before not before the end of the write under way.               *)
dir_valid(h, b, e) ==
  IF e.phase = h.phase THEN e.off - 1 < h.write_pos + SizeOf(b) - Start
                       ELSE e.off - 1 >= h.agg_pos - Start

(* The blocks of the write under way (agg_copy): its documents have the      *)
(* serials of the header.  id tells writes apart that have the same serial.  *)
Copied(h, b) ==
  [p \in h.write_pos..h.write_pos + SizeOf(b) - 1 |->
     LET i == CHOOSE j \in 1..Len(b) : /\ h.write_pos + Before(b, j) <= p
                                       /\ p < h.write_pos + Before(b, j) + b[j]
     IN  [id |-> spent.writes, ws |-> h.write_serial, ss |-> h.sync_serial,
          len |-> b[i], k |-> p - h.write_pos - Before(b, i)]]

Written(upto) == [p \in Blocks |-> IF p \in DOMAIN Copied(header, batch) /\ p < upto
                                   THEN Copied(header, batch)[p] ELSE data[p]]

LogBound == [writes |-> MaxLogWrites, syncs |-> MaxLogSyncs,
             crashes |-> MaxLogCrashes, errors |-> MaxLogErrors]

LogSpend(what) == /\ spent[what] < LogBound[what]
                  /\ spent' = [spent EXCEPT ![what] = @ + 1]

-----------------------------------------------------------------------------
(* The running volume                                                        *)

(* agg_wrap, if the first document does not fit before the end: the other    *)
(* phase begins, and dir_clean_vol drops the entries that are not valid.     *)
Wraps(b) == header.write_pos + b[1] > End
WrapHeader(b) ==
  IF Wraps(b) THEN [header EXCEPT !.write_pos = Start, !.agg_pos = Start, !.phase = 1 - @]
              ELSE header

(* aggWrite: copy documents into the buffer, enter them into the directory   *)
(* and write the buffer.                                                     *)
aggWrite(b) ==
  LET h == WrapHeader(b) IN
  /\ mode = "up" /\ batch = << >>
  /\ h.write_pos + SizeOf(b) <= End
  /\ LogSpend("writes")
  /\ batch' = b
  /\ header' = [h EXCEPT !.agg_pos = h.write_pos + SizeOf(b), !.dirty = TRUE]
  /\ LET kept == IF Wraps(b) THEN {e \in dir : dir_valid(h, << >>, e)} ELSE dir
         new  == {[off |-> offset_to_vol_offset(h.write_pos + Before(b, i)), len |-> b[i],
                   phase |-> h.phase, id |-> spent.writes + 1] : i \in 1..Len(b)}
     IN  dir' = kept \cup new
  /\ UNCHANGED <<data, saved, pend, mode, scan, orphans, misled>>

(* aggWriteDone, io.ok().                                                    *)
aggWriteDone ==
  /\ mode = "up" /\ batch # << >>
  /\ data' = Written(End)
  /\ header' = [header EXCEPT !.last_write_pos = header.write_pos,
                              !.write_pos = @ + SizeOf(batch),
                              !.write_serial = @ + 1]
  /\ batch' = << >>
  /\ UNCHANGED <<dir, saved, pend, mode, scan, orphans, misled, spent>>

(* aggWriteDone, the write failed: the entries are to be deleted, and are    *)
(* looked up by an offset in bytes.  The serial and the position stay,       *)
(* although a first part of the blocks may have been written.                *)
aggWriteFailed ==
  /\ mode = "up" /\ batch # << >>
  /\ LogSpend("errors")
  /\ \E upto \in header.write_pos..header.write_pos + SizeOf(batch) :
     LET mine == {e \in dir : \E i \in 1..Len(batch) :
                    /\ e.off = offset_to_vol_offset(header.write_pos + Before(batch, i))
                    /\ e.phase = header.phase}
         gone == {e \in mine : \E i \in 1..Len(batch) :
                    e.off = (header.write_pos + Before(batch, i)) * BlockBytes}
         hit  == {e \in dir \cup UNION {d.dir : d \in pend \cup {saved}} :
                    \E p \in header.write_pos..upto - 1 : vol_offset(e) <= p /\ p < vol_offset(e) + e.len}
     IN  /\ data' = Written(upto)
         /\ dir' = dir \ gone
         /\ orphans' = orphans \cup mine \cup hit
  /\ batch' = << >>
  /\ UNCHANGED <<header, saved, pend, mode, scan, misled>>

(* CacheSync, once the aggregation buffer is empty and on disk.              *)
LogSyncBegin ==
  /\ mode = "up" /\ batch = << >> /\ pend = {}
  /\ header.dirty
  /\ LogSpend("syncs")
  /\ header' = [header EXCEPT !.sync_serial = @ + 1, !.dirty = FALSE]
  /\ pend' = {[header |-> header', dir |-> dir]}
  /\ UNCHANGED <<dir, batch, data, saved, mode, scan, orphans, misled>>

LogSyncEnd ==
  /\ mode = "up" /\ pend # {}
  /\ saved' \in pend
  /\ pend' = {}
  /\ UNCHANGED <<header, dir, batch, data, mode, scan, orphans, misled, spent>>

(* The process dies; the blocks of a write under way are on disk in order,   *)
(* up to some point.                                                         *)
LogCrash ==
  /\ mode = "up"
  /\ LogSpend("crashes")
  /\ \E upto \in header.write_pos..header.write_pos + SizeOf(batch) : data' = Written(upto)
  /\ mode' = "down"
  /\ batch' = << >>
  /\ pend' = {}
  /\ UNCHANGED <<header, dir, saved, scan, orphans, misled>>

-----------------------------------------------------------------------------
(* Recovery.  scan.pos is recover_pos - (e - s), scan.end is recover_pos     *)
(* after a read.                                                             *)

Doc(p)   == IF p \in Blocks THEN data[p] ELSE NoBlock
Magic(p) == Doc(p).len > 0 /\ Doc(p).k = 0
DangerZone(p) == p > End - AGG_SIZE

(* clear_dir.                                                                *)
Lclear ==
  /\ mode' = "up"
  /\ header' = FreshHeader
  /\ dir' = {}
  /\ saved' = [header |-> FreshHeader, dir |-> {}]
  /\ scan' = NoScan
  /\ misled' = FALSE
  /\ UNCHANGED <<batch, data, pend, orphans, spent>>

Resume(h, d) ==
  /\ mode' = "up"
  /\ header' = h
  /\ dir' = d
  /\ scan' = NoScan
  /\ UNCHANGED <<batch, data, pend, orphans, spent>>

(* The next read, unless it would be the same one again.  A buffer that, in  *)
(* the second lap, reaches over last_write_pos counts as misled even if the  *)
(* scan then stops where it should.                                          *)
Read(s, pos, nbytes) ==
  \/ pos = s.prev /\ Lclear
  \/ /\ pos # s.prev
     /\ mode' = "read"
     /\ scan' = [s EXCEPT !.off = pos, !.pos = pos, !.end = pos + nbytes, !.prev = pos]
     /\ misled' = (misled \/ (s.lap /\ pos + nbytes > header.last_write_pos))
     /\ UNCHANGED <<header, dir, batch, data, saved, pend, orphans, spent>>

UpToEnd(pos) == IF pos + RECOVERY_SIZE > End THEN End - pos ELSE RECOVERY_SIZE

(* handle_dir_read and the first event of handle_recover_from_data: start at *)
(* the last write before the sync.                                           *)
RecoverStart ==
  /\ mode = "down"
  /\ \/ /\ saved.header.sync_serial = 0
        /\ Resume(saved.header, saved.dir)
        /\ UNCHANGED <<saved, misled>>
     \/ /\ saved.header.sync_serial # 0
        /\ header' = saved.header
        /\ dir' = saved.dir
        /\ mode' = "read"
        /\ LET pos == header'.last_write_pos
           IN  scan' = [off |-> pos, pos |-> pos, end |-> pos + UpToEnd(pos), prev |-> pos,
                        last |-> pos, wrapped |-> FALSE, lap |-> FALSE, lss |-> 0, lws |-> 0,
                        max |-> header'.sync_serial]
        /\ UNCHANGED <<batch, data, saved, pend, orphans, misled, spent>>

(* The serial of the directory that is written back: above max, and of the   *)
(* other parity than the copy that was read.                                 *)
RecoverSerial(max) == IF (max + 1) % 2 = header.sync_serial % 2 THEN max + 2 ELSE max + 1

\* Mutant of Cleared: the first offset of the range is left out.
ClearedBehindFirst(from, to, e) ==
  IF from <= to THEN from < e.off /\ e.off < to
  ELSE (to <= e.off /\ e.off < DIR_OFFSET_MAX) \/ (1 <= e.off /\ e.off < from)

(* The two calls of dir_clear_range, on the offsets from and to.             *)
Cleared(from, to, e) ==
  IF from <= to THEN from <= e.off /\ e.off < to
  ELSE (to <= e.off /\ e.off < DIR_OFFSET_MAX) \/ (1 <= e.off /\ e.off < from)

(* Ldone with recover_pos = pos: cover the largest write, then clear the     *)
(* entries from write_pos up to there and write the directory.               *)
UpTo(pos) == IF pos + EVACUATION_SIZE > End THEN pos + EVACUATION_SIZE - End ELSE pos + EVACUATION_SIZE
Left(pos) == {e \in dir : /\ ~Cleared(offset_to_vol_offset(header.write_pos), offset_to_vol_offset(UpTo(pos)), e)
                          /\ dir_valid(header, << >>, e)}

Ldone(pos, max, doubt) ==
  LET rpos == pos + EVACUATION_SIZE
      newh == [header EXCEPT !.sync_serial = RecoverSerial(max), !.dirty = @ \/ Left(pos) # dir]
      over == rpos < header.write_pos /\ rpos + EVACUATION_SIZE >= header.write_pos
  IN  \/ /\ pos = header.write_pos /\ scan.wrapped      \* nothing to clear
         /\ Resume(header, dir)
         /\ misled' = TRUE
         /\ UNCHANGED saved
      \/ ~(pos = header.write_pos /\ scan.wrapped) /\ over /\ Lclear
      \/ /\ ~(pos = header.write_pos /\ scan.wrapped) /\ ~over
         /\ Resume(newh, Left(pos))
         /\ saved' = [header |-> newh, dir |-> Left(pos)]
         /\ misled' = (misled \/ doubt \/ (rpos > End /\ UpTo(pos) >= header.write_pos))

(* What follows a read: the first document at the start of the volume after  *)
(* a wrap must not be older than the last one before it.                     *)
Examine(s) ==
  \/ s.pos = s.end /\ Read(s, s.end, s.end - s.off)            \* got_len is 0
  \/ /\ s.pos # s.end
     /\ s.wrapped /\ s.off = Start
     /\ ~Magic(s.pos) \/ Doc(s.pos).ws < s.lws
     /\ Ldone(End - EVACUATION_SIZE, s.max, Magic(s.pos) /\ Doc(s.pos).ss >= header.sync_serial)
  \/ /\ s.pos # s.end
     /\ ~(s.wrapped /\ s.off = Start) \/ (Magic(s.pos) /\ Doc(s.pos).ws >= s.lws)
     /\ mode' = "examine"
     /\ scan' = s
     /\ UNCHANGED <<header, dir, batch, data, saved, pend, orphans, misled, spent>>

(* AIO_EVENT_DONE; max_sync_serial is a local variable and starts again.     *)
ReadDone ==
  /\ mode = "read"
  /\ LET s == [scan EXCEPT !.max = header.sync_serial]
     IN  \/ /\ scan.off = header.last_write_pos
            /\ mode' = "check"
            /\ scan' = s
            /\ UNCHANGED <<header, dir, batch, data, saved, pend, orphans, misled, spent>>
         \/ scan.off # header.last_write_pos /\ Examine(s)

(* A read of blocks behind the volume may fail.                              *)
ReadFailed ==
  /\ mode = "read" /\ scan.end > End
  /\ Lclear

(* to_check is unsigned: if the first write after agg_wrap has failed, the   *)
(* position is before that of the last write, and the documents are followed *)
(* out of the buffer, to where there is none.                                *)
ToCheck == scan.pos < header.write_pos \/ header.write_pos < header.last_write_pos

(* The documents of the last write before the sync: if one was written after *)
(* it, the log has come round without another sync.                          *)
Check ==
  /\ mode = "check" /\ ToCheck
  /\ \/ /\ ~Magic(scan.pos) \/ Doc(scan.pos).ws > header.write_serial
        /\ Lclear
     \/ /\ Magic(scan.pos) /\ Doc(scan.pos).ws <= header.write_serial
        /\ scan' = [scan EXCEPT !.pos = @ + Doc(scan.pos).len,
                                !.lss = IF Doc(scan.pos).ss > scan.lws THEN Doc(scan.pos).ss ELSE @]
        /\ UNCHANGED <<header, dir, batch, data, saved, pend, mode, orphans, misled, spent>>

CheckDone ==
  /\ mode = "check" /\ ~ToCheck
  /\ Examine(scan)

\* Mutant of ExamineNext: where the document began is not kept.
ExamineNextUnmarked ==
  /\ mode = "examine" /\ scan.pos < scan.end
  /\ Magic(scan.pos)
  /\ LET doc == Doc(scan.pos) IN
     /\ \/ /\ doc.ss = scan.lss
           /\ scan' = [scan EXCEPT !.lws = doc.ws, !.pos = @ + doc.len]
        \/ /\ doc.ss > scan.lss /\ doc.ss <= header.sync_serial + 1
           /\ scan' = [scan EXCEPT !.lss = doc.ss, !.pos = @ + doc.len,
                                   !.max = IF doc.ss > header.sync_serial THEN doc.ss ELSE @]
     /\ UNCHANGED <<header, dir, batch, data, saved, pend, mode, orphans, misled, spent>>

(* A document that continues the run: it has the serial of the one before    *)
(* it, or a higher one that a document written after the sync can have.      *)
ExamineNext ==
  /\ mode = "examine" /\ scan.pos < scan.end
  /\ Magic(scan.pos)
  /\ LET doc == Doc(scan.pos) IN
     /\ \/ /\ doc.ss = scan.lss
           /\ scan' = [scan EXCEPT !.lws = doc.ws, !.last = scan.pos, !.pos = @ + doc.len]
        \/ /\ doc.ss > scan.lss /\ doc.ss <= header.sync_serial + 1
           /\ scan' = [scan EXCEPT !.lss = doc.ss, !.last = scan.pos, !.pos = @ + doc.len,
                                   !.max = IF doc.ss > header.sync_serial THEN doc.ss ELSE @]
     /\ UNCHANGED <<header, dir, batch, data, saved, pend, mode, orphans, misled, spent>>

(* One that does not, or none: near the end of the volume the log may have   *)
(* wrapped here, elsewhere this is its end.                                  *)
ExamineStop ==
  /\ mode = "examine" /\ scan.pos < scan.end
  /\ \/ ~Magic(scan.pos)
     \/ Doc(scan.pos).ss < scan.lss
     \/ Doc(scan.pos).ss > header.sync_serial + 1
  /\ LET max == IF Magic(scan.pos) /\ Doc(scan.pos).ss > header.sync_serial
                THEN Doc(scan.pos).ss ELSE scan.max
     IN  \/ DangerZone(scan.pos) /\ Read([scan EXCEPT !.wrapped = TRUE, !.lap = TRUE], Start, RECOVERY_SIZE)
         \/ /\ ~DangerZone(scan.pos)
            /\ Ldone(scan.pos, max, scan.lap /\ scan.pos <= header.write_pos
                                             /\ scan.pos + EVACUATION_SIZE >= header.write_pos)

(* The buffer is used up; a document that reaches over its end is read again.*)
ExamineMore ==
  /\ mode = "examine" /\ scan.pos >= scan.end
  /\ LET back == IF scan.pos > scan.end THEN scan.last ELSE scan.pos
         pos  == IF back >= End THEN Start ELSE back
     IN  Read([scan EXCEPT !.lap = @ \/ back >= End], pos, UpToEnd(pos))

-----------------------------------------------------------------------------

(* A volume that holds documents and whose directory was never synced.       *)
LogInit ==
  LET n == Len(Prefill)
      place(i) == Start + Before(Prefill, i)
  IN
  /\ header = [FreshHeader EXCEPT !.write_pos = place(n + 1), !.agg_pos = place(n + 1),
                                  !.last_write_pos = IF n = 0 THEN Start ELSE place(n),
                                  !.write_serial = n, !.dirty = n > 0]
  /\ dir = {[off |-> offset_to_vol_offset(place(i)), len |-> Prefill[i], phase |-> 0, id |-> i] : i \in 1..n}
  /\ data = [p \in Blocks |->
               IF p >= place(n + 1) THEN NoBlock
               ELSE LET i == CHOOSE j \in 1..n : place(j) <= p /\ p < place(j + 1)
                    IN  [id |-> i, ws |-> i - 1, ss |-> 0, len |-> Prefill[i], k |-> p - place(i)]]
  /\ batch = << >>
  /\ saved = [header |-> FreshHeader, dir |-> {}]
  /\ pend = {}
  /\ mode = "up" /\ scan = NoScan /\ orphans = {} /\ misled = FALSE
  /\ spent = [b \in DOMAIN LogBound |-> IF b = "writes" THEN n ELSE 0]

Scan == RecoverStart \/ ReadDone \/ ReadFailed \/ Check \/ CheckDone \/ ExamineNext \/ ExamineStop \/ ExamineMore

LogNext == \/ \E b \in Batches : aggWrite(b)
           \/ aggWriteDone \/ aggWriteFailed \/ LogSyncBegin \/ LogSyncEnd \/ LogCrash \/ Scan

LogSpec == LogInit /\ [][LogNext]_logvars

(* The reads of a recovery complete.                                         *)
LogFairSpec == LogSpec /\ WF_logvars(Scan)

-----------------------------------------------------------------------------
(* Properties                                                                *)

(* The document of an entry is on disk, all of it.                           *)
Intact(e) == \A i \in 0..e.len - 1 :
               LET b == data[vol_offset(e) + i] IN b.id = e.id /\ b.len = e.len /\ b.k = i

InBuffer(e) == batch # << >> /\ e.id = spent.writes

(* "find the region of disk that could be inconsistent and remove all        *)
(* directory entries pointing to that potentially inconsistent region"       *)
(* (handle_recover_from_data): after any number of crashes, an entry that    *)
(* dir_valid accepts points at the document it was made for.                 *)
AllIntact ==
  mode = "up" => \A e \in dir \ orphans : dir_valid(header, batch, e) => InBuffer(e) \/ Intact(e)

(* This holds unless a scan could not tell where the log ends (misled): in   *)
(* its second lap it ended within EVACUATION_SIZE before its own start, or a *)
(* buffer reached over that; Ldone found nothing to clear, which it does     *)
(* when the position it fell back to happens to be write_pos, or came out    *)
(* behind write_pos where it wrapped; or the first document after the wrap   *)
(* was refused although it is a new one.                                     *)
EntriesIntact == ~misled => AllIntact

(* "this should never happen, but if it does break the loop"                 *)
(* (handle_recover_from_data, of a read that repeats the one before):        *)
(* recovery ends unless the scan comes back to where it started; every read  *)
(* is of something new, also when a document reaches over the end of the     *)
(* buffer.                                                                   *)
CameRound == mode = "read" /\ scan.lap /\ scan.end > header.last_write_pos

ScanEnds == (mode = "down") ~> (mode = "up" \/ CameRound)
=============================================================================
