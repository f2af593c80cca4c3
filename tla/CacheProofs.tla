----------------------------- MODULE CacheProofs ------------------------------
(* Proofs about the two parts of a cache volume, for any sizes and bounds.   *)
(*                                                                           *)
(* CacheDirSync: the copy that is being overwritten is never the one a       *)
(* restart would load, and the two copies implement a directory that is      *)
(* replaced atomically (DirStore).  The inductive invariant IInv has three   *)
(* layers: how CacheSync's variables hang together (Control), what is on the *)
(* disk whatever has gone wrong (Image, Landed, Ids, Parity, Newest), and,   *)
(* while nothing has, which copy is good and where the next write goes       *)
(* (Good).                                                                   *)
(*                                                                           *)
(* CacheRecovery: after any number of crashes a valid entry of the directory *)
(* points at its document.  The inductive invariant LogInv says how far the  *)
(* log has gone since a copy of the directory was taken (Ahead), what a      *)
(* crash leaves of that (Found), and where in it the scan is (Scanning).     *)
EXTENDS CacheDirSync, CacheRecovery, Lemmas

-----------------------------------------------------------------------------
(* The two copies of the directory                                           *)


Types ==
  /\ st \in States
  /\ serial \in Nat
  /\ dirty \in BOOLEAN /\ waiting \in BOOLEAN /\ inprog \in BOOLEAN /\ exposed \in BOOLEAN
  /\ cs \in {"timer", "io", "parked"}
  /\ writepos \in 0..Footer + 1
  /\ buf \in Stamp /\ raw \in Stamp
  /\ wpos \in 0..Footer + 1
  /\ disk \in [Copies -> [Pieces -> Stamp]]
  /\ snaps \in Nat

(* CacheSync has its variables in hand only between a start and a stop.      *)
Control ==
  /\ st \notin {"up", "stopping", "stopped"} => cs = "timer" /\ writepos = 0 /\ ~inprog
  /\ waiting <=> cs = "parked"
  /\ cs = "parked" => writepos = 0
  /\ cs = "io" => writepos # 0
  /\ writepos # 0 => buf.serial = serial /\ inprog
  /\ st \in {"rewrite", "stopping"} => wpos <= Footer
  /\ st = "clear" => exposed /\ serial = 0
  /\ st = "chosen" => Choice \in Copies
  /\ st = "scan" => Choice \in Copies /\ serial = disk[Choice][0].serial

(* A write of CacheSync that may still complete a copy.                      *)
Syncing == writepos # 0 /\ (st = "up" \/ (st = "stopped" /\ cs = "io" /\ ~exposed))

(* The images being written are of the newest snapshot.                      *)
Image ==
  /\ st \in {"rewrite", "stopping", "clear"} => raw.serial = serial /\ raw.id = snaps /\ raw.id # 0
  /\ Syncing => buf.id = snaps /\ buf.id # 0

(* What was written so far is on the disk.                                   *)
Landed ==
  /\ Syncing => \A p \in Pieces : p < (IF cs = "io" THEN writepos - 1 ELSE writepos) =>
                  disk[Target(serial)][p] = buf
  /\ (st = "rewrite" \/ (st = "stopping" /\ ~exposed)) =>
       \A p \in Pieces : p < wpos => disk[Target(serial)][p] = raw
  /\ st = "clear" => \A p \in Pieces : p < wpos => disk[0][p] = raw

(* No piece is of a snapshot that was not taken.                             *)
Ids == /\ buf.id <= snaps /\ raw.id <= snaps
       /\ \A c \in Copies, p \in Pieces : disk[c][p].id <= snaps

(* Odd serials are in copy B only, and copy B has no even ones but 0.        *)
Parity == \A c \in Copies : \A p \in {0, Footer} :
            disk[c][p].serial = 0 \/ Target(disk[c][p].serial) = c

(* No copy that would be accepted is newer than the directory in memory.     *)
Newest ==
  st \in {"scan", "rewrite", "up", "stopping", "stopped"} =>
    \A c \in Copies : Matches(c) => disk[c][0].serial <= serial

(* A write is under way whose footer is not on the disk.                     *)
Open ==
  \/ st \in {"rewrite", "stopping"}
  \/ st = "up" /\ writepos # 0 /\ ~(writepos = Footer + 1 /\ cs = "timer")
  \/ st = "stopped" /\ cs = "io"

(* While nothing has gone wrong, the chosen copy is whole; a write goes to   *)
(* the other one, which does not end with the serial it gets; between writes *)
(* memory has the serial of the chosen copy.                                 *)
Good ==
  ~exposed =>
    /\ Choice \in Copies /\ Whole(Choice)
    /\ Choice = Target(disk[Choice][0].serial)
    /\ Open => Choice = 1 - Target(serial) /\ ~StaleFooter(serial)
    /\ st = "stopping" => cs # "io"
    /\ st = "up" /\ ~Open => serial = disk[Choice][0].serial
    /\ st = "up" /\ inprog => writepos # 0

IInv == Types /\ Control /\ Image /\ Landed /\ Ids /\ Parity /\ Newest /\ Good
-----------------------------------------------------------------------------

\* Serials of different parity go to different copies.
LEMMA TargetFacts ==
  ASSUME NEW n \in Nat
  PROVE  Target(n) \in Copies /\ Target(n + 1) = 1 - Target(n) /\ Target(0) = 0
BY DEF Target, Copies

\* A sync's serial is larger than memory's and goes to the other copy.
LEMMA SerialFacts ==
  ASSUME serial \in Nat, NEW max \in Nat, max >= serial
  PROVE  /\ NextSerial(max) \in Nat /\ NextSerial(max) > serial
         /\ Target(NextSerial(max)) = 1 - Target(serial)
BY DEF Target, NextSerial

\* A write changes one piece of one copy.
LEMMA PutEffect ==
  ASSUME disk \in [Copies -> [Pieces -> Stamp]],
         NEW c \in Copies, NEW p \in Pieces, NEW s \in Stamp, Put(c, p, s)
  PROVE  /\ disk' \in [Copies -> [Pieces -> Stamp]]
         /\ \A d \in Copies, q \in Pieces :
              disk'[d][q] = IF d = c /\ q = p THEN s ELSE disk[d][q]
BY DEF Put

\* A restart chooses a copy or none.
LEMMA ChoiceType == Choice \in Copies \cup {None}
BY DEF Choice, Copies, None

(* A piece that is neither header nor footer does not bear on the choice.    *)
LEMMA BodyPut ==
  ASSUME disk \in [Copies -> [Pieces -> Stamp]],
         NEW c \in Copies, NEW p \in 1..NBody, NEW s \in Stamp, Put(c, p, s)
  PROVE  /\ UNCHANGED Choice
         /\ \A d \in Copies : disk'[d][0] = disk[d][0] /\ disk'[d][Footer] = disk[d][Footer]
<1>1. p \in Pieces /\ p # 0 /\ p # Footer /\ 0 \in Pieces /\ Footer \in Pieces /\ 0 \in Copies /\ 1 \in Copies
  BY DirConstants DEF Pieces, Footer, Copies
<1>2. \A d \in Copies : disk'[d][0] = disk[d][0] /\ disk'[d][Footer] = disk[d][Footer]
  BY <1>1, PutEffect
<1> QED
  BY <1>1, <1>2 DEF Choice, Matches

(* A piece of the copy that is not chosen, before the footer: the other copy *)
(* stays the chosen one.                                                     *)
LEMMA WriteKeeps ==
  ASSUME disk \in [Copies -> [Pieces -> Stamp]],
         NEW c \in Copies, NEW p \in Pieces, NEW s \in Stamp, Put(c, p, s),
         p # Footer, Choice = 1 - c, Whole(1 - c),
         disk[c][Footer].serial # s.serial,
         p # 0 => disk[c][0] = s
  PROVE  Choice' = 1 - c /\ Whole(1 - c)' /\ disk'[1 - c] = disk[1 - c]
           /\ disk'[c][Footer] = disk[c][Footer]
<1>1. 0 \in Pieces /\ Footer \in Pieces /\ 0 # Footer /\ 1 - c \in Copies /\ 1 - c # c
  BY DirConstants DEF Pieces, Footer, Copies
<1>2. \A q \in Pieces : disk'[1 - c][q] = disk[1 - c][q]
  BY <1>1, PutEffect
<1>3. disk'[1 - c] = disk[1 - c]
  BY <1>1 DEF Put
<1>4. disk'[c][Footer] = disk[c][Footer] /\ disk'[c][0] = s
  BY <1>1, PutEffect
<1>5. disk'[1 - c][0].serial = disk'[1 - c][Footer].serial
  BY <1>1, <1>2 DEF Whole
<1>6. disk'[c][0].serial # disk'[c][Footer].serial
  BY <1>4
<1>7. c = 0 => Choice' = 1 - c
  BY <1>5, <1>6 DEF Choice, Matches
<1>8. c = 1 => Choice' = 1 - c
  BY <1>5, <1>6 DEF Choice, Matches
<1>9. Whole(1 - c)'
  BY <1>1, <1>2 DEF Whole
<1> QED
  BY <1>3, <1>4, <1>7, <1>8, <1>9 DEF Copies

(* The footer completes a copy that is newer than the other one: it is the   *)
(* one a restart loads from now on.                                          *)
LEMMA FooterCommits ==
  ASSUME disk \in [Copies -> [Pieces -> Stamp]],
         NEW c \in Copies, NEW s \in Stamp, Put(c, Footer, s),
         \A p \in Pieces : p < Footer => disk[c][p] = s,
         Matches(1 - c) => disk[1 - c][0].serial < s.serial \/ (c = 0 /\ disk[1 - c][0].serial <= s.serial)
  PROVE  /\ Choice' = c /\ Whole(c)' /\ disk'[c][0] = s /\ Loadable' = s.id
         /\ disk'[1 - c] = disk[1 - c]
<1>1. 0 \in Pieces /\ Footer \in Pieces /\ 0 # Footer /\ 0 < Footer /\ 1 - c \in Copies /\ 1 - c # c
        /\ \A p \in Pieces : p < Footer \/ p = Footer
  BY DirConstants DEF Pieces, Footer, Copies
<1>2. \A q \in Pieces : disk'[c][q] = s
  BY <1>1, PutEffect
<1>3. disk'[1 - c] = disk[1 - c]
  BY <1>1 DEF Put
<1>4. Whole(c)' /\ disk'[c][0] = s /\ disk'[c][0].serial = disk'[c][Footer].serial
  BY <1>1, <1>2 DEF Whole
<1>5. disk[1 - c][0].serial \in Nat /\ s.serial \in Nat
  BY <1>1 DEF Stamp
<1>6. c = 0 => Choice' = c
  BY <1>3, <1>4, <1>5 DEF Choice, Matches
<1>7. c = 1 => Choice' = c
  BY <1>3, <1>4, <1>5 DEF Choice, Matches
<1>8. Choice' = c
  BY <1>6, <1>7 DEF Copies
<1> QED
  BY <1>3, <1>4, <1>8 DEF Loadable

-----------------------------------------------------------------------------

\* The numbers of the pieces and of the copies.
LEMMA Numbers ==
  /\ Footer \in Nat /\ Footer > 1 /\ 0 \in Pieces /\ Footer \in Pieces
  /\ \A p \in Pieces : p \in Nat /\ p <= Footer
  /\ \A p \in Nat : p <= Footer => p \in Pieces
  /\ \A p \in Pieces : p = 0 \/ p = Footer \/ p \in 1..NBody
  /\ Copies = {0, 1}
BY DirConstants DEF Footer, Pieces, Copies

\* What a piece can have on it.
LEMMA StampFacts ==
  /\ \A i, n \in Nat : [id |-> i, serial |-> n] \in Stamp
  /\ Blank \in Stamp /\ Torn \in Stamp
  /\ \A s \in Stamp : s.id \in Nat /\ s.serial \in Nat
BY DEF Stamp, Blank, Torn

\* Every piece on the disk has a directory and a serial.
LEMMA DiskFacts ==
  ASSUME Types
  PROVE  \A c \in Copies, p \in Pieces :
           /\ disk[c][p] \in Stamp
           /\ disk[c][p].id \in Nat /\ disk[c][p].serial \in Nat
BY StampFacts DEF Types

\* The choice of a restart depends on the disk alone.
LEMMA SameChoice ==
  ASSUME UNCHANGED disk PROVE UNCHANGED <<Choice, Loadable>>
BY DEF Choice, Matches, Loadable, Whole

(* The beginning of a sync, whether CacheSync's own trigger or aggWriteDone  *)
(* has called it.                                                            *)
LEMMA SyncBeginKeeps ==
  ASSUME IInv, SyncBegin, st = "up", writepos = 0, waiting' = FALSE,
         UNCHANGED <<st, raw, wpos, disk>>
  PROVE  IInv'
<1> USE Numbers
<1>1. Choice' = Choice
  BY SameChoice
<1>2. /\ serial' = serial + 1 /\ snaps' = snaps + 1
      /\ buf' = [id |-> snaps + 1, serial |-> serial + 1]
      /\ cs' = "io" /\ writepos' = 1 /\ inprog' = TRUE
  BY DEF SyncBegin
<1>3. serial \in Nat /\ snaps \in Nat /\ serial' \in Nat /\ snaps' \in Nat
  BY <1>2 DEF IInv, Types
<1>4. buf'.id = snaps' /\ buf'.serial = serial' /\ buf' \in Stamp
  BY <1>2, <1>3, StampFacts
<1>5. Types'
  <2>1. exposed' \in BOOLEAN
    BY DEF SyncBegin, StaleFooter
  <2>2. dirty' \in BOOLEAN /\ waiting' \in BOOLEAN
    BY DEF SyncBegin
  <2> QED
    BY <1>2, <1>3, <1>4, <2>1, <2>2 DEF IInv, Types
<1>6. Control'
  BY <1>1, <1>2, <1>4 DEF IInv, Control, SyncBegin
<1>7. Image'
  BY <1>2, <1>3, <1>4 DEF IInv, Image, Syncing
<1>8. Landed'
  BY <1>2 DEF IInv, Landed, Syncing
<1>9. Ids'
  BY <1>2, <1>3, <1>4, DiskFacts, StampFacts DEF IInv, Ids, Types
<1>10. Parity'
  BY DEF IInv, Parity
<1>11. Newest'
  BY <1>2, <1>3, DiskFacts DEF IInv, Newest, Matches
<1>12. Good'
  <2> SUFFICES ASSUME ~exposed' PROVE Good'
    BY DEF Good
  <2>1. ~exposed /\ ~StaleFooter(serial + 1)
    BY DEF SyncBegin
  <2>2. ~Open /\ serial = disk[Choice][0].serial /\ Choice \in Copies /\ Choice = Target(serial)
    BY <2>1 DEF IInv, Good, Open
  <2>3. Choice = 1 - Target(serial + 1)
    BY <1>3, <2>2, TargetFacts
  <2> QED
    BY <1>1, <1>2, <2>1, <2>3 DEF IInv, Good, Open, Whole, StaleFooter, Target
<1> QED
  BY <1>5, <1>6, <1>7, <1>8, <1>9, <1>10, <1>11, <1>12 DEF IInv

(* Steps of the running volume that leave all of this alone.                 *)
LEMMA QuietKeeps ==
  ASSUME IInv, dirty' \in BOOLEAN,
         UNCHANGED <<st, serial, waiting, inprog, syncvars, raw, wpos, disk, snaps, exposed>>
  PROVE  IInv'
<1>1. Choice' = Choice
  BY SameChoice
<1>2. Types' /\ Control'
  BY <1>1 DEF IInv, Types, Control, syncvars
<1>3. Image' /\ Landed' /\ Ids' /\ Parity' /\ Newest'
  BY <1>1 DEF IInv, Image, Syncing, Landed, Ids, Parity, Newest, Matches, syncvars
<1>4. Good'
  BY <1>1 DEF IInv, Good, Open, Whole, StaleFooter, syncvars
<1> QED
  BY <1>2, <1>3, <1>4 DEF IInv

\* Changes of the directory and aggregation writes; the end of one may begin a sync.
LEMMA AggKeeps ==
  ASSUME IInv, DirChange \/ AggCopy \/ AggWrite \/ AggWriteDone PROVE IInv'
<1>1. CASE DirChange \/ AggCopy \/ AggWrite
  BY <1>1, QuietKeeps DEF IInv, Types, DirChange, AggCopy, AggWrite
<1>2. CASE AggWriteDone /\ waiting
  <2>1. SyncBegin /\ st = "up" /\ waiting' = FALSE /\ UNCHANGED <<st, raw, wpos, disk>>
    BY <1>2 DEF AggWriteDone
  <2>2. writepos = 0
    BY <1>2 DEF IInv, Control
  <2> QED
    BY <2>1, <2>2, SyncBeginKeeps
<1>3. CASE AggWriteDone /\ ~waiting
  <2>1. UNCHANGED <<st, serial, dirty, inprog, syncvars, raw, wpos, disk, snaps, exposed>> /\ waiting' = FALSE
    BY <1>3 DEF AggWriteDone
  <2>2. waiting' = waiting /\ dirty' \in BOOLEAN
    BY <1>3, <2>1 DEF IInv, Types
  <2> QED
    BY <2>1, <2>2, QuietKeeps
<1> QED
  BY <1>1, <1>2, <1>3

\* CacheSync begins on its own trigger.
LEMMA SyncStartKeeps ==
  ASSUME IInv, SyncStart PROVE IInv'
<1>1. waiting' = FALSE
  BY DEF IInv, Types, Control, SyncStart, aggvars
<1> QED
  BY <1>1, SyncBeginKeeps DEF SyncStart

\* CacheSync leaves it to the aggregation write under way to call it.
LEMMA SyncParkKeeps ==
  ASSUME IInv, SyncPark PROVE IInv'
<1> USE Numbers
<1>1. Choice' = Choice
  BY SameChoice DEF SyncPark
<1>2. Types' /\ Control'
  BY <1>1 DEF IInv, Types, Control, SyncPark
<1>3. Image' /\ Landed' /\ Ids' /\ Parity' /\ Newest'
  BY DEF IInv, Image, Syncing, Landed, Ids, Parity, Newest, Matches, SyncPark
<1>4. Good'
  BY <1>1 DEF IInv, Good, Open, Whole, StaleFooter, SyncPark
<1> QED
  BY <1>2, <1>3, <1>4 DEF IInv

\* CacheSync issues the write of the next piece.
LEMMA SyncWriteKeeps ==
  ASSUME IInv, SyncWrite PROVE IInv'
<1> USE Numbers
<1>1. Choice' = Choice
  BY SameChoice DEF SyncWrite
<1>2. writepos \in 1..Footer /\ writepos' \in 0..Footer + 1 /\ writepos' - 1 = writepos /\ writepos' # 0
  BY DEF IInv, Types, SyncWrite
<1>3. Types' /\ Control'
  BY <1>1, <1>2 DEF IInv, Types, Control, SyncWrite, aggvars
<1>4. Image'
  BY <1>2 DEF IInv, Image, Syncing, SyncWrite
<1>8. Ids' /\ Parity' /\ Newest'
  BY DEF IInv, Ids, Parity, Newest, Matches, SyncWrite
<1>5. Landed'
  BY <1>2 DEF IInv, Landed, Syncing, SyncWrite
<1>6. Open
  BY <1>2 DEF Open, SyncWrite
<1>7. Good'
  BY <1>1, <1>2, <1>6 DEF IInv, Good, Open, Whole, StaleFooter, SyncWrite
<1> QED
  BY <1>3, <1>4, <1>5, <1>7, <1>8 DEF IInv

\* CacheSync is done with the volume.
LEMMA SyncFinishKeeps ==
  ASSUME IInv, SyncFinish PROVE IInv'
<1> USE Numbers
<1>1. Choice' = Choice
  BY SameChoice DEF SyncFinish
<1>2. Types'
  <2>1. writepos' \in 0..Footer + 1
    BY DEF SyncFinish
  <2> QED
    BY <2>1 DEF IInv, Types, SyncFinish, aggvars
<1>6. Control'
  BY <1>1 DEF IInv, Control, SyncFinish, aggvars
<1>3. Image' /\ Landed' /\ Ids' /\ Parity' /\ Newest'
  BY DEF IInv, Image, Syncing, Landed, Ids, Parity, Newest, Matches, SyncFinish
<1>4. ~Open /\ ~Open'
  BY DEF Open, SyncFinish
<1>5. Good'
  BY <1>1, <1>4 DEF IInv, Good, Whole, StaleFooter, SyncFinish
<1> QED
  BY <1>2, <1>3, <1>5, <1>6 DEF IInv

-----------------------------------------------------------------------------
(* Writes that reach the disk                                                *)

(* What any write of a stamp of the right parity preserves.                  *)
LEMMA PutParts ==
  ASSUME IInv, NEW c \in Copies, NEW p \in Pieces, NEW s \in Stamp, Put(c, p, s),
         s.id <= snaps, s.serial = 0 \/ Target(s.serial) = c, UNCHANGED <<buf, raw, snaps>>
  PROVE  disk' \in [Copies -> [Pieces -> Stamp]] /\ Ids' /\ Parity'
<1>1. /\ disk' \in [Copies -> [Pieces -> Stamp]]
      /\ \A d \in Copies, q \in Pieces : disk'[d][q] = IF d = c /\ q = p THEN s ELSE disk[d][q]
  BY PutEffect DEF IInv, Types
<1>2. Ids'
  BY <1>1 DEF IInv, Ids
<1>3. Parity'
  BY <1>1, Numbers DEF IInv, Parity
<1> QED
  BY <1>1, <1>2, <1>3

(* A write with the serial of the directory in memory makes no copy newer.   *)
LEMMA PutNewest ==
  ASSUME IInv, NEW c \in Copies, NEW p \in Pieces, NEW s \in Stamp, Put(c, p, s),
         s.serial = serial, serial' = serial,
         st \in {"scan", "rewrite", "up", "stopping", "stopped"}
  PROVE  Newest'
<1> USE Numbers
<1>1. \A d \in Copies, q \in Pieces : disk'[d][q] = IF d = c /\ q = p THEN s ELSE disk[d][q]
  BY PutEffect DEF IInv, Types
<1>2. \A d \in Copies : Matches(d) => disk[d][0].serial <= serial
  BY DEF IInv, Newest
<1>3. serial \in Nat
  BY DEF IInv, Types
<1>4. \A d \in Copies : disk'[d][0].serial = disk'[d][Footer].serial => disk'[d][0].serial <= serial'
  BY <1>1, <1>2, <1>3 DEF Matches
<1> QED
  BY <1>4 DEF Newest, Matches

(* A write that did not complete.                                            *)
LEMMA PutPartKeeps ==
  ASSUME IInv, NEW c \in Copies, NEW p, PutPart(c, p)
  PROVE  /\ disk' \in [Copies -> [Pieces -> Stamp]]
         /\ Choice' = Choice
         /\ \A d \in Copies : disk'[d][0] = disk[d][0] /\ disk'[d][Footer] = disk[d][Footer]
         /\ \A d \in Copies, q \in Pieces : disk'[d][q] = disk[d][q] \/ (d = c /\ disk'[d][q] = Torn)
<1>1. CASE UNCHANGED disk
  BY <1>1, SameChoice DEF IInv, Types
<1>2. CASE p \in 1..NBody /\ Put(c, p, Torn)
  <2>1. p \in Pieces
    BY <1>2, DirConstants DEF Pieces, Footer
  <2>2. Torn \in Stamp /\ disk \in [Copies -> [Pieces -> Stamp]]
    BY StampFacts DEF IInv, Types
  <2> QED
    BY <1>2, <2>1, <2>2, PutEffect, BodyPut
<1> QED
  BY <1>1, <1>2 DEF PutPart

\* A write that did not complete puts nothing newer on the disk.
LEMMA PutPartParts ==
  ASSUME IInv, NEW c \in Copies, NEW p, PutPart(c, p), snaps' = snaps,
         buf'.id <= snaps, raw'.id <= snaps
  PROVE  Ids' /\ Parity' /\ (serial' = serial /\ st \in {"scan", "rewrite", "up", "stopping", "stopped"} => Newest')
<1> USE Numbers
<1>1. /\ \A d \in Copies : disk'[d][0] = disk[d][0] /\ disk'[d][Footer] = disk[d][Footer]
      /\ \A d \in Copies, q \in Pieces : disk'[d][q] = disk[d][q] \/ (d = c /\ disk'[d][q] = Torn)
  BY PutPartKeeps
<1>2. Torn.id = 0 /\ snaps \in Nat
  BY DEF Torn, Blank, IInv, Types
<1>3. Ids'
  BY <1>1, <1>2 DEF IInv, Ids
<1>4. Parity'
  BY <1>1 DEF IInv, Parity
<1>5. serial' = serial /\ st \in {"scan", "rewrite", "up", "stopping", "stopped"} => Newest'
  BY <1>1 DEF IInv, Newest, Matches
<1> QED
  BY <1>3, <1>4, <1>5

(* The copy that is not the target is older than memory.                     *)
LEMMA OtherIsOlder ==
  ASSUME IInv, NEW c \in Copies, c = Target(serial), Matches(1 - c),
         st \in {"scan", "rewrite", "up", "stopping", "stopped"}
  PROVE  disk[1 - c][0].serial < serial \/ (c = 0 /\ disk[1 - c][0].serial <= serial)
<1> USE Numbers
<1>1. serial \in Nat /\ 1 - c \in Copies /\ disk[1 - c][0].serial \in Nat
  BY DiskFacts DEF IInv, Types
<1>2. disk[1 - c][0].serial <= serial
  BY <1>1 DEF IInv, Newest
<1>3. disk[1 - c][0].serial = 0 \/ Target(disk[1 - c][0].serial) = 1 - c
  BY <1>1 DEF IInv, Parity
<1>4. CASE c = 1
  <2>1. Target(0) = 0 /\ Target(serial) = 1
    BY <1>4, TargetFacts
  <2>2. disk[1 - c][0].serial # serial
    BY <1>3, <1>4, <2>1
  <2> QED
    BY <1>1, <1>2, <2>2
<1> QED
  BY <1>2, <1>4

(* A piece of a directory with memory's serial reaches the target: before    *)
(* the footer the choice stays, with the footer it changes.                  *)
LEMMA LandEffect ==
  ASSUME IInv, NEW c \in Copies, c = Target(serial), NEW p \in Pieces, NEW s \in Stamp,
         Put(c, p, s), s.serial = serial,
         st \in {"rewrite", "up", "stopping", "stopped"},
         \A q \in Pieces : q < p => disk[c][q] = s
  PROVE  /\ p = Footer => /\ Choice' = c /\ Whole(c)' /\ disk'[c][0] = s /\ Loadable' = s.id
         /\ p # Footer /\ ~exposed /\ Open =>
              /\ Choice' = Choice /\ Choice = 1 - c /\ disk'[1 - c] = disk[1 - c]
              /\ disk'[c][Footer] = disk[c][Footer] /\ Loadable' = Loadable
<1> USE Numbers
<1>1. disk \in [Copies -> [Pieces -> Stamp]]
  BY DEF IInv, Types
<1>2. ASSUME p = Footer
      PROVE  Choice' = c /\ Whole(c)' /\ disk'[c][0] = s /\ Loadable' = s.id
  <2>1. Matches(1 - c) => disk[1 - c][0].serial < s.serial \/ (c = 0 /\ disk[1 - c][0].serial <= s.serial)
    BY OtherIsOlder
  <2> QED
    BY <1>1, <1>2, <2>1, FooterCommits
<1>3. ASSUME p # Footer, ~exposed, Open
      PROVE  /\ Choice' = Choice /\ Choice = 1 - c /\ disk'[1 - c] = disk[1 - c]
             /\ disk'[c][Footer] = disk[c][Footer] /\ Loadable' = Loadable
  <2>1. Choice = 1 - c /\ Whole(1 - c) /\ disk[c][Footer].serial # s.serial
    BY <1>3 DEF IInv, Good, StaleFooter
  <2>2. p # 0 => disk[c][0] = s
    <3>1. p # 0 => 0 < p
      OBVIOUS
    <3> QED
      BY <3>1
  <2>3. Choice' = 1 - c /\ Whole(1 - c)' /\ disk'[1 - c] = disk[1 - c] /\ disk'[c][Footer] = disk[c][Footer]
    BY <1>1, <1>3, <2>1, <2>2, WriteKeeps
  <2>4. Loadable' = Loadable
    BY <2>1, <2>3 DEF Loadable
  <2> QED
    BY <2>1, <2>3, <2>4
<1> QED
  BY <1>2, <1>3

\* What CacheSync writes, and where, when its write completes.
LEMMA SyncLandFacts ==
  ASSUME IInv, SyncLand
  PROVE  /\ Target(serial) \in Copies /\ writepos - 1 \in Pieces /\ buf \in Stamp
         /\ Put(Target(serial), writepos - 1, buf) /\ buf.serial = serial /\ buf.id <= snaps
         /\ Syncing => \A q \in Pieces : q < writepos - 1 => disk[Target(serial)][q] = buf
         /\ ~exposed => Syncing /\ Open
<1> USE Numbers
<1>1. writepos # 0 /\ writepos \in 0..Footer + 1 /\ serial \in Nat /\ buf \in Stamp
  BY DEF IInv, Types, Control, SyncLand
<1>2. Target(serial) \in Copies /\ writepos - 1 \in Pieces
  BY <1>1, TargetFacts
<1>3. ~exposed => Syncing /\ Open
  BY <1>1 DEF IInv, Good, Syncing, Open, SyncLand
<1> QED
  BY <1>1, <1>2, <1>3 DEF IInv, Control, Ids, Landed, SyncLand

\* A write of CacheSync completes: with the footer its copy becomes the chosen one.
LEMMA SyncLandKeeps ==
  ASSUME IInv, SyncLand PROVE IInv'
<1> USE Numbers
<1> DEFINE p == writepos - 1
<1>c. PICK c \in Copies : c = Target(serial)
  BY SyncLandFacts
<1>0. /\ c = Target(serial) /\ p \in Pieces /\ buf \in Stamp
      /\ Put(c, p, buf) /\ buf.serial = serial /\ buf.id <= snaps
      /\ Syncing => \A q \in Pieces : q < p => disk[c][q] = buf
      /\ ~exposed => Syncing /\ Open
  BY <1>c, SyncLandFacts
<1>1. writepos # 0 /\ writepos \in 0..Footer + 1 /\ serial \in Nat /\ p + 1 = writepos
  BY DEF IInv, Types, Control, SyncLand
<1>2. /\ st \in {"up", "stopping", "stopped"} /\ cs = "io" /\ cs' = "timer"
      /\ exposed' = (exposed /\ ~(st = "up" /\ p = Footer))
      /\ UNCHANGED <<st, serial, dirty, waiting, inprog, writepos, buf, raw, wpos, snaps>>
  BY DEF SyncLand, aggvars
<1>3. disk' \in [Copies -> [Pieces -> Stamp]] /\ Ids' /\ Parity'
  BY <1>0, <1>2, PutParts
<1>4. Types'
  BY <1>2, <1>3 DEF IInv, Types
<1>5. Control'
  BY <1>2 DEF IInv, Control
<1>6. Image'
  BY <1>2 DEF IInv, Image, Syncing
<1>7. Landed'
  <2>1. Syncing' => Syncing /\ st = "up"
    BY <1>2 DEF Syncing
  <2>2. \A q \in Pieces : disk'[c][q] = IF q = p THEN buf ELSE disk[c][q]
    BY <1>0, PutEffect DEF IInv, Types
  <2>3. \A q \in Pieces : q < writepos => q = p \/ q < p
    BY <1>1
  <2>4. Syncing' => \A q \in Pieces : q < writepos => disk'[c][q] = buf
    BY <1>0, <2>1, <2>2, <2>3
  <2>5. ~(st = "stopping" /\ ~exposed')
    BY <1>2 DEF IInv, Good
  <2> QED
    BY <1>0, <1>2, <2>4, <2>5 DEF Landed
<1>8. Newest'
  BY <1>0, <1>2, PutNewest
<1>9. Good'
  <2> SUFFICES ASSUME ~exposed' PROVE Good'
    BY DEF Good
  <2>1. Syncing
    BY <1>0, <1>1, <1>2 DEF Syncing
  <2>2. CASE p = Footer
    <3>1. Choice' = c /\ Whole(c)' /\ disk'[c][0] = buf
      BY <1>0, <1>2, <2>1, <2>2, LandEffect
    <3>2. ~Open' /\ st # "stopping"
      BY <1>1, <1>2, <2>1, <2>2 DEF Open, Syncing
    <3> QED
      BY <1>0, <1>1, <1>2, <3>1, <3>2 DEF Good
  <2>3. CASE p # Footer
    <3>1. ~exposed
      BY <1>2, <2>3
    <3>2. /\ Choice' = Choice /\ Choice = 1 - c /\ disk'[1 - c] = disk[1 - c]
          /\ disk'[c][Footer] = disk[c][Footer]
      <4>1. Open /\ \A q \in Pieces : q < p => disk[c][q] = buf
        BY <1>0, <2>1, <3>1
      <4>2. st \in {"rewrite", "up", "stopping", "stopped"}
        BY <1>2
      <4> HIDE DEF p
      <4> QED
        BY <1>c, <1>0, <2>3, <3>1, <4>1, <4>2, LandEffect
    <3>3. st = "up" => Open'
      BY <1>1, <1>2, <2>3 DEF Open
    <3>4. Whole(Choice) /\ Choice = Target(disk[Choice][0].serial) /\ ~StaleFooter(serial) /\ st # "stopping" /\ 1 - c \in Copies
      BY <1>0, <1>2, <3>1 DEF IInv, Good
    <3> QED
      BY <1>0, <1>1, <1>2, <3>2, <3>3, <3>4 DEF Good, StaleFooter, Whole
  <2> QED
    BY <2>2, <2>3
<1> QED
  BY <1>3, <1>4, <1>5, <1>6, <1>7, <1>8, <1>9 DEF IInv

\* A write of CacheSync fails.
LEMMA SyncErrorKeeps ==
  ASSUME IInv, SyncError PROVE IInv'
<1> USE Numbers
<1>1. /\ st \in {"up", "stopping", "stopped"} /\ cs = "io" /\ cs' = "timer" /\ writepos' = 0
      /\ exposed' = TRUE /\ PutPart(Target(serial), writepos - 1)
      /\ UNCHANGED <<st, serial, dirty, waiting, inprog, buf, raw, wpos, snaps>>
  BY DEF SyncError, aggvars
<1>2. Target(serial) \in Copies
  BY TargetFacts DEF IInv, Types
<1>3. disk' \in [Copies -> [Pieces -> Stamp]]
  BY <1>1, <1>2, PutPartKeeps
<1>4. Ids' /\ Parity' /\ Newest'
  BY <1>1, <1>2, PutPartParts DEF IInv, Ids
<1>5. Types'
  <2>1. writepos' \in 0..Footer + 1
    BY <1>1
  <2> QED
    BY <1>1, <1>3, <2>1 DEF IInv, Types
<1>6. Control' /\ Image' /\ Landed' /\ Good'
  BY <1>1 DEF IInv, Control, Image, Landed, Syncing, Good
<1> QED
  BY <1>4, <1>5, <1>6 DEF IInv

-----------------------------------------------------------------------------
(* Shutdown                                                                  *)

\* A shutdown takes its own image of the directory.
LEMMA ShutdownKeeps ==
  ASSUME IInv, Shutdown PROVE IInv'
<1> USE Numbers
<1>1. Choice' = Choice /\ disk' = disk /\ st = "up"
  BY SameChoice DEF Shutdown
<1>2. CASE st' = "stopped" /\ UNCHANGED <<serial, waiting, raw, wpos, snaps, exposed, dirty, inprog, syncvars>>
  <2>1. Types' /\ Control'
    BY <1>1, <1>2 DEF IInv, Types, Control, States, syncvars
  <2>2. Syncing' => Syncing
    BY <1>1, <1>2 DEF Syncing, syncvars
  <2>3. Image' /\ Landed'
    BY <1>1, <1>2, <2>2 DEF IInv, Image, Landed, syncvars
  <2>4. Ids' /\ Parity' /\ Newest'
    BY <1>1, <1>2 DEF IInv, Ids, Parity, Newest, Matches, syncvars
  <2>5. Open' => Open
    BY <1>1, <1>2 DEF IInv, Control, Open, syncvars
  <2>6. Good'
    BY <1>1, <1>2, <2>5 DEF IInv, Good, Whole, StaleFooter, syncvars
  <2> QED
    BY <2>1, <2>3, <2>4, <2>6 DEF IInv
<1>3. CASE /\ st' = "stopping" /\ serial' = (IF inprog THEN serial ELSE serial + 1)
           /\ snaps' = snaps + 1 /\ raw' = [id |-> snaps + 1, serial |-> serial'] /\ wpos' = 0
           /\ exposed' = (exposed \/ cs = "io" \/ StaleFooter(serial'))
           /\ UNCHANGED <<waiting, dirty, inprog, syncvars>>
  <2>1. serial \in Nat /\ snaps \in Nat /\ serial' \in Nat /\ snaps' \in Nat /\ serial' >= serial
    BY <1>3 DEF IInv, Types
  <2>2. raw' \in Stamp /\ raw'.id = snaps' /\ raw'.serial = serial'
    BY <1>3, <2>1, StampFacts
  <2>3. exposed' \in BOOLEAN
    BY <1>3 DEF StaleFooter
  <2>4. Types'
    <3>1. wpos' \in 0..Footer + 1 /\ st' \in States
      BY <1>3 DEF States
    <3> QED
      BY <1>1, <1>3, <2>1, <2>2, <2>3, <3>1 DEF IInv, Types, syncvars
  <2>5. Control'
    BY <1>1, <1>3 DEF IInv, Control, syncvars
  <2>6. Image' /\ Landed'
    BY <1>3, <2>1, <2>2 DEF Image, Landed, Syncing
  <2>7. Ids'
    BY <1>1, <1>3, <2>1, <2>2, DiskFacts, StampFacts DEF IInv, Types, Ids, syncvars
  <2>8. Parity'
    BY <1>1 DEF IInv, Parity
  <2>9. Newest'
    BY <1>1, <2>1, DiskFacts DEF IInv, Newest, Matches
  <2>10. Good'
    <3> SUFFICES ASSUME ~exposed' PROVE Good'
      BY DEF Good
    <3>1. ~exposed /\ cs # "io" /\ ~StaleFooter(serial')
      BY <1>3
    <3>2. Choice \in Copies /\ Whole(Choice) /\ Choice = Target(disk[Choice][0].serial)
      BY <3>1 DEF IInv, Good
    <3>3. ~Open => serial = disk[Choice][0].serial /\ Choice = Target(serial)
      BY <1>1, <3>1 DEF IInv, Good
    <3>4. CASE inprog
      <4>1. serial' = serial
        BY <1>3, <3>4
      <4>2. Open
        <5> SUFFICES ASSUME ~Open PROVE FALSE
          OBVIOUS
        <5>1. disk[Choice][Footer].serial = serial
          BY <3>2, <3>3 DEF Whole
        <5> QED
          BY <3>1, <3>3, <4>1, <5>1 DEF StaleFooter
      <4> QED
        BY <1>1, <1>3, <3>1, <3>2, <4>1, <4>2 DEF IInv, Good, Open, Whole, StaleFooter, syncvars
    <3>5. CASE ~inprog
      <4>1. ~Open /\ serial' = serial + 1
        BY <1>1, <1>3, <3>5 DEF IInv, Control, Open
      <4>2. Choice = 1 - Target(serial')
        BY <2>1, <3>2, <3>3, <4>1, TargetFacts
      <4> QED
        BY <1>1, <1>3, <3>1, <3>2, <4>2 DEF IInv, Good, Open, Whole, StaleFooter, syncvars
    <3> QED
      BY <3>4, <3>5
  <2> QED
    BY <2>4, <2>5, <2>6, <2>7, <2>8, <2>9, <2>10 DEF IInv
<1> QED
  BY <1>2, <1>3 DEF Shutdown, aggvars

\* What the volume itself writes, and where.
LEMMA ShutdownLandFacts ==
  ASSUME IInv, st \in {"stopping", "rewrite"}
  PROVE  /\ Target(serial) \in Copies /\ wpos \in Pieces /\ raw \in Stamp /\ serial \in Nat
         /\ raw.serial = serial /\ raw.id = snaps
         /\ st = "rewrite" \/ ~exposed => \A q \in Pieces : q < wpos => disk[Target(serial)][q] = raw
         /\ Open
BY Numbers, TargetFacts DEF IInv, Types, Control, Image, Landed, Open

\* A write of the shutdown completes.
LEMMA ShutdownLandKeeps ==
  ASSUME IInv, ShutdownLand PROVE IInv'
<1> USE Numbers
<1>1. /\ st = "stopping" /\ Put(Target(serial), wpos, raw) /\ wpos' = wpos + 1
      /\ st' = (IF wpos = Footer THEN "stopped" ELSE st)
      /\ UNCHANGED <<serial, dirty, waiting, inprog, cs, writepos, buf, raw, snaps, exposed>>
  BY DEF ShutdownLand, aggvars, syncvars
<1>2. PICK c \in Copies : c = Target(serial)
  BY <1>1, ShutdownLandFacts
<1>3. /\ wpos \in Pieces /\ raw \in Stamp /\ serial \in Nat /\ raw.serial = serial /\ raw.id = snaps
      /\ ~exposed => \A q \in Pieces : q < wpos => disk[c][q] = raw
      /\ Open /\ Put(c, wpos, raw) /\ raw.id <= snaps
  BY <1>1, <1>2, ShutdownLandFacts DEF IInv, Ids
<1>4. disk' \in [Copies -> [Pieces -> Stamp]] /\ Ids' /\ Parity'
  BY <1>1, <1>2, <1>3, PutParts
<1>0. wpos \in Nat /\ wpos <= Footer /\ wpos' = wpos + 1
  BY <1>1, <1>3
<1>5. Types'
  <2>1. wpos' \in 0..Footer + 1
    BY <1>0
  <2>2. st' \in States
    BY <1>1 DEF States
  <2> QED
    BY <1>1, <1>4, <2>1, <2>2 DEF IInv, Types
<1>6. wpos # Footer => wpos' <= Footer
  BY <1>0
<1>7. Control'
  BY <1>1, <1>6 DEF IInv, Control
<1>8. Image'
  BY <1>1 DEF IInv, Image, Syncing, Good
<1>9. Landed'
  <2>1. \A q \in Pieces : disk'[c][q] = IF q = wpos THEN raw ELSE disk[c][q]
    BY <1>3, PutEffect DEF IInv, Types
  <2>2. \A q \in Pieces : q < wpos' => q = wpos \/ q < wpos
    BY <1>0
  <2>3. ~exposed => \A q \in Pieces : q < wpos' => disk'[c][q] = raw
    BY <1>3, <2>1, <2>2
  <2>4. ~Syncing'
    BY <1>1 DEF IInv, Good, Syncing
  <2> QED
    BY <1>1, <1>2, <2>3, <2>4 DEF Landed
<1>10. Newest'
  <2>1. Put(c, wpos, raw) /\ serial' = serial /\ st \in {"scan", "rewrite", "up", "stopping", "stopped"}
    BY <1>1, <1>3
  <2> QED
    BY <1>3, <2>1, PutNewest
<1>11. Good'
  <2> SUFFICES ASSUME ~exposed PROVE Good'
    BY <1>1 DEF Good
  <2>1. st \in {"rewrite", "up", "stopping", "stopped"} /\ \A q \in Pieces : q < wpos => disk[c][q] = raw
    BY <1>1, <1>3
  <2>2. cs # "io"
    BY <1>1 DEF IInv, Good
  <2>3. CASE wpos = Footer
    <3>1. Choice' = c /\ Whole(c)' /\ disk'[c][0] = raw
      BY <1>2, <1>3, <2>1, <2>3, LandEffect
    <3> QED
      BY <1>1, <1>2, <1>3, <2>2, <2>3, <3>1 DEF Good, Open
  <2>4. CASE wpos # Footer
    <3>1. /\ Choice' = Choice /\ Choice = 1 - c /\ disk'[1 - c] = disk[1 - c]
          /\ disk'[c][Footer] = disk[c][Footer]
      BY <1>2, <1>3, <2>1, <2>4, LandEffect
    <3>2. Whole(Choice) /\ Choice = Target(disk[Choice][0].serial) /\ ~StaleFooter(serial) /\ 1 - c \in Copies
      BY <1>3 DEF IInv, Good
    <3> QED
      BY <1>1, <1>2, <2>2, <2>4, <3>1, <3>2 DEF Good, StaleFooter, Whole
  <2> QED
    BY <2>3, <2>4
<1> QED
  BY <1>4, <1>5, <1>7, <1>8, <1>9, <1>10, <1>11 DEF IInv

-----------------------------------------------------------------------------
(* Crash and restart                                                         *)

\* The process ends; the disk keeps all but what was being written.
LEMMA ForgetKeeps ==
  ASSUME IInv, Forget, disk' \in [Copies -> [Pieces -> Stamp]], Choice' = Choice,
         \A d \in Copies, q \in Pieces : disk'[d][q] = disk[d][q] \/ disk'[d][q] = Torn,
         \A d \in Copies : disk'[d][0] = disk[d][0] /\ disk'[d][Footer] = disk[d][Footer],
         ~exposed => \A q \in Pieces : disk'[Choice][q] = disk[Choice][q]
  PROVE  IInv'
<1> USE Numbers
<1>1. /\ st' = "down" /\ serial' = 0 /\ dirty' = FALSE /\ waiting' = FALSE /\ inprog' = FALSE
      /\ cs' = "timer" /\ writepos' = 0 /\ wpos' = 0 /\ buf' = Blank /\ raw' = Blank
      /\ snaps' = snaps /\ exposed' = exposed
  BY DEF Forget
<1>2. Types'
  <2>1. writepos' \in 0..Footer + 1 /\ wpos' \in 0..Footer + 1 /\ st' \in States /\ serial' \in Nat
    BY <1>1 DEF States
  <2> QED
    BY <1>1, <2>1, StampFacts DEF IInv, Types
<1>3. Control' /\ Image' /\ Landed' /\ Newest'
  BY <1>1 DEF Control, Image, Landed, Newest, Syncing
<1>4. Ids'
  <2>1. Blank.id = 0 /\ Torn.id = 0 /\ snaps \in Nat
    BY DEF Blank, Torn, IInv, Types
  <2> QED
    BY <1>1, <2>1 DEF IInv, Ids
<1>5. Parity'
  BY DEF IInv, Parity
<1>6. Good'
  BY <1>1 DEF IInv, Good, Open, Whole
<1> QED
  BY <1>2, <1>3, <1>4, <1>5, <1>6 DEF IInv

\* The process ends after the writes of its shutdown.
LEMMA ExitKeeps ==
  ASSUME IInv, Exit PROVE IInv'
<1>1. disk' = disk /\ Choice' = Choice
  BY SameChoice DEF Exit
<1> QED
  BY <1>1, ForgetKeeps DEF Exit, IInv, Types

(* The copy that a crash may tear is not the chosen one.                     *)
LEMMA CrashFacts ==
  ASSUME IInv, Crash
  PROVE  /\ disk' \in [Copies -> [Pieces -> Stamp]] /\ Choice' = Choice
         /\ \A d \in Copies, q \in Pieces : disk'[d][q] = disk[d][q] \/ disk'[d][q] = Torn
         /\ \A d \in Copies : disk'[d][0] = disk[d][0] /\ disk'[d][Footer] = disk[d][Footer]
         /\ ~exposed => \A q \in Pieces : disk'[Choice][q] = disk[Choice][q]
<1> USE Numbers
<1>1. Target(serial) \in Copies
  BY TargetFacts DEF IInv, Types
<1>2. CASE UNCHANGED disk
  BY <1>2, SameChoice DEF IInv, Types, Good
<1>3. ASSUME NEW p, PutPart(Target(serial), p), cs = "io" \/ st \in {"stopping", "rewrite"}
      PROVE  /\ disk' \in [Copies -> [Pieces -> Stamp]] /\ Choice' = Choice
             /\ \A d \in Copies, q \in Pieces : disk'[d][q] = disk[d][q] \/ disk'[d][q] = Torn
             /\ \A d \in Copies : disk'[d][0] = disk[d][0] /\ disk'[d][Footer] = disk[d][Footer]
             /\ ~exposed => \A q \in Pieces : disk'[Choice][q] = disk[Choice][q]
  <2>1. PICK c \in Copies : c = Target(serial)
    BY <1>1
  <2>2. PutPart(c, p)
    BY <1>3, <2>1
  <2>3. /\ disk' \in [Copies -> [Pieces -> Stamp]] /\ Choice' = Choice
        /\ \A d \in Copies : disk'[d][0] = disk[d][0] /\ disk'[d][Footer] = disk[d][Footer]
        /\ \A d \in Copies, q \in Pieces : disk'[d][q] = disk[d][q] \/ (d = c /\ disk'[d][q] = Torn)
    BY <2>2, PutPartKeeps
  <2>4. ~exposed => Open
    BY <1>3 DEF IInv, Control, Good, Open, Crash
  <2>5. ~exposed => Choice \in Copies /\ Choice # c
    BY <2>1, <2>4 DEF IInv, Good
  <2> QED
    BY <2>3, <2>5
<1>4. CASE st = "clear" /\ PutPart(0, wpos)
  <2>1. exposed /\ 0 \in Copies
    BY <1>4 DEF IInv, Control
  <2> QED
    BY <1>4, <2>1, PutPartKeeps
<1> QED
  BY <1>2, <1>3, <1>4 DEF Crash

\* The process ends at any time.
LEMMA CrashKeeps ==
  ASSUME IInv, Crash PROVE IInv'
BY CrashFacts, ForgetKeeps DEF Crash

\* A restart that finds no good copy begins with an empty directory.
LEMMA ClearDirKeeps ==
  ASSUME IInv, ClearDir, st \notin {"up", "stopping", "stopped"} PROVE IInv'
<1> USE Numbers
<1>1. /\ st' = "clear" /\ serial' = 0 /\ dirty' = FALSE /\ snaps' = snaps + 1
      /\ raw' = [id |-> snaps + 1, serial |-> 0] /\ wpos' = 0 /\ exposed' = TRUE
      /\ UNCHANGED <<waiting, inprog, cs, writepos, buf, disk>>
  BY DEF ClearDir, aggvars, syncvars
<1>2. snaps \in Nat /\ snaps' \in Nat /\ serial' \in Nat /\ wpos' \in 0..Footer + 1 /\ st' \in States
  BY <1>1 DEF IInv, Types, States
<1>3. raw' \in Stamp /\ raw'.id = snaps' /\ raw'.serial = serial'
  BY <1>1, <1>2, StampFacts
<1>4. Types'
  BY <1>1, <1>2, <1>3 DEF IInv, Types
<1>5. Control' /\ Good' /\ Newest'
  BY <1>1 DEF IInv, Control, Good, Newest
<1>6. Image' /\ Landed'
  BY <1>1, <1>2, <1>3 DEF IInv, Control, Image, Landed, Syncing
<1>7. Ids'
  BY <1>1, <1>2, <1>3, DiskFacts, StampFacts DEF IInv, Types, Ids
<1>8. Parity'
  BY <1>1 DEF IInv, Parity
<1> QED
  BY <1>4, <1>5, <1>6, <1>7, <1>8 DEF IInv

(* A step of the initialization that only moves on.                          *)
LEMMA MoveOnKeeps ==
  ASSUME IInv, st \notin {"up", "stopping", "stopped"},
         UNCHANGED <<dirty, waiting, inprog, syncvars, raw, wpos, disk, snaps, exposed>>,
         \/ st' = "chosen" /\ serial' = serial /\ Choice \in Copies
         \/ st' = "scan" /\ Choice \in Copies /\ serial' = disk[Choice][0].serial
         \/ st' = "up" /\ st = "scan" /\ serial' = serial
  PROVE  IInv'
<1> USE Numbers
<1>1. Choice' = Choice
  BY SameChoice
<1>2. serial' \in Nat
  BY DiskFacts DEF IInv, Types
<1>3. Types' /\ Control'
  BY <1>1, <1>2 DEF IInv, Types, Control, States, syncvars
<1>4. Image' /\ Landed' /\ Ids' /\ Parity'
  BY DEF IInv, Control, Image, Landed, Ids, Parity, Syncing, syncvars
<1>5. Newest'
  <2>1. CASE st' = "scan"
    <3>1. \A c \in Copies : Matches(c) => disk[c][0].serial <= disk[Choice][0].serial
      BY <2>1, DiskFacts DEF IInv, Choice, Matches
    <3> QED
      BY <2>1, <3>1 DEF Newest, Matches
  <2>2. CASE st' # "scan"
    BY <2>2 DEF IInv, Newest, Matches
  <2> QED
    BY <2>1, <2>2
<1>6. Good'
  BY <1>1 DEF IInv, Control, Good, Open, Whole, StaleFooter, syncvars
<1> QED
  BY <1>3, <1>4, <1>5, <1>6 DEF IInv

\* The headers and footers have been read and a copy is chosen.
LEMMA HandleHeaderReadKeeps ==
  ASSUME IInv, HandleHeaderRead PROVE IInv'
<1>1. CASE ClearDir
  BY <1>1, ClearDirKeeps DEF HandleHeaderRead
<1>2. CASE ~ClearDir
  BY <1>2, MoveOnKeeps DEF HandleHeaderRead, aggvars
<1> QED
  BY <1>1, <1>2

\* The chosen copy has been read.
LEMMA HandleDirReadKeeps ==
  ASSUME IInv, HandleDirRead PROVE IInv'
<1>1. CASE ClearDir
  BY <1>1, ClearDirKeeps DEF HandleDirRead
<1>2. CASE ~ClearDir
  BY <1>2, MoveOnKeeps DEF HandleDirRead, IInv, Control, aggvars
<1> QED
  BY <1>1, <1>2

\* The recovered directory gets the next serial of the other copy's parity.
LEMMA RewriteBeginKeeps ==
  ASSUME IInv, st = "scan", NEW n \in Nat, n > serial, Target(n) = 1 - Target(serial),
         st' = "rewrite", serial' = n, snaps' = snaps + 1, wpos' = 0, dirty' \in BOOLEAN,
         raw' = [id |-> snaps + 1, serial |-> n],
         exposed' = (exposed \/ StaleFooter(n)),
         UNCHANGED <<waiting, inprog, cs, writepos, buf, disk>>
  PROVE  IInv'
<1> USE Numbers
<1>1. Choice' = Choice
  BY SameChoice
<1>2. snaps \in Nat /\ snaps' \in Nat /\ serial \in Nat /\ wpos' \in 0..Footer + 1 /\ st' \in States
  BY DEF IInv, Types, States
<1>3. raw' \in Stamp /\ raw'.id = snaps' /\ raw'.serial = serial'
  BY <1>2, StampFacts
<1>4. exposed' \in BOOLEAN
  BY DEF StaleFooter
<1>5. Types'
  BY <1>2, <1>3, <1>4 DEF IInv, Types
<1>6. Control'
  BY <1>1 DEF IInv, Control
<1>7. Image' /\ Landed'
  BY <1>2, <1>3 DEF IInv, Control, Image, Landed, Syncing
<1>8. Ids'
  BY <1>2, <1>3, DiskFacts, StampFacts DEF IInv, Types, Ids
<1>9. Parity'
  BY DEF IInv, Parity
<1>10. Newest'
  BY <1>2, DiskFacts DEF IInv, Newest, Matches
<1>11. Good'
  <2> SUFFICES ASSUME ~exposed' PROVE Good'
    BY DEF Good
  <2>1. ~exposed /\ ~StaleFooter(n)
    OBVIOUS
  <2>2. Choice \in Copies /\ Whole(Choice) /\ Choice = Target(disk[Choice][0].serial) /\ Choice = Target(serial)
    BY <2>1 DEF IInv, Control, Good
  <2>3. Choice = 1 - Target(n)
    BY <2>2
  <2> QED
    BY <1>1, <2>1, <2>2, <2>3 DEF Good, Whole, StaleFooter
<1> QED
  BY <1>5, <1>6, <1>7, <1>8, <1>9, <1>10, <1>11 DEF IInv

\* The log after the last sync has been scanned.
LEMMA HandleRecoverKeeps ==
  ASSUME IInv, HandleRecover PROVE IInv'
<1>1. CASE ClearDir
  BY <1>1, ClearDirKeeps DEF HandleRecover
<1>2. CASE st' = "up" /\ UNCHANGED <<serial, dirty, aggvars, inprog, syncvars, raw, wpos, disk, snaps, exposed>>
  BY <1>2, MoveOnKeeps DEF HandleRecover, aggvars
<1>3. CASE /\ \E max \in serial..serial + MaxSkip :
                /\ serial' = NextSerial(max)
                /\ raw' = [id |-> snaps + 1, serial |-> NextSerial(max)]
                /\ exposed' = (exposed \/ StaleFooter(NextSerial(max)))
           /\ st' = "rewrite" /\ snaps' = snaps + 1 /\ wpos' = 0 /\ dirty' \in BOOLEAN
           /\ UNCHANGED <<aggvars, inprog, syncvars, disk, used>>
  <2>1. serial \in Nat
    BY DEF IInv, Types
  <2>2. PICK max \in serial..serial + MaxSkip :
                /\ serial' = NextSerial(max)
                /\ raw' = [id |-> snaps + 1, serial |-> NextSerial(max)]
                /\ exposed' = (exposed \/ StaleFooter(NextSerial(max)))
    BY <1>3
  <2>3. max \in Nat /\ max >= serial
    BY <2>1, DirConstants
  <2>4. PICK n \in Nat : n = NextSerial(max) /\ n > serial /\ Target(n) = 1 - Target(serial)
    BY <2>1, <2>3, SerialFacts
  <2> QED
    BY <1>3, <2>2, <2>4, RewriteBeginKeeps DEF HandleRecover, aggvars, syncvars
<1> QED
  BY <1>1, <1>2, <1>3 DEF HandleRecover

\* A write of the recovered directory completes.
LEMMA RewriteLandKeeps ==
  ASSUME IInv, RewriteLand PROVE IInv'
<1> USE Numbers
<1>1. /\ st = "rewrite" /\ Put(Target(serial), wpos, raw) /\ wpos' = wpos + 1
      /\ st' = (IF wpos = Footer THEN "up" ELSE st) /\ exposed' = (exposed /\ wpos # Footer)
      /\ UNCHANGED <<serial, dirty, waiting, inprog, cs, writepos, buf, raw, snaps>>
  BY DEF RewriteLand, aggvars, syncvars
<1>2. PICK c \in Copies : c = Target(serial)
  BY <1>1, ShutdownLandFacts
<1>3. /\ wpos \in Pieces /\ raw \in Stamp /\ serial \in Nat /\ raw.serial = serial /\ raw.id = snaps
      /\ \A q \in Pieces : q < wpos => disk[c][q] = raw
      /\ Open /\ Put(c, wpos, raw) /\ raw.id <= snaps
  BY <1>1, <1>2, ShutdownLandFacts DEF IInv, Ids
<1>4. disk' \in [Copies -> [Pieces -> Stamp]] /\ Ids' /\ Parity'
  BY <1>1, <1>2, <1>3, PutParts
<1>5. wpos \in Nat /\ wpos <= Footer /\ wpos' = wpos + 1
  BY <1>1, <1>3
<1>6. Types'
  <2>1. wpos' \in 0..Footer + 1
    BY <1>5
  <2>2. st' \in States /\ exposed' \in BOOLEAN
    BY <1>1 DEF States
  <2> QED
    BY <1>1, <1>4, <2>1, <2>2 DEF IInv, Types
<1>7. wpos # Footer => wpos' <= Footer
  BY <1>5
<1>8. cs = "timer" /\ writepos = 0 /\ ~inprog
  BY <1>1 DEF IInv, Control
<1>9. Control'
  BY <1>1, <1>7, <1>8 DEF IInv, Control
<1>10. Image'
  BY <1>1, <1>8 DEF IInv, Image, Syncing
<1>11. Landed'
  <2>1. \A q \in Pieces : disk'[c][q] = IF q = wpos THEN raw ELSE disk[c][q]
    BY <1>3, PutEffect DEF IInv, Types
  <2>2. \A q \in Pieces : q < wpos' => q = wpos \/ q < wpos
    BY <1>5
  <2>3. \A q \in Pieces : q < wpos' => disk'[c][q] = raw
    BY <1>3, <2>1, <2>2
  <2> QED
    BY <1>1, <1>2, <1>8, <2>3 DEF Landed, Syncing
<1>12. Newest'
  <2>1. Put(c, wpos, raw) /\ serial' = serial /\ st \in {"scan", "rewrite", "up", "stopping", "stopped"}
    BY <1>1, <1>3
  <2> QED
    BY <1>3, <2>1, PutNewest
<1>13. Good'
  <2>1. st \in {"rewrite", "up", "stopping", "stopped"}
    BY <1>1
  <2>2. CASE wpos = Footer
    <3>1. Choice' = c /\ Whole(c)' /\ disk'[c][0] = raw
      BY <1>2, <1>3, <2>1, <2>2, LandEffect
    <3> QED
      BY <1>1, <1>2, <1>3, <1>8, <2>2, <3>1 DEF Good, Open
  <2>3. CASE wpos # Footer /\ ~exposed
    <3>1. /\ Choice' = Choice /\ Choice = 1 - c /\ disk'[1 - c] = disk[1 - c]
          /\ disk'[c][Footer] = disk[c][Footer]
      BY <1>2, <1>3, <2>1, <2>3, LandEffect, SMTT(30)
    <3>2. Whole(Choice) /\ Choice = Target(disk[Choice][0].serial) /\ ~StaleFooter(serial) /\ 1 - c \in Copies
      BY <1>3, <2>3 DEF IInv, Good
    <3>3. /\ st' = "rewrite" /\ serial' = serial
          /\ disk'[Choice'] = disk[Choice] /\ Choice' = 1 - Target(serial')
      <4>1. st' = "rewrite" /\ serial' = serial
        BY <1>1, <2>3
      <4>2. disk'[Choice'] = disk[Choice] /\ Choice' = 1 - c
        BY <3>1
      <4> QED
        BY <1>2, <4>1, <4>2
    <3>4. Whole(Choice)' /\ Choice' = Target(disk'[Choice'][0].serial) /\ Choice' \in Copies
      BY <3>1, <3>2, <3>3 DEF Whole
    <3>5. ~StaleFooter(serial)'
      BY <1>2, <3>1, <3>2, <3>3 DEF StaleFooter
    <3> QED
      BY <3>3, <3>4, <3>5 DEF Good
  <2>4. CASE wpos # Footer /\ exposed
    BY <1>1, <2>4 DEF Good
  <2> QED
    BY <2>2, <2>3, <2>4
<1> QED
  BY <1>4, <1>6, <1>9, <1>10, <1>11, <1>12, <1>13 DEF IInv

\* A write of the recovered directory fails.
LEMMA RewriteErrorKeeps ==
  ASSUME IInv, RewriteError PROVE IInv'
<1> USE Numbers
<1>1. /\ st = "rewrite" /\ st' = "up" /\ exposed' = TRUE /\ PutPart(Target(serial), wpos)
      /\ UNCHANGED <<serial, dirty, waiting, inprog, cs, writepos, buf, raw, wpos, snaps>>
  BY DEF RewriteError, aggvars, syncvars
<1>2. Target(serial) \in Copies
  BY TargetFacts DEF IInv, Types
<1>3. disk' \in [Copies -> [Pieces -> Stamp]]
  BY <1>1, <1>2, PutPartKeeps
<1>4. Ids' /\ Parity' /\ Newest'
  BY <1>1, <1>2, PutPartParts DEF IInv, Ids
<1>5. Types'
  BY <1>1, <1>3 DEF IInv, Types, States
<1>6. Control' /\ Image' /\ Landed' /\ Good'
  BY <1>1 DEF IInv, Control, Image, Landed, Syncing, Good
<1> QED
  BY <1>4, <1>5, <1>6 DEF IInv

\* A write of the empty directory completes.
LEMMA ClearLandKeeps ==
  ASSUME IInv, ClearLand PROVE IInv'
<1> USE Numbers
<1>1. /\ st = "clear" /\ exposed /\ serial = 0 /\ cs = "timer" /\ writepos = 0 /\ ~inprog
      /\ UNCHANGED <<serial, dirty, waiting, inprog, cs, writepos, buf, raw, snaps>>
  BY DEF ClearLand, IInv, Control, aggvars, syncvars
<1>2. /\ raw \in Stamp /\ raw.serial = 0 /\ raw.id = snaps /\ raw.id <= snaps /\ wpos \in 0..Footer + 1
      /\ raw.serial = serial
      /\ \A q \in Pieces : q < wpos => disk[0][q] = raw
  BY <1>1 DEF IInv, Types, Image, Ids, Landed
<1>3. CASE wpos <= Footer
  <2>1. Put(0, wpos, raw) /\ wpos' = wpos + 1 /\ st' = st /\ exposed' = exposed
    BY <1>2, <1>3 DEF ClearLand
  <2>2. wpos \in Pieces /\ 0 \in Copies /\ wpos' \in 0..Footer + 1
    BY <1>2, <1>3, <2>1
  <2>3. disk' \in [Copies -> [Pieces -> Stamp]] /\ Ids' /\ Parity'
    BY <1>1, <1>2, <2>1, <2>2, PutParts
  <2>4. Types'
    BY <1>1, <2>1, <2>2, <2>3 DEF IInv, Types
  <2>5. Control' /\ Image' /\ Newest' /\ Good'
    BY <1>1, <2>1 DEF IInv, Control, Image, Syncing, Newest, Good
  <2>6. Landed'
    <3>1. \A q \in Pieces : disk'[0][q] = IF q = wpos THEN raw ELSE disk[0][q]
      BY <1>2, <2>1, <2>2, PutEffect DEF IInv, Types
    <3>2. \A q \in Pieces : q < wpos' => q = wpos \/ q < wpos
      <4>1. wpos \in Nat /\ wpos' = wpos + 1
        BY <1>2, <2>1
      <4>2. \A q \in Pieces : q \in Nat
        OBVIOUS
      <4> QED
        BY <4>1, <4>2
    <3>3. \A q \in Pieces : q < wpos' => disk'[0][q] = raw
      BY <1>2, <3>1, <3>2
    <3> QED
      BY <1>1, <2>1, <3>3 DEF Landed, Syncing
  <2> QED
    BY <2>3, <2>4, <2>5, <2>6 DEF IInv
<1>4. CASE wpos = Footer + 1
  <2>1. Put(1, 0, raw) /\ wpos' = wpos /\ st' = "up" /\ exposed' = FALSE
    BY <1>2, <1>4 DEF ClearLand
  <2>2. 1 \in Copies /\ 0 \in Pieces
    OBVIOUS
  <2>3. disk' \in [Copies -> [Pieces -> Stamp]] /\ Ids' /\ Parity'
    BY <1>1, <1>2, <2>1, <2>2, PutParts
  <2>4. Types'
    BY <1>1, <2>1, <2>3 DEF IInv, Types, States
  <2>5. Control' /\ Image' /\ Landed'
    BY <1>1, <2>1 DEF IInv, Control, Image, Landed, Syncing
  <2>6. /\ \A q \in Pieces : disk'[0][q] = raw
        /\ disk'[1][0] = raw
    <3>1. \A q \in Pieces : q < wpos
      BY <1>4
    <3> QED
      BY <1>2, <2>1, <2>2, <3>1, PutEffect DEF IInv, Types
  <2>7. Newest'
    BY <1>1, <1>2, <2>6 DEF Newest, Matches
  <2>8. Choice' = 0
    BY <1>2, <2>6 DEF Choice, Matches
  <2>9. Good'
    BY <1>1, <1>2, <2>1, <2>6, <2>8, TargetFacts DEF Good, Open, Whole
  <2> QED
    BY <2>3, <2>4, <2>5, <2>7, <2>9 DEF IInv
<1> QED
  BY <1>2, <1>3, <1>4

\* A write of the empty directory fails.
LEMMA ClearErrorKeeps ==
  ASSUME IInv, ClearError PROVE IInv'
<1> USE Numbers
<1>1. /\ st = "clear" /\ st' = "bad" /\ exposed /\ exposed' = exposed
      /\ UNCHANGED <<serial, dirty, waiting, inprog, cs, writepos, buf, raw, wpos, snaps>>
  BY DEF ClearError, IInv, Control, aggvars, syncvars
<1>2. disk' \in [Copies -> [Pieces -> Stamp]] /\ Ids' /\ Parity'
  <2>1. CASE PutPart(0, wpos)
    BY <1>1, <2>1, PutPartKeeps, PutPartParts DEF IInv, Ids
  <2>2. CASE Put(1, 0, raw)
    <3>1. raw \in Stamp /\ raw.serial = 0 /\ raw.id <= snaps
      BY <1>1 DEF IInv, Types, Control, Image, Ids
    <3> QED
      BY <1>1, <2>2, <3>1, PutParts
  <2> QED
    BY <2>1, <2>2 DEF ClearError
<1>3. Types'
  BY <1>1, <1>2 DEF IInv, Types, States
<1>4. Control' /\ Image' /\ Landed' /\ Newest' /\ Good'
  BY <1>1 DEF IInv, Control, Image, Landed, Syncing, Newest, Good
<1> QED
  BY <1>2, <1>3, <1>4 DEF IInv

-----------------------------------------------------------------------------
(* The invariant                                                             *)

\* The disk is blank at first and nothing runs.
LEMMA InitHolds == Init => IInv
<1> SUFFICES ASSUME Init PROVE IInv
  OBVIOUS
<1> USE Numbers
<1>1. /\ st = "down" /\ serial = 0 /\ dirty = FALSE /\ waiting = FALSE /\ inprog = FALSE
      /\ cs = "timer" /\ writepos = 0 /\ buf = Blank /\ raw = Blank /\ wpos = 0
      /\ snaps = 0 /\ exposed = FALSE
      /\ disk = [c \in Copies |-> [p \in Pieces |-> Blank]]
  BY DEF Init
<1>2. \A c \in Copies, p \in Pieces : disk[c][p] = Blank
  BY <1>1
<1>3. Blank \in Stamp /\ Blank.id = 0 /\ Blank.serial = 0
  BY StampFacts DEF Blank
<1>4. Types
  <2>1. writepos \in 0..Footer + 1 /\ wpos \in 0..Footer + 1
    BY <1>1
  <2>2. disk \in [Copies -> [Pieces -> Stamp]]
    BY <1>1, <1>3
  <2> QED
    BY <1>1, <1>3, <2>1, <2>2 DEF Types, States
<1>5. Control /\ Image /\ Landed /\ Newest
  BY <1>1 DEF Control, Image, Landed, Newest, Syncing
<1>6. Ids /\ Parity
  BY <1>1, <1>2, <1>3 DEF Ids, Parity
<1>7. Choice = 0
  BY <1>2, <1>3 DEF Choice, Matches
<1>8. Good
  BY <1>1, <1>2, <1>3, <1>7, TargetFacts DEF Good, Open, Whole
<1> QED
  BY <1>4, <1>5, <1>6, <1>8 DEF IInv

\* Every step keeps the invariant.
LEMMA NextKeeps == IInv /\ [Next]_vars => IInv'
<1> SUFFICES ASSUME IInv, [Next]_vars PROVE IInv'
  OBVIOUS
<1>1. CASE DirChange \/ AggCopy \/ AggStep
  BY <1>1, AggKeeps DEF AggStep
<1>2. CASE SyncStep
  BY <1>2, SyncStartKeeps, SyncParkKeeps, SyncWriteKeeps, SyncFinishKeeps, SyncLandKeeps,
     SyncErrorKeeps DEF SyncStep
<1>3. CASE Shutdown \/ ShutdownLand \/ Crash \/ Exit
  BY <1>3, ShutdownKeeps, ShutdownLandKeeps, CrashKeeps, ExitKeeps
<1>4. CASE InitStep
  BY <1>4, HandleHeaderReadKeeps, HandleDirReadKeeps, HandleRecoverKeeps, RewriteLandKeeps,
     RewriteErrorKeeps, ClearLandKeeps, ClearErrorKeeps DEF InitStep
<1>5. CASE UNCHANGED vars
  <2>1. UNCHANGED <<st, serial, waiting, inprog, syncvars, raw, wpos, disk, snaps, exposed, dirty>>
    BY <1>5 DEF vars, syncvars
  <2> QED
    BY <2>1, QuietKeeps DEF IInv, Types
<1> QED
  BY <1>1, <1>2, <1>3, <1>4, <1>5 DEF Next

(* The inductive invariant: which pieces of the image of a sync, a rewrite   *)
(* or a clear are on the disk, and which copy handle_header_read would       *)
(* choose, after any sequence of syncs, errors, crashes and restarts.        *)
THEOREM Invariance == Spec => []IInv
<1>1. Init => IInv
  BY InitHolds
<1>2. IInv /\ [Next]_vars => IInv'
  BY NextKeeps
<1> QED
  BY <1>1, <1>2, PTL DEF Spec

(* "make that the next sync does not overwrite our good copy!"               *)
(* (handle_recover_from_data): unless a fault has suspended it, the copy     *)
(* that is being written is never the one that a restart would choose, and   *)
(* that one is whole.                                                        *)
THEOREM GoodCopyIsKept == Spec => []GoodCopyKept
<1>1. IInv => GoodCopyKept
  <2> SUFFICES ASSUME IInv, ~exposed, NEW c \in Copies, Writing(c)
               PROVE  Choice = 1 - c /\ Whole(1 - c)
    BY DEF GoodCopyKept
  <2>1. c = Target(serial) /\ Open
    BY Numbers DEF Writing, Open, IInv, Types
  <2> QED
    BY <2>1 DEF IInv, Good
<1> QED
  BY <1>1, Invariance, PTL

-----------------------------------------------------------------------------
(* Refinement                                                                *)

StoreStep == [Store!DNext]_<<snaps, Loadable, exposed>>

\* What a restart would load is a directory that was taken, or nothing, ...
LEMMA LoadableType == IInv => Loadable \in 0..snaps
<1> SUFFICES ASSUME IInv PROVE Loadable \in 0..snaps
  OBVIOUS
<1>1. CASE Choice \in Copies /\ Whole(Choice)
  <2>1. disk[Choice][0].id \in Nat /\ disk[Choice][0].id <= snaps /\ snaps \in Nat
    BY <1>1, Numbers, DiskFacts DEF IInv, Types, Ids
  <2> QED
    BY <1>1, <2>1 DEF Loadable
<1>2. CASE ~(Choice \in Copies /\ Whole(Choice))
  BY <1>2 DEF Loadable, IInv, Types
<1> QED
  BY <1>1, <1>2

\* ... after a step too.
LEMMA LoadableTypeNext == IInv' => (Loadable \in 0..snaps)'
BY LoadableType, PTL

(* Before a fault is mended the store promises nothing.                      *)
LEMMA DamageStep ==
  ASSUME IInv, IInv', exposed, exposed', snaps' = snaps PROVE StoreStep
<1>1. Loadable' \in 0..snaps
  BY LoadableTypeNext
<1>2. exposed' = TRUE
  BY DEF IInv, Types
<1> QED
  BY <1>1, <1>2 DEF StoreStep, Store!DNext, Store!Damage

\* A new image of the directory is taken.
LEMMA TakeStep ==
  ASSUME IInv, IInv', snaps' = snaps + 1, exposed => exposed', UNCHANGED disk PROVE StoreStep
<1>1. Loadable' = Loadable
  BY SameChoice
<1>2. exposed' \in {exposed, TRUE}
  BY DEF IInv, Types
<1> QED
  BY <1>1, <1>2 DEF StoreStep, Store!DNext, Store!Take

\* The newest image becomes the one that is loaded.
LEMMA CommitStep ==
  ASSUME IInv, IInv', snaps' = snaps, exposed' => exposed, Loadable' = snaps PROVE StoreStep
<1>1. exposed' \in {exposed, FALSE}
  BY DEF IInv, Types
<1> QED
  BY <1>1 DEF StoreStep, Store!DNext, Store!Commit

\* A fault is noted, and what is loaded stays the same.
LEMMA FaultStep ==
  ASSUME IInv, IInv', snaps' = snaps, exposed', Loadable' = Loadable PROVE StoreStep
<1>1. exposed' = TRUE
  BY DEF IInv, Types
<1> QED
  BY <1>1 DEF StoreStep, Store!DNext, Store!Fault

\* The store does not see a step that leaves the disk alone.
LEMMA IdleStep ==
  ASSUME UNCHANGED <<disk, snaps, exposed>> PROVE StoreStep
BY SameChoice DEF StoreStep

(* A write that did not complete, to the copy that is not chosen.            *)
LEMMA PartStep ==
  ASSUME IInv, IInv', NEW p, PutPart(Target(serial), p), Open, snaps' = snaps,
         exposed' = TRUE, st = "stopping" => cs # "io" \/ exposed
  PROVE  StoreStep
<1> USE Numbers
<1>1. CASE exposed
  BY <1>1, DamageStep
<1>2. CASE ~exposed
  <2>1. PICK c \in Copies : c = Target(serial)
    BY TargetFacts DEF IInv, Types
  <2>2. /\ Choice' = Choice
        /\ \A d \in Copies, q \in Pieces : disk'[d][q] = disk[d][q] \/ (d = c /\ disk'[d][q] = Torn)
    BY <2>1, PutPartKeeps
  <2>3. Choice \in Copies /\ Choice # c
    BY <1>2, <2>1 DEF IInv, Good
  <2>4. \A q \in Pieces : disk'[Choice][q] = disk[Choice][q]
    BY <2>2, <2>3
  <2>5. Loadable' = Loadable
    BY <2>2, <2>4 DEF Loadable, Whole
  <2> QED
    BY <2>5, FaultStep
<1> QED
  BY <1>1, <1>2

\* A crash is a stutter of the store, or damage that a fault allows.
LEMMA CrashStep ==
  ASSUME IInv, IInv', Crash PROVE StoreStep
<1> USE Numbers
<1>1. UNCHANGED <<snaps, exposed>>
  BY DEF Crash, Forget
<1>2. CASE exposed
  BY <1>1, <1>2, DamageStep
<1>3. CASE ~exposed
  <2>1. Choice' = Choice /\ \A q \in Pieces : disk'[Choice][q] = disk[Choice][q]
    BY <1>3, CrashFacts
  <2>2. Loadable' = Loadable
    BY <2>1 DEF Loadable, Whole
  <2> QED
    BY <1>1, <2>2 DEF StoreStep
<1> QED
  BY <1>2, <1>3

\* A write of CacheSync is a stutter, and the one of the footer the commit.
LEMMA SyncLandStep ==
  ASSUME IInv, IInv', SyncLand PROVE StoreStep
<1> USE Numbers
<1> DEFINE p == writepos - 1
<1>c. PICK c \in Copies : c = Target(serial)
  BY SyncLandFacts
<1>0. /\ c = Target(serial) /\ p \in Pieces /\ buf \in Stamp /\ Put(c, p, buf) /\ buf.serial = serial
      /\ Syncing => \A q \in Pieces : q < p => disk[c][q] = buf
      /\ ~exposed => Syncing /\ Open
  BY <1>c, SyncLandFacts
<1>1. /\ st \in {"up", "stopping", "stopped"} /\ cs = "io" /\ snaps' = snaps /\ writepos # 0
      /\ exposed' = (exposed /\ ~(st = "up" /\ p = Footer))
  BY DEF SyncLand, IInv, Control
<1>2. CASE exposed /\ exposed'
  BY <1>1, <1>2, DamageStep
<1>3. CASE ~(exposed /\ exposed') /\ p = Footer
  <2>1. Syncing
    BY <1>0, <1>1, <1>3 DEF Syncing
  <2>2. buf.id = snaps
    BY <2>1 DEF IInv, Image
  <2>3. Loadable' = snaps
    BY <1>c, <1>0, <1>1, <1>3, <2>1, <2>2, LandEffect
  <2> QED
    BY <1>1, <2>3, CommitStep
<1>4. CASE ~exposed /\ p # Footer
  <2>1. Open /\ \A q \in Pieces : q < p => disk[c][q] = buf
    BY <1>0, <1>4
  <2>2. st \in {"rewrite", "up", "stopping", "stopped"}
    BY <1>1
  <2> HIDE DEF p
  <2>3. Loadable' = Loadable
    BY <1>c, <1>0, <1>4, <2>1, <2>2, LandEffect
  <2>4. exposed' = exposed
    BY <1>1, <1>4 DEF IInv, Types
  <2> QED
    BY <1>1, <2>3, <2>4 DEF StoreStep
<1> QED
  BY <1>1, <1>2, <1>3, <1>4

(* A piece of the image that the volume itself writes.                       *)
LEMMA RawLandStep ==
  ASSUME IInv, IInv', st \in {"stopping", "rewrite"}, Put(Target(serial), wpos, raw),
         snaps' = snaps, exposed' => exposed,
         wpos # Footer => exposed' = exposed, st = "stopping" => exposed' = exposed
  PROVE  StoreStep
<1> USE Numbers
<1>1. PICK c \in Copies : c = Target(serial)
  BY ShutdownLandFacts
<1>2. /\ wpos \in Pieces /\ raw \in Stamp /\ raw.serial = serial /\ raw.id = snaps
      /\ st = "rewrite" \/ ~exposed => \A q \in Pieces : q < wpos => disk[c][q] = raw
      /\ Open /\ Put(c, wpos, raw) /\ st \in {"rewrite", "up", "stopping", "stopped"}
  BY <1>1, ShutdownLandFacts
<1>3. CASE exposed /\ exposed'
  BY <1>3, DamageStep
<1>4. CASE ~(exposed /\ exposed') /\ wpos = Footer
  <2>1. \A q \in Pieces : q < wpos => disk[c][q] = raw
    BY <1>2, <1>4
  <2>2. Loadable' = snaps
    BY <1>1, <1>2, <1>4, <2>1, LandEffect
  <2> QED
    BY <2>2, CommitStep
<1>5. CASE ~exposed /\ wpos # Footer
  <2>1. Loadable' = Loadable
    BY <1>1, <1>2, <1>5, LandEffect
  <2> QED
    BY <1>5, <2>1 DEF StoreStep
<1> QED
  BY <1>3, <1>4, <1>5

\* A write of the empty directory, likewise.
LEMMA ClearLandStep ==
  ASSUME IInv, IInv', ClearLand PROVE StoreStep
<1> USE Numbers
<1>1. exposed /\ snaps' = snaps /\ raw \in Stamp /\ raw.id = snaps /\ raw.serial = 0
        /\ wpos \in 0..Footer + 1 /\ st = "clear"
  BY DEF ClearLand, IInv, Control, Image, Types
<1>2. CASE exposed'
  BY <1>1, <1>2, DamageStep
<1>3. CASE ~exposed'
  <2>a. wpos = Footer + 1
    BY <1>1, <1>3 DEF ClearLand
  <2>b. ~(wpos <= Footer) /\ \A q \in Pieces : q < wpos
    BY <2>a
  <2>1. wpos = Footer + 1 /\ Put(1, 0, raw)
    BY <2>a, <2>b DEF ClearLand
  <2>2. \A q \in Pieces : disk[0][q] = raw
    BY <1>1, <2>b DEF IInv, Landed
  <2>3. (\A q \in Pieces : disk'[0][q] = raw) /\ disk'[1][0] = raw
    BY <1>1, <2>1, <2>2, PutEffect DEF IInv, Types
  <2>4. Choice' = 0
    BY <1>1, <2>3 DEF Choice, Matches
  <2>5. Loadable' = snaps
    BY <1>1, <2>3, <2>4 DEF Loadable, Whole
  <2> QED
    BY <1>1, <1>3, <2>5, CommitStep
<1> QED
  BY <1>2, <1>3

\* Every step is a step of the store or a stutter.
LEMMA NextIsStoreStep ==
  ASSUME IInv, IInv', [Next]_vars PROVE StoreStep
<1>1. CASE DirChange \/ AggCopy \/ AggWrite \/ SyncPark \/ SyncWrite \/ SyncFinish \/ Exit \/ UNCHANGED vars
  BY <1>1, IdleStep DEF DirChange, AggCopy, AggWrite, SyncPark, SyncWrite, SyncFinish, Exit, Forget, vars
<1>2. CASE AggWriteDone \/ SyncStart
  BY <1>2, IdleStep, TakeStep DEF AggWriteDone, SyncStart, SyncBegin
<1>3. CASE SyncLand \/ Crash \/ ClearLand
  BY <1>3, SyncLandStep, CrashStep, ClearLandStep
<1>4. CASE SyncError
  <2>1. st \in {"up", "stopping", "stopped"} /\ cs = "io" /\ PutPart(Target(serial), writepos - 1)
          /\ snaps' = snaps /\ exposed' = TRUE
    BY <1>4 DEF SyncError
  <2>2. CASE exposed
    BY <2>1, <2>2, DamageStep
  <2>3. CASE ~exposed
    <3>1. Open
      BY <2>1, <2>3 DEF IInv, Control, Good, Open
    <3> QED
      BY <2>1, <2>3, <3>1, PartStep DEF IInv, Good
  <2> QED
    BY <2>2, <2>3
<1>5. CASE RewriteError
  <2>1. Open /\ PutPart(Target(serial), wpos) /\ snaps' = snaps /\ exposed' = TRUE /\ st = "rewrite"
    BY <1>5 DEF RewriteError, Open
  <2> QED
    BY <2>1, PartStep
<1>6. CASE ClearError
  BY <1>6, DamageStep DEF ClearError, IInv, Control
<1>7. CASE Shutdown
  BY <1>7, IdleStep, TakeStep DEF Shutdown
<1>8. CASE ShutdownLand \/ RewriteLand
  <2>1. CASE ShutdownLand
    <3>1. /\ st = "stopping" /\ Put(Target(serial), wpos, raw)
          /\ snaps' = snaps /\ exposed' = exposed
      BY <2>1 DEF ShutdownLand
    <3> QED
      BY <3>1, RawLandStep
  <2>2. CASE RewriteLand
    <3>1. /\ st = "rewrite" /\ Put(Target(serial), wpos, raw)
          /\ snaps' = snaps /\ exposed' = (exposed /\ wpos # Footer)
      BY <2>2 DEF RewriteLand
    <3>2. (exposed' => exposed) /\ (wpos # Footer => exposed' = exposed)
      BY <3>1 DEF IInv, Types
    <3> QED
      BY <3>1, <3>2, RawLandStep
  <2> QED
    BY <1>8, <2>1, <2>2
<1>9. CASE HandleHeaderRead \/ HandleDirRead
  BY <1>9, IdleStep, TakeStep DEF HandleHeaderRead, HandleDirRead, ClearDir
<1>10. CASE HandleRecover
  BY <1>10, IdleStep, TakeStep DEF HandleRecover, ClearDir
<1> QED
  BY <1>1, <1>2, <1>3, <1>4, <1>5, <1>6, <1>7, <1>8, <1>9, <1>10
     DEF Next, AggStep, SyncStep, InitStep

(* The two copies with their headers and footers implement DirStore: one     *)
(* durable directory that a sync, a shutdown or a recovery replaces in a     *)
(* single step, whatever order of crashes, failed writes and restarts.       *)
THEOREM Refinement == Spec => ImplementsStore
<1>1. Init => Store!DInit
  <2> SUFFICES ASSUME Init PROVE Store!DInit
    OBVIOUS
  <2>1. IInv /\ snaps = 0 /\ exposed = FALSE
    BY InitHolds DEF Init
  <2>2. Loadable = 0
    BY <2>1, LoadableType
  <2> QED
    BY <2>1, <2>2 DEF Store!DInit
<1>2. IInv /\ IInv' /\ [Next]_vars => [Store!DNext]_Store!dvars
  BY NextIsStoreStep DEF StoreStep, Store!dvars
<1> QED
  BY <1>1, <1>2, Invariance, PTL DEF Spec, ImplementsStore, Store!DSpec


-----------------------------------------------------------------------------
(* Where the documents of a write lie                                        *)

Lengths == Seq(Nat \ {0})

\* The defining equations of EndOf.
LEMMA EndOfDef ==
  ASSUME NEW b \in Lengths
  PROVE  /\ EndOf(b) \in [0..Len(b) -> Nat]
         /\ EndOf(b)[0] = 0
         /\ \A i \in 1..Len(b) : EndOf(b)[i] = EndOf(b)[i - 1] + b[i]
<1> DEFINE n == Len(b)
           F == [i \in 1..n |-> [r \in Nat |-> r + b[i]]]
           Body(f, i) == IF i = 0 THEN 0 ELSE f[i - 1] + b[i]
<1>1. n \in Nat /\ 0 \in Nat /\ \A i \in 1..n : b[i] \in Nat
  BY DEF Lengths
<1>2. F \in [1..n -> [Nat -> Nat]] /\ \A i \in 1..n : \A r \in Nat : F[i][r] = r + b[i]
  BY <1>1
<1> HIDE DEF F, n
<1>3. PICK f : IsRun(f, n, Nat, 0, F)
  BY <1>1, <1>2, RunExists
<1>4. f \in [0..n -> Nat] /\ f[0] = 0 /\ \A i \in 1..n : f[i] = F[i][f[i - 1]]
  BY <1>3 DEF IsRun
<1>5. ASSUME NEW i \in 1..n PROVE f[i] = Body(f, i)
  <2>1. i - 1 \in 0..n /\ i # 0
    BY <1>1
  <2> QED
    BY <1>2, <1>4, <2>1
<1>6. f = [i \in 0..n |-> Body(f, i)]
  <2>1. \A i \in 0..n : i = 0 \/ i \in 1..n
    BY <1>1
  <2>2. ASSUME NEW i \in 0..n PROVE f[i] = Body(f, i)
    BY <1>4, <1>5, <2>1
  <2> HIDE DEF Body
  <2> QED
    BY <1>4, <2>2
<1>7. EndOf(b) = [i \in 0..n |-> Body(EndOf(b), i)]
  BY <1>6 DEF EndOf, n
<1> DEFINE K == EndOf(b)
<1> HIDE DEF K
<1>8. K = [i \in 0..n |-> Body(K, i)]
  BY <1>7 DEF K
<1>9. K[0] = 0 /\ \A i \in 1..n : K[i] = K[i - 1] + b[i]
  <2>1. 0 \in 0..n /\ \A i \in 1..n : i \in 0..n /\ i # 0
    BY <1>1
  <2>2. \A i \in 0..n : K[i] = Body(K, i)
    <3> HIDE DEF Body
    <3> QED
      BY <1>8
  <2> QED
    BY <2>1, <2>2
<1>10. ASSUME NEW i \in 0..n PROVE K[i] \in Nat
  <2> DEFINE P == {j \in Nat : j <= n => K[j] \in Nat}
  <2>1. 0 \in P
    BY <1>1, <1>9
  <2>2. ASSUME NEW j \in Nat, j \in P PROVE j + 1 \in P
    <3> SUFFICES ASSUME j + 1 <= n PROVE K[j + 1] \in Nat
      OBVIOUS
    <3>1. j + 1 \in 1..n /\ (j + 1) - 1 = j /\ K[j] \in Nat
      BY <1>1, <2>2
    <3> QED
      BY <1>1, <1>9, <3>1
  <2> HIDE DEF P
  <2>3. i \in P
    BY <1>1, <2>1, <2>2, NatInduct
  <2> QED
    BY <1>1, <2>3 DEF P
<1>11. K \in [0..n -> Nat]
  BY <1>8, <1>10
<1> QED
  BY <1>9, <1>11 DEF K, n

\* No document, no block.
LEMMA SizeEmpty == SizeOf(<< >>) = 0
<1>1. << >> \in Lengths /\ Len(<< >>) = 0
  BY DEF Lengths
<1> QED
  BY <1>1, EndOfDef DEF SizeOf

\* A document ends before the next one begins.
LEMMA EndOfRises ==
  ASSUME NEW b \in Lengths, NEW i \in 0..Len(b), NEW j \in 0..Len(b), i <= j
  PROVE  EndOf(b)[i] <= EndOf(b)[j]
<1> DEFINE n == Len(b)
           K == EndOf(b)
           P == {m \in Nat : m <= n /\ i <= m => K[i] <= K[m]}
<1>1. n \in Nat /\ i \in 0..n /\ j \in 0..n /\ K \in [0..n -> Nat] /\ \A m \in 1..n : K[m] = K[m - 1] + b[m] /\ b[m] \in Nat
  BY EndOfDef DEF Lengths
<1> HIDE DEF K, n
<1>2. 0 \in P
  <2>1. 0 \in 0..n /\ (i <= 0 => i = 0) /\ K[0] \in Nat
    BY <1>1
  <2> QED
    BY <2>1
<1>3. ASSUME NEW m \in Nat, m \in P PROVE m + 1 \in P
  <2> SUFFICES ASSUME m + 1 <= n, i <= m + 1 PROVE K[i] <= K[m + 1]
    OBVIOUS
  <2>1. CASE i = m + 1
    BY <1>1, <2>1
  <2>2. CASE i <= m
    <3>1. m + 1 \in 1..n /\ (m + 1) - 1 = m /\ m \in 0..n /\ i \in 0..n /\ K[i] <= K[m]
      BY <1>1, <1>3, <2>2
    <3>2. K[m + 1] = K[m] + b[m + 1] /\ b[m + 1] \in Nat
      BY <1>1, <3>1
    <3>3. K[i] \in Nat /\ K[m] \in Nat
      BY <1>1, <3>1
    <3> QED
      BY <3>1, <3>2, <3>3
  <2> QED
    BY <1>1, <2>1, <2>2
<1> HIDE DEF P
<1>4. Nat \subseteq P
  BY <1>2, <1>3, NatInduct
<1>5. j \in P /\ j <= n
  BY <1>1, <1>4
<1> QED
  BY <1>5 DEF P, K

\* The documents of a write lie one behind the other, within its size.
LEMMA DocsLieApart ==
  ASSUME NEW b \in Lengths
  PROVE  /\ SizeOf(b) \in Nat
         /\ \A j \in 1..Len(b) : /\ Before(b, j) \in Nat /\ b[j] \in Nat \ {0}
                                 /\ Before(b, j) + b[j] <= SizeOf(b)
         /\ \A i, j \in 1..Len(b) : i < j => Before(b, i) + b[i] <= Before(b, j)
<1> DEFINE n == Len(b)
<1>1. /\ n \in Nat /\ EndOf(b) \in [0..n -> Nat]
      /\ \A i \in 1..n : EndOf(b)[i] = EndOf(b)[i - 1] + b[i] /\ b[i] \in Nat \ {0} /\ i - 1 \in 0..n /\ i \in 0..n
      /\ n \in 0..n
  BY EndOfDef DEF Lengths
<1> HIDE DEF n
<1>2. \A i, j \in 0..n : i <= j => EndOf(b)[i] <= EndOf(b)[j]
  BY EndOfRises DEF n
<1>3. ASSUME NEW i \in 1..n, NEW j \in 1..n, i < j PROVE Before(b, i) + b[i] <= Before(b, j)
  <2>1. i \in 0..n /\ j - 1 \in 0..n /\ i <= j - 1
    BY <1>1, <1>3
  <2> QED
    BY <1>1, <1>2, <2>1 DEF Before
<1>4. ASSUME NEW j \in 1..n PROVE Before(b, j) + b[j] <= SizeOf(b)
  <2>1. EndOf(b)[j] <= EndOf(b)[n]
    BY <1>1, <1>2
  <2> QED
    BY <1>1, <2>1 DEF Before, SizeOf, n
<1>5. SizeOf(b) \in Nat
  BY <1>1 DEF SizeOf, n
<1>6. \A j \in 1..n : Before(b, j) \in Nat /\ b[j] \in Nat \ {0}
  BY <1>1 DEF Before
<1> QED
  BY <1>3, <1>4, <1>5, <1>6 DEF n

\* Every block of a write is in one of its documents.
LEMMA DocExists ==
  ASSUME NEW b \in Lengths, NEW x \in Nat, x < SizeOf(b)
  PROVE  \E j \in 1..Len(b) : Before(b, j) <= x /\ x < Before(b, j) + b[j]
<1> DEFINE n == Len(b)
           K == EndOf(b)
           T == {i \in Nat : i <= n /\ x < K[i]}
<1>1. /\ n \in Nat /\ K \in [0..n -> Nat] /\ K[0] = 0
      /\ \A i \in 1..n : K[i] = K[i - 1] + b[i] /\ b[i] \in Nat
  BY EndOfDef DEF Lengths
<1> HIDE DEF K, n
<1>2. n \in T
  BY <1>1 DEF SizeOf, K, n
<1>3. PICK j \in T : \A i \in T : j <= i
  BY <1>2, NatMin
<1>4. j # 0
  BY <1>1, <1>3
<1>5. j \in 1..n /\ j - 1 \in Nat /\ j - 1 <= n /\ j - 1 \in 0..n
  BY <1>1, <1>3, <1>4
<1>6. ~(j - 1 \in T)
  BY <1>3, <1>5
<1>7. ~(x < K[j - 1]) /\ K[j - 1] \in Nat
  BY <1>1, <1>5, <1>6
<1>8. K[j - 1] <= x /\ x < K[j - 1] + b[j]
  BY <1>1, <1>3, <1>5, <1>7
<1> QED
  BY <1>5, <1>8 DEF Before, K, n

-----------------------------------------------------------------------------
(* The invariant.  D stands for the data, H for the header in memory, O for  *)
(* the orphans, s for a copy of the directory and h for the header in it.    *)

Headers == [write_pos : Start..End, last_write_pos : Start..End - 1, agg_pos : Start..End,
            sync_serial : Nat, write_serial : Nat, phase : {0, 1}, dirty : BOOLEAN]
EntrySet == [off : 1..End - Start, len : Nat \ {0}, phase : {0, 1}, id : Nat]
BlockSet == [id : Nat, ws : Nat, ss : Nat, len : Nat, k : Nat]
Disks == [Blocks -> BlockSet]
ScanSet == [off : Nat, pos : Nat, end : Nat, prev : Nat, last : Nat, wrapped : BOOLEAN,
            lap : BOOLEAN, lss : Nat, lws : Nat, max : Nat]
Recovering == mode \in {"read", "check", "examine"}

HeaderOK(h) == h \in Headers /\ h.write_pos <= h.agg_pos
DirOK(d) == \A e \in d : e \in EntrySet /\ vol_offset(e) + e.len <= End
CopyOK(s) == s = [header |-> s.header, dir |-> s.dir] /\ HeaderOK(s.header) /\ DirOK(s.dir)
NeverSynced == [header |-> FreshHeader, dir |-> {}]

\* What holds in every state, misled or not.
LogTypes ==
  /\ HeaderOK(header) /\ DirOK(dir) /\ CopyOK(saved) /\ \A s \in pend : CopyOK(s) /\ s.header.sync_serial > 0
  /\ data \in Disks
  /\ spent \in [DOMAIN LogBound -> Nat]
  /\ misled \in BOOLEAN
  /\ mode = "up" \/ mode = "down" \/ Recovering
  /\ mode # "up" => batch = << >> /\ pend = {}
  /\ Recovering => /\ scan \in ScanSet /\ scan.off < scan.end
                   /\ header = saved.header /\ dir = saved.dir
                   /\ header.sync_serial > 0 /\ scan.max >= header.sync_serial
  /\ batch # << >> => batch \in Batches /\ header.agg_pos = header.write_pos + SizeOf(batch)
  /\ saved.header.sync_serial = 0 => saved = NeverSynced

\* The blocks a..b-1 are documents, whole, one behind the other.
Tiled(D, a, b) ==
  \A p \in a..b - 1 : LET at == p - D[p].k IN
    /\ D[p].k < D[p].len /\ a <= at /\ at + D[p].len <= b
    /\ \A i \in 0..D[p].len - 1 : D[at + i].len = D[p].len /\ D[at + i].k = i

\* Their sync serials do not fall.
Rising(D, a, b, lo, hi) ==
  \A p, q \in a..b - 1 : p <= q => lo <= D[p].ss /\ D[p].ss <= D[q].ss /\ D[q].ss <= hi

\* The document of an entry is on the disk D.
IntactIn(D, e) ==
  \A i \in 0..e.len - 1 : LET x == D[vol_offset(e) + i] IN x.id = e.id /\ x.len = e.len /\ x.k = i

\* The last write before h lies behind its position: Check will pass over it.
Ready(D, h) ==
  /\ h.last_write_pos < h.write_pos /\ h.write_pos <= h.last_write_pos + AGG_SIZE
  /\ Tiled(D, h.last_write_pos, h.write_pos)
  /\ \A p \in h.last_write_pos..h.write_pos - 1 : D[p].ss <= h.sync_serial

Unwritten(h) == h.write_pos = Start /\ h.last_write_pos = Start
JustWrapped(h) == h.write_pos = Start /\ h.last_write_pos > Start

InCopy(e, h, b, n) ==
  /\ b # << >> /\ e.phase = h.phase /\ e.id = n
  /\ \E j \in 1..Len(b) : vol_offset(e) = h.write_pos + Before(b, j) /\ e.len = b[j]

\* An entry of the running volume.
EntryOK(e, h, b, n, D) ==
  \/ e.phase = h.phase /\ vol_offset(e) + e.len <= h.write_pos /\ IntactIn(D, e)
  \/ InCopy(e, h, b, n)
  \/ e.phase # h.phase /\ (vol_offset(e) >= h.write_pos => IntactIn(D, e))

Live ==
  /\ Ready(data, header) \/ Unwritten(header) \/ JustWrapped(header)
  /\ \A e \in dir \ orphans : EntryOK(e, header, batch, spent.writes, data)
  /\ Unwritten(header) => \A e \in dir \ orphans : e.phase = header.phase
  /\ pend = {} => header.sync_serial = saved.header.sync_serial
  /\ \A s \in pend : /\ s.header.sync_serial = header.sync_serial
                     /\ header.sync_serial = saved.header.sync_serial + 1

\* A copy that Check refuses, or that has nothing to lose.
Hopeless(s, O) == JustWrapped(s.header) \/ (Unwritten(s.header) /\ s.dir \subseteq O)

\* The log has come round to the last write before the copy: Check refuses it.
Overtaken(D, h) ==
  /\ h.last_write_pos < h.write_pos
  /\ LET x == D[h.last_write_pos] IN x.k # 0 \/ x.len = 0 \/ x.ws > h.write_serial

Behind(s, O) == \A e \in s.dir \ O : e.phase = s.header.phase => vol_offset(e) + e.len <= s.header.write_pos

\* Of the entries of the copy, those up to b may be lost.
KeptFrom(D, s, O, b) ==
  \A e \in s.dir \ O : /\ dir_valid(s.header, << >>, e)
                       /\ vol_offset(e) < s.header.write_pos \/ vol_offset(e) >= b
                       => IntactIn(D, e)

\* What was written after the copy, up to b.
Run(D, h, b, hi) == Tiled(D, h.write_pos, b) /\ Rising(D, h.write_pos, b, h.sync_serial, hi)

\* The first document of the volume was written after the copy.
StartIsNew(D, h) == D[Start].k = 0 /\ D[Start].len > 0 /\ D[Start].ss >= h.sync_serial

NearEnd == End - AGG_SIZE + 1..End

\* How the running volume is ahead of a copy: in the same lap, about to begin
\* the next one, in the next one, or further.
SameLap(s, H, D, O) ==
  LET h == s.header IN
  /\ H.write_pos >= h.write_pos
  /\ Run(D, h, H.write_pos, H.sync_serial) /\ KeptFrom(D, s, O, H.write_pos)
  /\ H.write_pos = h.write_pos \/ H.write_serial > h.write_serial
LapBegins(s, H, D, O) ==
  LET h == s.header IN
  /\ H.write_pos = Start
  /\ \E g \in NearEnd : /\ g >= h.write_pos
                        /\ Run(D, h, g, H.sync_serial) /\ KeptFrom(D, s, O, g)
                        /\ g = h.write_pos \/ H.write_serial > h.write_serial
NextLap(s, H, D) ==
  LET h == s.header IN
  /\ H.write_pos <= h.last_write_pos /\ H.write_serial > h.write_serial
  /\ StartIsNew(D, h)
  /\ \E g \in NearEnd : g >= h.write_pos /\ Run(D, h, g, H.sync_serial)

Ahead(s, H, D, O) ==
  LET h == s.header IN
  /\ h.sync_serial <= H.sync_serial /\ H.sync_serial <= h.sync_serial + 1
  /\ h.write_serial <= H.write_serial
  /\ Behind(s, O)
  /\ \/ Hopeless(s, O)
     \/ Overtaken(D, h) /\ H.write_serial > h.write_serial
     \/ Ready(D, h) /\ (SameLap(s, H, D, O) \/ LapBegins(s, H, D, O) \/ NextLap(s, H, D))

\* The log after the copy is whole up to b; then it is cut, within a write, or
\* goes on at the start of the volume.
EndsAt(D, s, O, b) ==
  /\ Run(D, s.header, b, s.header.sync_serial + 1)
  /\ KeptFrom(D, s, O, b + AGG_SIZE) \/ (b > End - AGG_SIZE /\ StartIsNew(D, s.header))

\* What a restart finds.
Found(s, D, O) ==
  /\ Behind(s, O)
  /\ \/ Hopeless(s, O)
     \/ Overtaken(D, s.header)
     \/ Ready(D, s.header) /\ \E b \in s.header.write_pos..End : EndsAt(D, s, O, b)

\* The scan is at a document of the log, or behind its end.
At(p, s, b) == p >= b \/ (p >= header.write_pos /\ data[p].k = 0 /\ s.lss <= data[p].ss)

\* The scan has not left the documents that Check looks at.
Checking == mode = "check" \/ (mode = "read" /\ scan.off = header.last_write_pos)
CheckOK ==
  /\ ~scan.lap
  /\ scan.off = header.last_write_pos /\ scan.end = scan.off + UpToEnd(scan.off)
  /\ scan.pos >= header.last_write_pos
  /\ Overtaken(data, header) => scan.pos = header.last_write_pos
  /\ Ready(data, header) => /\ scan.pos <= header.write_pos /\ scan.lss <= header.sync_serial
                            /\ scan.pos < header.write_pos => data[scan.pos].k = 0

\* The scan s has passed Check.
ExamineOK(s) ==
  /\ Ready(data, header)
  /\ \E b \in header.write_pos..End :
       /\ EndsAt(data, saved, orphans, b)
       /\ ~s.lap => At(s.pos, s, b) /\ (s.pos <= s.end \/ At(s.last, s, b))

LapOK(s) == (s.wrapped => s.lap) /\ (s.lap => s.end <= header.last_write_pos)

Scanning ==
  /\ Found(saved, data, orphans)
  /\ LapOK(scan) /\ (scan.lap => mode # "check")
  /\ mode = "read" => scan.pos = scan.off
  /\ \/ Unwritten(header) /\ dir \subseteq orphans
     \/ (Checking => CheckOK) /\ (~Checking => ExamineOK(scan))

\* The inductive invariant.
LogInv ==
  /\ LogTypes
  /\ ~misled =>
       /\ mode = "up" => /\ Live /\ \A s \in pend : Ahead(s, header, data, orphans)
                         /\ saved.header.sync_serial > 0 => Ahead(saved, header, data, orphans)
       /\ mode = "down" => (saved.header.sync_serial > 0 => Found(saved, data, orphans))
       /\ Recovering => Scanning

-----------------------------------------------------------------------------
(* Documents one behind the other                                            *)

\* The bounds as numbers.
LEMMA Sizes ==
  /\ Start \in Nat /\ Start >= 1 /\ AGG_SIZE \in Nat /\ AGG_SIZE >= 1 /\ End \in Nat
  /\ End >= Start + AGG_SIZE + AGG_SIZE + AGG_SIZE
  /\ EVACUATION_SIZE = AGG_SIZE + AGG_SIZE /\ EVACUATION_SIZE \in Nat
  /\ Start \in Blocks /\ Blocks = Start..End - 1
  BY LogConstants DEF EVACUATION_SIZE, Blocks

\* A block of a disk.
LEMMA BlockType ==
  ASSUME NEW D \in Disks, NEW p \in Blocks
  PROVE  /\ D[p] \in BlockSet
         /\ D[p].id \in Nat /\ D[p].ws \in Nat /\ D[p].ss \in Nat /\ D[p].len \in Nat /\ D[p].k \in Nat
<1>1. D[p] \in BlockSet
  BY DEF Disks
<1> QED
  BY <1>1 DEF BlockSet

\* The first block of a tiled region begins a document.
LEMMA TiledFirst ==
  ASSUME NEW D \in Disks, NEW a \in Blocks, NEW b \in Start..End, a < b, Tiled(D, a, b)
  PROVE  D[a].k = 0 /\ D[a].len > 0
<1>1. D[a].k \in Nat /\ D[a].len \in Nat
  BY BlockType
<1>2. a \in a..b - 1
  BY Sizes
<1>3. D[a].k < D[a].len /\ a <= a - D[a].k
  BY <1>2 DEF Tiled
<1> QED
  BY <1>1, <1>3, Sizes

\* Behind a document of a tiled region begins another, or the region ends.
LEMMA TiledNext ==
  ASSUME NEW D \in Disks, NEW a \in Start..End, NEW b \in Start..End, Tiled(D, a, b),
         NEW p \in a..b - 1, D[p].k = 0
  PROVE  /\ D[p].len > 0 /\ p + D[p].len <= b
         /\ p + D[p].len < b => D[p + D[p].len].k = 0
<1> DEFINE q == p + D[p].len
<1>1. a \in Nat /\ b \in Nat /\ p \in Nat /\ p \in Blocks /\ a <= p /\ p < b
  BY Sizes
<1>2. D[p].len \in Nat
  BY <1>1, BlockType
<1>3. /\ D[p].k < D[p].len /\ (p - D[p].k) + D[p].len <= b
      /\ \A i \in 0..D[p].len - 1 : D[(p - D[p].k) + i].len = D[p].len /\ D[(p - D[p].k) + i].k = i
  BY DEF Tiled
<1>4. D[p].len > 0 /\ q <= b /\ p - D[p].k = p
  BY <1>1, <1>2, <1>3
<1>5. D[q - 1].len = D[p].len /\ D[q - 1].k = D[p].len - 1
  <2>1. D[p].len - 1 \in 0..D[p].len - 1 /\ (p - D[p].k) + (D[p].len - 1) = q - 1
    BY <1>1, <1>2, <1>4
  <2> QED
    BY <1>3, <2>1
<1>6. ASSUME q < b, D[q].k # 0 PROVE FALSE
  <2>1. q \in a..b - 1 /\ q \in Blocks /\ q \in Nat
    BY <1>1, <1>2, <1>6, Sizes
  <2>2. D[q].k \in Nat /\ D[q].len \in Nat
    BY <2>1, BlockType
  <2>3. /\ D[q].k < D[q].len
        /\ \A i \in 0..D[q].len - 1 : D[(q - D[q].k) + i].len = D[q].len /\ D[(q - D[q].k) + i].k = i
    BY <2>1 DEF Tiled
  <2>4. D[q].k - 1 \in 0..D[q].len - 1 /\ (q - D[q].k) + (D[q].k - 1) = q - 1
    BY <1>6, <2>1, <2>2, <2>3
  <2>5. D[q - 1].len = D[q].len /\ D[q - 1].k = D[q].k - 1
    BY <2>3, <2>4
  <2> HIDE DEF q
  <2>6. D[q].len = D[p].len /\ D[q].k - 1 = D[p].len - 1
    BY <1>5, <2>5
  <2> QED
    BY <1>2, <2>2, <2>3, <2>6
<1> QED
  BY <1>4, <1>6

\* A write elsewhere leaves a tiled region.
LEMMA TiledSame ==
  ASSUME NEW D \in Disks, NEW E, NEW a \in Start..End, NEW b \in Start..End,
         \A p \in a..b - 1 : E[p] = D[p], Tiled(D, a, b)
  PROVE  Tiled(E, a, b)
<1> SUFFICES ASSUME NEW p \in a..b - 1
             PROVE  /\ E[p].k < E[p].len /\ a <= p - E[p].k /\ (p - E[p].k) + E[p].len <= b
                    /\ \A i \in 0..E[p].len - 1 : E[(p - E[p].k) + i].len = E[p].len /\ E[(p - E[p].k) + i].k = i
  BY DEF Tiled
<1>1. p \in Blocks /\ p \in Nat /\ a \in Nat /\ b \in Nat
  BY Sizes
<1>2. D[p].k \in Nat /\ D[p].len \in Nat
  BY <1>1, BlockType
<1>3. /\ D[p].k < D[p].len /\ a <= p - D[p].k /\ (p - D[p].k) + D[p].len <= b
      /\ \A i \in 0..D[p].len - 1 : D[(p - D[p].k) + i].len = D[p].len /\ D[(p - D[p].k) + i].k = i
  BY DEF Tiled
<1>4. ASSUME NEW i \in 0..D[p].len - 1 PROVE (p - D[p].k) + i \in a..b - 1
  BY <1>1, <1>2, <1>3
<1> QED
  BY <1>3, <1>4

\* Two tiled regions make one.
LEMMA TiledJoin ==
  ASSUME NEW D \in Disks, NEW a \in Start..End, NEW b \in Start..End, NEW c \in Start..End,
         a <= b, b <= c, Tiled(D, a, b), Tiled(D, b, c)
  PROVE  Tiled(D, a, c)
<1> SUFFICES ASSUME NEW p \in a..c - 1
             PROVE  /\ D[p].k < D[p].len /\ a <= p - D[p].k /\ (p - D[p].k) + D[p].len <= c
                    /\ \A i \in 0..D[p].len - 1 : D[(p - D[p].k) + i].len = D[p].len /\ D[(p - D[p].k) + i].k = i
  BY DEF Tiled
<1>1. p \in Blocks /\ p \in Nat /\ a \in Nat /\ b \in Nat /\ c \in Nat /\ (p \in a..b - 1 \/ p \in b..c - 1)
  BY Sizes
<1>2. D[p].k \in Nat /\ D[p].len \in Nat
  BY <1>1, BlockType
<1>3. CASE p \in a..b - 1
  <2>1. /\ D[p].k < D[p].len /\ a <= p - D[p].k /\ (p - D[p].k) + D[p].len <= b
        /\ \A i \in 0..D[p].len - 1 : D[(p - D[p].k) + i].len = D[p].len /\ D[(p - D[p].k) + i].k = i
    BY <1>3 DEF Tiled
  <2> QED
    BY <1>1, <1>2, <2>1
<1>4. CASE p \in b..c - 1
  <2>1. /\ D[p].k < D[p].len /\ b <= p - D[p].k /\ (p - D[p].k) + D[p].len <= c
        /\ \A i \in 0..D[p].len - 1 : D[(p - D[p].k) + i].len = D[p].len /\ D[(p - D[p].k) + i].k = i
    BY <1>4 DEF Tiled
  <2> QED
    BY <1>1, <1>2, <2>1
<1> QED
  BY <1>1, <1>3, <1>4

\* An empty region is tiled and rises.
LEMMA EmptyRun ==
  ASSUME NEW D, NEW a \in Start..End, NEW lo, NEW hi
  PROVE  Tiled(D, a, a) /\ Rising(D, a, a, lo, hi)
<1>1. a..a - 1 = {}
  BY Sizes
<1> QED
  BY <1>1 DEF Tiled, Rising

\* An entry whose blocks are left alone stays intact.
LEMMA IntactSame ==
  ASSUME NEW D, NEW E, NEW e \in EntrySet,
         \A i \in 0..e.len - 1 : E[vol_offset(e) + i] = D[vol_offset(e) + i], IntactIn(D, e)
  PROVE  IntactIn(E, e)
  BY DEF IntactIn

\* Where the blocks of an entry lie.
LEMMA EntryFacts ==
  ASSUME NEW e \in EntrySet, vol_offset(e) + e.len <= End
  PROVE  /\ e.off \in Nat /\ e.len \in Nat /\ e.len >= 1 /\ vol_offset(e) \in Blocks
         /\ vol_offset(e) = Start + e.off - 1
         /\ \A i \in 0..e.len - 1 : vol_offset(e) + i \in Blocks /\ vol_offset(e) + i < vol_offset(e) + e.len
<1>1. e.off \in 1..End - Start /\ e.len \in Nat \ {0}
  BY DEF EntrySet
<1>2. vol_offset(e) = Start + e.off - 1
  BY DEF vol_offset
<1> QED
  BY <1>1, <1>2, Sizes

\* What dir_valid says when nothing is being written.
LEMMA ValidFacts ==
  ASSUME NEW h \in Headers, NEW e \in EntrySet
  PROVE  dir_valid(h, << >>, e) <=> IF e.phase = h.phase THEN vol_offset(e) < h.write_pos
                                                      ELSE vol_offset(e) >= h.agg_pos
<1>1. e.off \in Nat /\ h.write_pos \in Nat /\ h.agg_pos \in Nat
  BY Sizes DEF EntrySet, Headers
<1> QED
  BY <1>1, SizeEmpty, Sizes DEF dir_valid, vol_offset

-----------------------------------------------------------------------------
(* What an aggregation write does to the disk                                *)

CopyBlock(h, len, k) ==
  [id |-> spent.writes, ws |-> h.write_serial, ss |-> h.sync_serial, len |-> len, k |-> k]

\* Block i of document j of a write.
LEMMA CopiedDoc ==
  ASSUME NEW h \in Headers, NEW b \in Lengths, NEW j \in 1..Len(b), NEW i \in 0..b[j] - 1
  PROVE  /\ h.write_pos + Before(b, j) + i \in h.write_pos..h.write_pos + SizeOf(b) - 1
         /\ Copied(h, b)[h.write_pos + Before(b, j) + i] = CopyBlock(h, b[j], i)
<1> DEFINE w == h.write_pos
           p == w + Before(b, j) + i
           Of(x) == w + Before(b, x) <= p /\ p < w + Before(b, x) + b[x]
           c == CHOOSE x \in 1..Len(b) : Of(x)
<1>1. /\ SizeOf(b) \in Nat /\ w \in Nat /\ Len(b) \in Nat
      /\ \A x \in 1..Len(b) : Before(b, x) \in Nat /\ b[x] \in Nat \ {0} /\ Before(b, x) + b[x] <= SizeOf(b)
      /\ \A x, y \in 1..Len(b) : x < y => Before(b, x) + b[x] <= Before(b, y)
  <2>1. w \in Nat /\ Len(b) \in Nat
    BY Sizes DEF Headers, Lengths
  <2> QED
    BY <2>1, DocsLieApart
<1> HIDE DEF w
<1>2. p \in w..w + SizeOf(b) - 1 /\ p \in Nat /\ Of(j)
  BY <1>1
<1>3. ASSUME NEW x \in 1..Len(b), Of(x) PROVE x = j
  <2>1. ~(x < j)
    <3> SUFFICES ASSUME x < j PROVE FALSE
      OBVIOUS
    <3>1. Before(b, x) + b[x] <= Before(b, j) /\ Before(b, x) \in Nat /\ b[x] \in Nat /\ Before(b, j) \in Nat
      BY <1>1
    <3> QED
      BY <1>1, <1>2, <1>3, <3>1
  <2>2. ~(j < x)
    <3> SUFFICES ASSUME j < x PROVE FALSE
      OBVIOUS
    <3>1. Before(b, j) + b[j] <= Before(b, x) /\ Before(b, x) \in Nat /\ b[j] \in Nat /\ Before(b, j) \in Nat
      BY <1>1
    <3> QED
      BY <1>1, <1>2, <1>3, <3>1
  <2> QED
    BY <1>1, <2>1, <2>2
<1>4. c \in 1..Len(b) /\ Of(c)
  BY <1>2
<1>5. c = j
  BY <1>3, <1>4
<1>6. Copied(h, b)[p] = [id |-> spent.writes, ws |-> h.write_serial, ss |-> h.sync_serial,
                         len |-> b[c], k |-> p - w - Before(b, c)]
  BY <1>2 DEF Copied, w
<1>7. p - w - Before(b, j) = i
  BY <1>1
<1> QED
  BY <1>2, <1>5, <1>6, <1>7 DEF CopyBlock, w

\* Every block of a write is such a block.
LEMMA CopiedBlock ==
  ASSUME NEW h \in Headers, NEW b \in Lengths, NEW p \in h.write_pos..h.write_pos + SizeOf(b) - 1
  PROVE  \E j \in 1..Len(b) : \E i \in 0..b[j] - 1 :
           p = h.write_pos + Before(b, j) + i /\ Copied(h, b)[p] = CopyBlock(h, b[j], i)
<1>1. SizeOf(b) \in Nat /\ h.write_pos \in Nat
  BY DocsLieApart, Sizes DEF Headers
<1>2. p - h.write_pos \in Nat /\ p - h.write_pos < SizeOf(b)
  BY <1>1
<1>3. PICK j \in 1..Len(b) : Before(b, j) <= p - h.write_pos /\ p - h.write_pos < Before(b, j) + b[j]
  BY <1>2, DocExists
<1>4. Before(b, j) \in Nat /\ b[j] \in Nat
  BY DocsLieApart
<1> DEFINE i == (p - h.write_pos) - Before(b, j)
<1>5. i \in 0..b[j] - 1 /\ p = h.write_pos + Before(b, j) + i
  BY <1>1, <1>2, <1>3, <1>4
<1> HIDE DEF i
<1>6. Copied(h, b)[p] = CopyBlock(h, b[j], i)
  BY <1>5, CopiedDoc
<1> QED
  BY <1>5, <1>6

\* E is the disk D with the write b under the header h, as far as upto.
Laid(D, E, h, b, upto) ==
  /\ E \in Disks
  /\ \A p \in Blocks : p < h.write_pos \/ p >= h.write_pos + SizeOf(b) \/ p >= upto => E[p] = D[p]
  /\ \A p \in Blocks : h.write_pos <= p /\ p < h.write_pos + SizeOf(b) /\ p < upto =>
       E[p].ss = h.sync_serial /\ E[p].ws = h.write_serial /\ E[p].len > 0
  /\ h.write_pos < upto => E[h.write_pos].k = 0 /\ E[h.write_pos].len > 0

\* The write under way.
LEMMA BatchFacts ==
  ASSUME LogTypes, batch # << >>
  PROVE  /\ batch \in Lengths /\ header \in Headers /\ data \in Disks /\ spent.writes \in Nat
         /\ header.write_pos \in Start..End /\ header.write_pos \in Nat
         /\ SizeOf(batch) \in Nat /\ 1 <= SizeOf(batch) /\ SizeOf(batch) <= AGG_SIZE
         /\ header.write_pos + SizeOf(batch) = header.agg_pos /\ header.agg_pos \in Start..End
         /\ Len(batch) \in Nat /\ 1 \in 1..Len(batch) /\ Before(batch, 1) = 0
<1>1. batch \in Batches /\ header \in Headers /\ data \in Disks /\ header.agg_pos = header.write_pos + SizeOf(batch)
  BY DEF LogTypes, HeaderOK
<1>2. batch \in Lengths /\ SizeOf(batch) <= AGG_SIZE
  BY <1>1, LogConstants DEF Lengths
<1>3. spent.writes \in Nat
  <2>1. "writes" \in DOMAIN LogBound /\ spent \in [DOMAIN LogBound -> Nat]
    BY DEF LogTypes, LogBound
  <2> QED
    BY <2>1
<1>4. header.write_pos \in Start..End /\ header.write_pos \in Nat /\ header.agg_pos \in Start..End
  BY <1>1, Sizes DEF Headers
<1>5. Len(batch) \in Nat /\ 1 \in 1..Len(batch)
  BY <1>2 DEF Lengths
<1>6. SizeOf(batch) \in Nat /\ Before(batch, 1) \in Nat /\ batch[1] \in Nat \ {0} /\ Before(batch, 1) + batch[1] <= SizeOf(batch)
  BY <1>2, <1>5, DocsLieApart
<1>7. Before(batch, 1) = 0
  BY <1>2, EndOfDef DEF Before
<1> QED
  BY <1>1, <1>2, <1>3, <1>4, <1>5, <1>6, <1>7

\* A write that is cut anywhere.
LEMMA WrittenLaid ==
  ASSUME LogTypes, batch # << >>, NEW upto \in Nat
  PROVE  Laid(data, Written(upto), header, batch, upto)
<1> DEFINE E == Written(upto)
           w == header.write_pos
           C == Copied(header, batch)
<1>1. /\ batch \in Lengths /\ header \in Headers /\ data \in Disks /\ spent.writes \in Nat /\ w \in Nat
      /\ SizeOf(batch) \in Nat /\ 1 <= SizeOf(batch) /\ w \in Start..End /\ w + SizeOf(batch) <= End
      /\ 1 \in 1..Len(batch) /\ Before(batch, 1) = 0
  BY BatchFacts, Sizes
<1>2. header.sync_serial \in Nat /\ header.write_serial \in Nat
  BY <1>1 DEF Headers
<1>3. DOMAIN C = w..w + SizeOf(batch) - 1
  BY DEF Copied
<1>4. E = [p \in Blocks |-> IF p \in w..w + SizeOf(batch) - 1 /\ p < upto THEN C[p] ELSE data[p]]
  BY <1>3 DEF Written
<1>5. ASSUME NEW p \in w..w + SizeOf(batch) - 1
      PROVE  C[p] \in BlockSet /\ C[p].ss = header.sync_serial /\ C[p].ws = header.write_serial /\ C[p].len > 0
  <2>1. PICK j \in 1..Len(batch) : \E i \in 0..batch[j] - 1 : C[p] = CopyBlock(header, batch[j], i)
    BY <1>1, CopiedBlock
  <2>2. PICK i \in 0..batch[j] - 1 : C[p] = CopyBlock(header, batch[j], i)
    BY <2>1
  <2>3. batch[j] \in Nat \ {0}
    BY <1>1, DocsLieApart
  <2>4. batch[j] \in Nat /\ batch[j] > 0 /\ i \in Nat
    BY <2>3
  <2> QED
    BY <1>1, <1>2, <2>2, <2>4 DEF CopyBlock, BlockSet
<1> HIDE DEF C, w
<1>6. ASSUME NEW p \in Blocks PROVE E[p] \in BlockSet
  BY <1>1, <1>4, <1>5, BlockType
<1>7. E \in Disks
  BY <1>4, <1>6 DEF Disks
<1>8. ASSUME NEW p \in Blocks, p < w \/ p >= w + SizeOf(batch) \/ p >= upto PROVE E[p] = data[p]
  <2>1. ~(p \in w..w + SizeOf(batch) - 1 /\ p < upto)
    BY <1>1, <1>8, Sizes
  <2> QED
    BY <1>4, <2>1
<1>9. ASSUME NEW p \in Blocks, w <= p, p < w + SizeOf(batch), p < upto
      PROVE  E[p].ss = header.sync_serial /\ E[p].ws = header.write_serial /\ E[p].len > 0
  <2>1. p \in w..w + SizeOf(batch) - 1 /\ p < upto
    BY <1>1, <1>9, Sizes
  <2>2. E[p] = C[p]
    BY <1>4, <2>1
  <2> QED
    BY <1>5, <2>1, <2>2
<1>10. ASSUME w < upto PROVE E[w].k = 0 /\ E[w].len > 0
  <2>1. w \in Blocks /\ w \in w..w + SizeOf(batch) - 1
    BY <1>1, Sizes
  <2>2. batch[1] \in Nat \ {0}
    BY <1>1, DocsLieApart
  <2>3. 0 \in 0..batch[1] - 1 /\ w + Before(batch, 1) + 0 = w
    BY <1>1, <2>2
  <2>4. C[w + Before(batch, 1) + 0] = CopyBlock(header, batch[1], 0)
    BY <1>1, <2>3, CopiedDoc DEF C, w
  <2>5. E[w] = CopyBlock(header, batch[1], 0)
    BY <1>4, <1>10, <2>1, <2>3, <2>4
  <2> QED
    BY <2>2, <2>5 DEF CopyBlock
<1> QED
  BY <1>7, <1>8, <1>9, <1>10 DEF Laid, w

\* A write that is complete.
LEMMA WrittenWhole ==
  ASSUME LogTypes, batch # << >>
  PROVE  /\ Tiled(Written(End), header.write_pos, header.write_pos + SizeOf(batch))
         /\ \A e \in EntrySet : InCopy(e, header, batch, spent.writes) => IntactIn(Written(End), e)
<1> DEFINE E == Written(End)
           w == header.write_pos
           n == SizeOf(batch)
           C == Copied(header, batch)
<1>1. /\ batch \in Lengths /\ header \in Headers /\ data \in Disks /\ spent.writes \in Nat /\ w \in Nat
      /\ n \in Nat /\ 1 <= n /\ w \in Start..End /\ w + n <= End
  BY BatchFacts, Sizes
<1>2. DOMAIN C = w..w + n - 1
  BY DEF Copied
<1>3. E = [p \in Blocks |-> IF p \in w..w + n - 1 /\ p < End THEN C[p] ELSE data[p]]
  BY <1>2 DEF Written
<1>4. ASSUME NEW j \in 1..Len(batch), NEW i \in 0..batch[j] - 1
      PROVE  E[w + Before(batch, j) + i] = CopyBlock(header, batch[j], i)
  <2>1. w + Before(batch, j) + i \in w..w + n - 1 /\ C[w + Before(batch, j) + i] = CopyBlock(header, batch[j], i)
    BY <1>1, CopiedDoc
  <2>2. w + Before(batch, j) + i \in Blocks /\ w + Before(batch, j) + i < End
    BY <1>1, <2>1, Sizes
  <2> HIDE DEF w, n, C, E
  <2> QED
    BY <1>3, <2>1, <2>2
<1>5. Tiled(E, w, w + n)
  <2> SUFFICES ASSUME NEW p \in w..(w + n) - 1
               PROVE  /\ E[p].k < E[p].len /\ w <= p - E[p].k /\ (p - E[p].k) + E[p].len <= w + n
                      /\ \A i \in 0..E[p].len - 1 : E[(p - E[p].k) + i].len = E[p].len /\ E[(p - E[p].k) + i].k = i
    BY DEF Tiled
  <2>0. p \in w..w + n - 1
    BY <1>1
  <2>1. PICK j \in 1..Len(batch) : \E i \in 0..batch[j] - 1 : p = w + Before(batch, j) + i
    BY <1>1, <2>0, CopiedBlock
  <2>2. PICK i \in 0..batch[j] - 1 : p = w + Before(batch, j) + i
    BY <2>1
  <2>3. batch[j] \in Nat /\ Before(batch, j) \in Nat /\ Before(batch, j) + batch[j] <= n
    BY <1>1, DocsLieApart
  <2> HIDE DEF w, n, C, E
  <2>4. E[p] = CopyBlock(header, batch[j], i)
    BY <1>4, <2>2
  <2>5. E[p].len = batch[j] /\ E[p].k = i /\ p - E[p].k = w + Before(batch, j)
    BY <1>1, <2>2, <2>3, <2>4 DEF CopyBlock
  <2>6. ASSUME NEW x \in 0..E[p].len - 1
        PROVE  E[(p - E[p].k) + x].len = E[p].len /\ E[(p - E[p].k) + x].k = x
    <3>1. x \in 0..batch[j] - 1 /\ (p - E[p].k) + x = w + Before(batch, j) + x
      BY <2>5
    <3>2. E[w + Before(batch, j) + x] = CopyBlock(header, batch[j], x)
      BY <1>4, <3>1
    <3> QED
      BY <2>5, <3>1, <3>2 DEF CopyBlock
  <2>7. /\ E[p].k < E[p].len
        /\ w <= p - E[p].k
        /\ (p - E[p].k) + E[p].len <= w + n
    <3>1. i < batch[j] /\ w <= w + Before(batch, j) /\ w + Before(batch, j) + batch[j] <= w + n
      BY <1>1, <2>3
    <3> QED
      BY <2>5, <3>1
  <2> QED
    BY <2>6, <2>7
<1>6. ASSUME NEW e \in EntrySet, InCopy(e, header, batch, spent.writes) PROVE IntactIn(E, e)
  <2>1. PICK j \in 1..Len(batch) : vol_offset(e) = w + Before(batch, j) /\ e.len = batch[j]
    BY <1>6 DEF InCopy
  <2>2. e.id = spent.writes
    BY <1>6 DEF InCopy
  <2> HIDE DEF w, n, C, E
  <2>3. ASSUME NEW i \in 0..e.len - 1
        PROVE  E[vol_offset(e) + i].id = e.id /\ E[vol_offset(e) + i].len = e.len /\ E[vol_offset(e) + i].k = i
    <3>1. E[vol_offset(e) + i] = CopyBlock(header, batch[j], i)
      BY <1>4, <2>1
    <3> QED
      BY <2>1, <2>2, <3>1 DEF CopyBlock
  <2> QED
    BY <2>3 DEF IntactIn
<1> QED
  BY <1>5, <1>6

-----------------------------------------------------------------------------
(* What a copy of the directory is judged by, under a change of the disk     *)

\* The positions of a header, as numbers.
LEMMA HeaderFacts ==
  ASSUME NEW h \in Headers
  PROVE  /\ h.write_pos \in Start..End /\ h.write_pos \in Nat /\ h.write_pos >= Start /\ h.write_pos <= End
         /\ h.last_write_pos \in Blocks /\ h.last_write_pos \in Start..End /\ h.last_write_pos \in Nat
         /\ h.last_write_pos >= Start /\ h.last_write_pos <= End - 1
         /\ h.agg_pos \in Start..End /\ h.agg_pos \in Nat
         /\ h.sync_serial \in Nat /\ h.write_serial \in Nat /\ h.phase \in {0, 1} /\ h.dirty \in BOOLEAN
  BY Sizes DEF Headers

\* A change outside of the last write.
LEMMA ReadySame ==
  ASSUME NEW D \in Disks, NEW E, NEW h \in Headers, Ready(D, h),
         \A p \in h.last_write_pos..h.write_pos - 1 : E[p] = D[p]
  PROVE  Ready(E, h)
<1>1. Tiled(E, h.last_write_pos, h.write_pos)
  BY HeaderFacts, TiledSame DEF Ready
<1> QED
  BY <1>1 DEF Ready

\* A change outside of the log after the copy.
LEMMA RunSame ==
  ASSUME NEW D \in Disks, NEW E, NEW h \in Headers, NEW b \in Start..End, NEW hi, Run(D, h, b, hi),
         \A p \in h.write_pos..b - 1 : E[p] = D[p]
  PROVE  Run(E, h, b, hi)
<1>1. Tiled(E, h.write_pos, b)
  BY HeaderFacts, TiledSame DEF Run
<1>2. Rising(E, h.write_pos, b, h.sync_serial, hi)
  BY DEF Run, Rising
<1> QED
  BY <1>1, <1>2 DEF Run

\* A higher bound on the serials.
LEMMA RunHigher ==
  ASSUME NEW D \in Disks, NEW h \in Headers, NEW b \in Start..End, NEW lo \in Nat, NEW hi \in Nat, lo <= hi,
         Run(D, h, b, lo)
  PROVE  Run(D, h, b, hi)
<1>1. ASSUME NEW p \in h.write_pos..b - 1, NEW q \in h.write_pos..b - 1, p <= q
      PROVE  h.sync_serial <= D[p].ss /\ D[p].ss <= D[q].ss /\ D[q].ss <= hi
  <2>1. h.sync_serial <= D[p].ss /\ D[p].ss <= D[q].ss /\ D[q].ss <= lo
    BY <1>1 DEF Run, Rising
  <2>2. q \in Blocks
    BY HeaderFacts, Sizes
  <2>3. D[q].ss \in Nat
    BY <2>2, BlockType
  <2> QED
    BY <2>1, <2>3
<1> QED
  BY <1>1 DEF Run, Rising

\* A document of the log after the copy.
LEMMA RunBlock ==
  ASSUME NEW D \in Disks, NEW h \in Headers, NEW b \in Start..End, NEW hi \in Nat, Run(D, h, b, hi),
         NEW p \in h.write_pos..b - 1
  PROVE  h.sync_serial <= D[p].ss /\ D[p].ss <= hi /\ D[p].len > 0 /\ p \in Blocks
<1>1. p \in Blocks /\ p \in Nat
  BY HeaderFacts, Sizes
<1>2. D[p].k \in Nat /\ D[p].len \in Nat /\ D[p].ss \in Nat
  BY <1>1, BlockType
<1>3. D[p].k < D[p].len
  BY DEF Run, Tiled
<1>4. p <= p
  BY <1>1
<1>5. h.sync_serial <= D[p].ss /\ D[p].ss <= hi
  BY <1>4 DEF Run, Rising
<1> QED
  BY <1>1, <1>2, <1>3, <1>5

\* A valid entry of a copy lies before its write position, whole, or not
\* before it.
LEMMA ValidSides ==
  ASSUME NEW s, CopyOK(s), NEW O, Behind(s, O), NEW e \in s.dir \ O, dir_valid(s.header, << >>, e)
  PROVE  /\ e \in EntrySet /\ vol_offset(e) + e.len <= End /\ s.header \in Headers
         /\ vol_offset(e) < s.header.write_pos => /\ e.phase = s.header.phase
                                                  /\ vol_offset(e) + e.len <= s.header.write_pos
<1>1. e \in EntrySet /\ vol_offset(e) + e.len <= End /\ s.header \in Headers /\ s.header.write_pos <= s.header.agg_pos
  BY DEF CopyOK, DirOK, HeaderOK
<1>2. vol_offset(e) \in Nat /\ s.header.write_pos \in Nat /\ s.header.agg_pos \in Nat
  BY <1>1, EntryFacts, HeaderFacts, Sizes
<1>3. e.phase # s.header.phase => vol_offset(e) >= s.header.agg_pos
  BY <1>1, ValidFacts
<1> QED
  BY <1>1, <1>2, <1>3 DEF Behind

\* A change in the blocks from a up to c that lies behind the write position.
LEMMA KeptSame ==
  ASSUME NEW D \in Disks, NEW E, NEW s, CopyOK(s), NEW O, Behind(s, O), NEW b \in Nat, NEW a \in Nat, NEW c \in Nat,
         s.header.write_pos <= a, b <= c, KeptFrom(D, s, O, b),
         \A p \in Blocks : p < a \/ p >= c => E[p] = D[p]
  PROVE  KeptFrom(E, s, O, c)
<1> SUFFICES ASSUME NEW e \in s.dir \ O, dir_valid(s.header, << >>, e),
                    vol_offset(e) < s.header.write_pos \/ vol_offset(e) >= c
             PROVE  IntactIn(E, e)
  BY DEF KeptFrom
<1>1. /\ e \in EntrySet /\ vol_offset(e) + e.len <= End /\ s.header \in Headers
      /\ vol_offset(e) < s.header.write_pos => vol_offset(e) + e.len <= s.header.write_pos
  BY ValidSides
<1>2. /\ e.len \in Nat /\ vol_offset(e) \in Blocks /\ vol_offset(e) \in Nat /\ s.header.write_pos \in Nat
      /\ \A i \in 0..e.len - 1 : vol_offset(e) + i \in Blocks /\ vol_offset(e) + i < vol_offset(e) + e.len
  BY <1>1, EntryFacts, HeaderFacts, Sizes
<1>3. IntactIn(D, e)
  BY <1>2 DEF KeptFrom
<1>4. ASSUME NEW i \in 0..e.len - 1 PROVE E[vol_offset(e) + i] = D[vol_offset(e) + i]
  <2>1. vol_offset(e) + i \in Blocks /\ (vol_offset(e) + i < a \/ vol_offset(e) + i >= c)
    BY <1>1, <1>2
  <2> QED
    BY <2>1
<1> QED
  BY <1>1, <1>3, <1>4, IntactSame

\* A change in the blocks from w up to v that are not those of the entry.
LEMMA IntactApart ==
  ASSUME NEW D \in Disks, NEW E, NEW w \in Nat, NEW v \in Nat, NEW e \in EntrySet, vol_offset(e) + e.len <= End,
         \A p \in Blocks : p < w \/ p >= v => E[p] = D[p], IntactIn(D, e),
         \A p \in w..v - 1 : ~(vol_offset(e) <= p /\ p < vol_offset(e) + e.len)
  PROVE  IntactIn(E, e)
<1>1. /\ e.len \in Nat /\ vol_offset(e) \in Nat
      /\ \A i \in 0..e.len - 1 : vol_offset(e) + i \in Blocks /\ vol_offset(e) + i < vol_offset(e) + e.len
  BY EntryFacts, Sizes
<1>2. ASSUME NEW i \in 0..e.len - 1 PROVE E[vol_offset(e) + i] = D[vol_offset(e) + i]
  <2>1. vol_offset(e) + i \in Blocks /\ vol_offset(e) + i \in Nat /\ vol_offset(e) <= vol_offset(e) + i
        /\ vol_offset(e) + i < vol_offset(e) + e.len
    BY <1>1
  <2>2. ~(vol_offset(e) + i \in w..v - 1)
    BY <2>1
  <2>3. vol_offset(e) + i < w \/ vol_offset(e) + i >= v
    BY <2>1, <2>2
  <2> QED
    BY <2>1, <2>3
<1> QED
  BY <1>2, IntactSame

\* More orphans.
LEMMA AheadMore ==
  ASSUME NEW s, NEW H, NEW D, NEW O, NEW P, O \subseteq P, Ahead(s, H, D, O)
  PROVE  Ahead(s, H, D, P)
<1>1. Behind(s, P)
  BY DEF Ahead, Behind
<1>2. Hopeless(s, O) => Hopeless(s, P)
  BY DEF Hopeless
<1>3. \A b : KeptFrom(D, s, O, b) => KeptFrom(D, s, P, b)
  BY DEF KeptFrom
<1>4. SameLap(s, H, D, O) => SameLap(s, H, D, P)
  BY <1>3 DEF SameLap
<1>5. LapBegins(s, H, D, O) => LapBegins(s, H, D, P)
  BY <1>3 DEF LapBegins
<1> QED
  BY <1>1, <1>2, <1>4, <1>5 DEF Ahead

\* Only the position and the serials of the header in memory count.
LEMMA AheadHeader ==
  ASSUME NEW s, NEW H, NEW G, NEW D, NEW O, Ahead(s, H, D, O),
         G.write_pos = H.write_pos, G.sync_serial = H.sync_serial, G.write_serial = H.write_serial
  PROVE  Ahead(s, G, D, O)
<1>1. SameLap(s, H, D, O) => SameLap(s, G, D, O)
  BY DEF SameLap
<1>2. LapBegins(s, H, D, O) => LapBegins(s, G, D, O)
  BY DEF LapBegins
<1>3. NextLap(s, H, D) => NextLap(s, G, D)
  BY DEF NextLap
<1> QED
  BY <1>1, <1>2, <1>3 DEF Ahead

\* agg_wrap: the next lap begins.
LEMMA AheadWraps ==
  ASSUME NEW s, CopyOK(s), NEW H \in Headers, NEW G, NEW D, NEW O, Ahead(s, H, D, O), H.write_pos > End - AGG_SIZE,
         G.write_pos = Start, G.sync_serial = H.sync_serial, G.write_serial = H.write_serial
  PROVE  Ahead(s, G, D, O)
<1>1. /\ H.write_pos \in Nat /\ H.write_pos <= End /\ H.write_pos \in NearEnd /\ H.write_pos # Start
      /\ s.header.last_write_pos \in Nat /\ s.header.last_write_pos >= Start
  BY HeaderFacts, Sizes DEF NearEnd, CopyOK, HeaderOK
<1>2. SameLap(s, H, D, O) => LapBegins(s, G, D, O)
  BY <1>1 DEF SameLap, LapBegins
<1>3. ~LapBegins(s, H, D, O)
  BY <1>1 DEF LapBegins
<1>4. NextLap(s, H, D) => NextLap(s, G, D)
  BY <1>1, Sizes DEF NextLap
<1> QED
  BY <1>2, <1>3, <1>4 DEF Ahead

-----------------------------------------------------------------------------
(* What a copy of the directory is judged by, under a write                  *)

\* The blocks a write touches and those it leaves.
LEMMA LaidFacts ==
  ASSUME NEW D \in Disks, NEW E, NEW H \in Headers, NEW b, SizeOf(b) \in Nat, NEW upto \in Nat,
         Laid(D, E, H, b, upto), upto <= H.write_pos + SizeOf(b)
  PROVE  /\ E \in Disks
         /\ \A p \in Blocks : p < H.write_pos \/ p >= upto => E[p] = D[p]
         /\ \A p \in Blocks : H.write_pos <= p /\ p < upto => E[p].ss = H.sync_serial /\ E[p].ws = H.write_serial
         /\ H.write_pos < upto => E[H.write_pos].k = 0 /\ E[H.write_pos].len > 0
<1>1. H.write_pos \in Nat /\ \A p \in Blocks : p \in Nat
  BY HeaderFacts, Sizes
<1> QED
  BY <1>1 DEF Laid

\* A write that reaches the last write before the copy gives it away.
LEMMA OvertakenBy ==
  ASSUME NEW D \in Disks, NEW E, NEW h \in Headers, NEW w \in Nat, NEW v \in Nat, NEW n \in Nat,
         \A p \in Blocks : p < w \/ p >= v => E[p] = D[p],
         \A p \in Blocks : w <= p /\ p < v => E[p].ws = n,
         h.last_write_pos < h.write_pos, n > h.write_serial,
         Overtaken(D, h) \/ (w <= h.last_write_pos /\ h.last_write_pos < v)
  PROVE  Overtaken(E, h)
<1>1. h.last_write_pos \in Blocks /\ h.last_write_pos \in Nat
  BY HeaderFacts
<1>2. CASE w <= h.last_write_pos /\ h.last_write_pos < v
  BY <1>1, <1>2 DEF Overtaken
<1>3. CASE ~(w <= h.last_write_pos /\ h.last_write_pos < v)
  <2>1. E[h.last_write_pos] = D[h.last_write_pos]
    BY <1>1, <1>3
  <2> QED
    BY <1>3, <2>1 DEF Overtaken
<1> QED
  BY <1>2, <1>3

\* A write of up to n blocks in front of the copy leaves what Check and the
\* scan look at.
LEMMA FrontLeaves ==
  ASSUME NEW D \in Disks, NEW E, NEW h \in Headers, NEW w \in Nat, NEW v \in Nat, NEW g \in Start..End, NEW hi,
         \A p \in Blocks : p < w \/ p >= v => E[p] = D[p],
         v <= h.last_write_pos, Ready(D, h), Run(D, h, g, hi)
  PROVE  Ready(E, h) /\ Run(E, h, g, hi)
<1>1. h.last_write_pos \in Nat /\ h.write_pos \in Nat /\ h.last_write_pos >= Start /\ h.write_pos <= End
  BY HeaderFacts
<1>2. h.last_write_pos < h.write_pos
  BY DEF Ready
<1>3. \A p \in h.last_write_pos..h.write_pos - 1 : E[p] = D[p]
  BY <1>1, Sizes
<1>4. \A p \in h.write_pos..g - 1 : E[p] = D[p]
  BY <1>1, <1>2, Sizes
<1> QED
  BY <1>3, <1>4, ReadySame, RunSame

\* A copy taken so near to the end of the volume has its last write far from
\* the start.
LEMMA FarFromStart ==
  ASSUME NEW D, NEW h \in Headers, Ready(D, h), h.write_pos \in NearEnd, NEW n \in Nat, n <= AGG_SIZE
  PROVE  Start + n <= h.last_write_pos
<1>1. h.last_write_pos \in Nat /\ h.write_pos \in Nat /\ h.write_pos >= End - AGG_SIZE + 1 /\ h.write_pos <= h.last_write_pos + AGG_SIZE
  BY HeaderFacts, Sizes DEF NearEnd, Ready
<1> QED
  BY <1>1, Sizes

\* The write of the documents is complete.
LEMMA AheadWritten ==
  ASSUME NEW s, CopyOK(s), NEW H \in Headers, NEW G, NEW D \in Disks, NEW E, NEW O, NEW b,
         SizeOf(b) \in Nat, 1 <= SizeOf(b), SizeOf(b) <= AGG_SIZE, H.write_pos + SizeOf(b) <= End,
         Laid(D, E, H, b, H.write_pos + SizeOf(b)), Tiled(E, H.write_pos, H.write_pos + SizeOf(b)),
         Ahead(s, H, D, O),
         G.write_pos = H.write_pos + SizeOf(b), G.sync_serial = H.sync_serial, G.write_serial = H.write_serial + 1
  PROVE  Ahead(s, G, E, O)
<1> DEFINE h == s.header
           w == H.write_pos
           n == SizeOf(b)
           v == w + n
<1>1. h \in Headers
  BY DEF CopyOK, HeaderOK
<1>2. /\ w \in Nat /\ n \in Nat /\ v \in Nat /\ w < v /\ w <= v /\ v = w + n /\ 1 <= n /\ n <= AGG_SIZE /\ w >= Start /\ v <= End /\ w \in Start..End /\ v \in Start..End
      /\ h.write_pos \in Nat /\ h.last_write_pos \in Nat /\ h.write_pos >= Start /\ h.last_write_pos >= Start /\ h.write_pos \in Start..End
      /\ h.last_write_pos \in Blocks
      /\ h.sync_serial \in Nat /\ H.sync_serial \in Nat /\ h.write_serial \in Nat /\ H.write_serial \in Nat
  BY <1>1, HeaderFacts, Sizes
<1>3. /\ E \in Disks
      /\ \A p \in Blocks : p < w \/ p >= v => E[p] = D[p]
      /\ \A p \in Blocks : w <= p /\ p < v => E[p].ss = H.sync_serial /\ E[p].ws = H.write_serial
      /\ E[w].k = 0 /\ E[w].len > 0
  BY <1>2, LaidFacts
<1>4. /\ h.sync_serial <= H.sync_serial /\ H.sync_serial <= h.sync_serial + 1
      /\ h.write_serial <= H.write_serial /\ Behind(s, O)
  BY DEF Ahead
<1>5. G.write_pos = v /\ G.sync_serial = H.sync_serial /\ G.write_serial = H.write_serial + 1 /\ G.write_serial > h.write_serial
  BY <1>2, <1>4
<1> HIDE DEF w, n, v, h
<1>6. CASE Hopeless(s, O)
  BY <1>2, <1>4, <1>5, <1>6 DEF Ahead, h
<1>7. ASSUME h.last_write_pos < h.write_pos, H.write_serial > h.write_serial,
             Overtaken(D, h) \/ (w <= h.last_write_pos /\ h.last_write_pos < v)
      PROVE  Ahead(s, G, E, O)
  <2>1. Overtaken(E, h)
    BY <1>1, <1>2, <1>3, <1>7, OvertakenBy
  <2> QED
    BY <1>2, <1>4, <1>5, <2>1 DEF Ahead, h
<1>8. ASSUME Ready(D, h), SameLap(s, H, D, O) PROVE Ahead(s, G, E, O)
  <2>1. w >= h.write_pos /\ Run(D, h, w, H.sync_serial) /\ KeptFrom(D, s, O, w) /\ h.last_write_pos < h.write_pos
    BY <1>8 DEF SameLap, Ready, h, w
  <2>2. Ready(E, h)
    <3>1. \A p \in h.last_write_pos..h.write_pos - 1 : E[p] = D[p]
      BY <1>2, <1>3, <2>1, Sizes
    <3> QED
      BY <1>1, <1>8, <3>1, ReadySame
  <2>3. Run(E, h, w, H.sync_serial)
    <3>1. \A p \in h.write_pos..w - 1 : E[p] = D[p]
      BY <1>2, <1>3, Sizes
    <3> QED
      BY <1>1, <1>2, <2>1, <3>1, RunSame
  <2>4. Tiled(E, h.write_pos, v)
    <3>1. Tiled(E, w, v)
      BY DEF w, v, n
    <3> QED
      BY <1>2, <1>3, <2>1, <2>3, <3>1, TiledJoin DEF Run
  <2>5. ASSUME NEW p \in h.write_pos..v - 1, NEW q \in h.write_pos..v - 1, p <= q
        PROVE  h.sync_serial <= E[p].ss /\ E[p].ss <= E[q].ss /\ E[q].ss <= H.sync_serial
    <3>1. p \in Blocks /\ q \in Blocks /\ p \in Nat /\ q \in Nat /\ (q >= w => q < v) /\ (p >= w => p < v)
      BY <1>2, Sizes
    <3>2. q >= w => E[q].ss = H.sync_serial
      BY <1>3, <3>1
    <3>3. p >= w => E[p].ss = H.sync_serial
      BY <1>3, <3>1
    <3>4. CASE q < w
      <4>1. p \in h.write_pos..w - 1 /\ q \in h.write_pos..w - 1
        BY <1>2, <2>5, <3>1, <3>4
      <4> QED
        BY <2>3, <2>5, <4>1 DEF Run, Rising
    <3>5. CASE q >= w /\ p < w
      <4>1. p \in h.write_pos..w - 1 /\ p <= p
        BY <1>2, <3>1, <3>5
      <4>2. h.sync_serial <= E[p].ss /\ E[p].ss <= H.sync_serial
        BY <2>3, <4>1 DEF Run, Rising
      <4> QED
        BY <1>2, <3>2, <3>5, <4>2
    <3>6. CASE p >= w
      <4>1. q >= w
        BY <1>2, <2>5, <3>1, <3>6
      <4> QED
        BY <1>2, <1>4, <3>2, <3>3, <3>6, <4>1
    <3> QED
      BY <1>2, <3>1, <3>4, <3>5, <3>6
  <2>6. Run(E, h, v, H.sync_serial)
    BY <2>4, <2>5 DEF Run, Rising
  <2>7. KeptFrom(E, s, O, v)
    <3>1. w <= v
      BY <1>2
    <3> QED
      BY <1>2, <1>3, <1>4, <2>1, <3>1, KeptSame DEF h
  <2>8. SameLap(s, G, E, O)
    <3>1. v >= h.write_pos
      BY <1>2, <2>1
    <3> QED
      BY <1>5, <2>6, <2>7, <3>1 DEF SameLap, h
  <2> QED
    BY <1>2, <1>4, <1>5, <2>2, <2>8 DEF Ahead, h
<1>9. ASSUME Ready(D, h), w <= h.last_write_pos, v <= h.last_write_pos, w = Start \/ StartIsNew(D, h),
             NEW g \in NearEnd, g >= h.write_pos, Run(D, h, g, H.sync_serial)
      PROVE  Ahead(s, G, E, O)
  <2>1. g \in Start..End
    BY Sizes DEF NearEnd
  <2>2. Ready(E, h) /\ Run(E, h, g, H.sync_serial)
    BY <1>1, <1>2, <1>3, <1>9, <2>1, FrontLeaves
  <2>3. StartIsNew(E, h)
    <3>1. CASE w = Start
      <4>1. w \in Blocks /\ w <= w /\ w < v
        BY <1>2, <3>1, Sizes
      <4>2. E[Start].ss = H.sync_serial /\ E[Start].k = 0 /\ E[Start].len > 0
        BY <1>3, <3>1, <4>1
      <4> QED
        BY <1>2, <1>4, <4>2 DEF StartIsNew
    <3>2. CASE w # Start
      <4>1. Start \in Blocks /\ Start < w
        BY <1>2, <3>2, Sizes
      <4>2. E[Start] = D[Start]
        BY <1>3, <4>1
      <4> QED
        BY <1>9, <3>2, <4>2 DEF StartIsNew
    <3> QED
      BY <3>1, <3>2
  <2>4. NextLap(s, G, E)
    BY <1>5, <1>9, <2>2, <2>3 DEF NextLap, h
  <2> QED
    BY <1>2, <1>4, <1>5, <2>2, <2>4 DEF Ahead, h
<1>10. ASSUME Ready(D, h), LapBegins(s, H, D, O) PROVE Ahead(s, G, E, O)
  <2>1. w = Start
    BY <1>10 DEF LapBegins, w
  <2>2. PICK g \in NearEnd : /\ g >= h.write_pos /\ Run(D, h, g, H.sync_serial)
                             /\ g = h.write_pos \/ H.write_serial > h.write_serial
    BY <1>10 DEF LapBegins, h
  <2>3. h.last_write_pos < h.write_pos /\ w <= h.last_write_pos
    BY <1>2, <1>10, <2>1 DEF Ready
  <2>4. CASE v <= h.last_write_pos
    BY <1>9, <1>10, <2>1, <2>2, <2>3, <2>4
  <2>5. CASE h.last_write_pos < v
    <3>1. g # h.write_pos
      <4> SUFFICES ASSUME g = h.write_pos PROVE FALSE
        OBVIOUS
      <4>1. Start + n <= h.last_write_pos
        BY <1>1, <1>2, <1>10, FarFromStart
      <4> QED
        BY <1>2, <2>1, <2>5, <4>1 DEF v
    <3> QED
      BY <1>7, <2>2, <2>3, <2>5, <3>1
  <2> QED
    BY <1>2, <2>4, <2>5
<1>11. ASSUME Ready(D, h), NextLap(s, H, D) PROVE Ahead(s, G, E, O)
  <2>1. w <= h.last_write_pos /\ H.write_serial > h.write_serial /\ StartIsNew(D, h)
    BY <1>11 DEF NextLap, h, w
  <2>2. PICK g \in NearEnd : g >= h.write_pos /\ Run(D, h, g, H.sync_serial)
    BY <1>11 DEF NextLap, h
  <2>3. h.last_write_pos < h.write_pos
    BY <1>11 DEF Ready
  <2>4. CASE v <= h.last_write_pos
    BY <1>9, <1>11, <2>1, <2>2, <2>4
  <2>5. CASE h.last_write_pos < v
    BY <1>7, <2>1, <2>3, <2>5
  <2> QED
    BY <1>2, <2>4, <2>5
<1>12. CASE Overtaken(D, h) /\ H.write_serial > h.write_serial
  BY <1>7, <1>12 DEF Overtaken
<1> QED
  BY <1>6, <1>8, <1>10, <1>11, <1>12 DEF Ahead, h

\* The process dies during a write, or between two.
LEMMA FoundAfter ==
  ASSUME NEW s, CopyOK(s), NEW H \in Headers, NEW D \in Disks, NEW E, NEW O, NEW b,
         SizeOf(b) \in Nat, SizeOf(b) <= AGG_SIZE, H.write_pos + SizeOf(b) <= End,
         NEW upto \in H.write_pos..H.write_pos + SizeOf(b), Laid(D, E, H, b, upto), Ahead(s, H, D, O)
  PROVE  Found(s, E, O)
<1> DEFINE h == s.header
           w == H.write_pos
<1>1. h \in Headers
  BY DEF CopyOK, HeaderOK
<1>2. /\ w \in Nat /\ upto \in Nat /\ w <= upto /\ upto <= w + AGG_SIZE /\ w >= Start /\ w <= End /\ w \in Start..End
      /\ h.write_pos \in Nat /\ h.last_write_pos \in Nat /\ h.write_pos >= Start /\ h.last_write_pos >= Start /\ h.write_pos \in Start..End
      /\ h.last_write_pos \in Blocks
      /\ h.sync_serial \in Nat /\ H.sync_serial \in Nat /\ h.write_serial \in Nat /\ H.write_serial \in Nat
  BY <1>1, HeaderFacts, Sizes
<1>3. /\ E \in Disks
      /\ \A p \in Blocks : p < w \/ p >= upto => E[p] = D[p]
      /\ \A p \in Blocks : w <= p /\ p < upto => E[p].ss = H.sync_serial /\ E[p].ws = H.write_serial
      /\ w < upto => E[w].k = 0 /\ E[w].len > 0
  <2>1. upto <= H.write_pos + SizeOf(b)
    BY <1>2
  <2> QED
    BY <1>2, <2>1, LaidFacts
<1>4. /\ h.sync_serial <= H.sync_serial /\ H.sync_serial <= h.sync_serial + 1 /\ h.sync_serial + 1 \in Nat
      /\ h.write_serial <= H.write_serial /\ Behind(s, O)
  BY <1>2 DEF Ahead
<1> HIDE DEF w, h
<1>5. CASE Hopeless(s, O)
  BY <1>4, <1>5 DEF Found
<1>6. ASSUME h.last_write_pos < h.write_pos, H.write_serial > h.write_serial,
             Overtaken(D, h) \/ (w <= h.last_write_pos /\ h.last_write_pos < upto)
      PROVE  Found(s, E, O)
  <2>1. Overtaken(E, h)
    BY <1>1, <1>2, <1>3, <1>6, OvertakenBy
  <2> QED
    BY <1>4, <2>1 DEF Found, h
<1>7. ASSUME NEW g \in h.write_pos..End, Ready(E, h), Run(E, h, g, H.sync_serial),
             KeptFrom(E, s, O, g + AGG_SIZE) \/ (g > End - AGG_SIZE /\ StartIsNew(E, h))
      PROVE  Found(s, E, O)
  <2>1. g \in Start..End
    BY <1>2, Sizes
  <2>2. Run(E, h, g, h.sync_serial + 1)
    BY <1>1, <1>2, <1>3, <1>4, <1>7, <2>1, RunHigher
  <2> QED
    BY <1>4, <1>7, <2>2 DEF Found, EndsAt, h
<1>8. ASSUME Ready(D, h), SameLap(s, H, D, O) PROVE Found(s, E, O)
  <2>1. w >= h.write_pos /\ Run(D, h, w, H.sync_serial) /\ KeptFrom(D, s, O, w) /\ h.last_write_pos < h.write_pos
    BY <1>8 DEF SameLap, Ready, h, w
  <2>2. Ready(E, h)
    <3>1. \A p \in h.last_write_pos..h.write_pos - 1 : E[p] = D[p]
      BY <1>2, <1>3, <2>1, Sizes
    <3> QED
      BY <1>1, <1>8, <3>1, ReadySame
  <2>3. Run(E, h, w, H.sync_serial)
    <3>1. \A p \in h.write_pos..w - 1 : E[p] = D[p]
      BY <1>2, <1>3, Sizes
    <3> QED
      BY <1>1, <1>2, <2>1, <3>1, RunSame
  <2>4. KeptFrom(E, s, O, w + AGG_SIZE)
    <3>0. w + AGG_SIZE \in Nat /\ w <= w + AGG_SIZE /\ \A p \in Blocks : p >= w + AGG_SIZE => p >= upto
      BY <1>2, Sizes
    <3>1. w + AGG_SIZE \in Nat /\ w <= w + AGG_SIZE /\ \A p \in Blocks : p < w \/ p >= w + AGG_SIZE => E[p] = D[p]
      BY <1>3, <3>0
    <3> QED
      BY <1>2, <1>4, <2>1, <3>1, KeptSame DEF h
  <2>5. w \in h.write_pos..End
    BY <1>2, <2>1, Sizes
  <2> QED
    BY <1>7, <2>2, <2>3, <2>4, <2>5
<1>9. ASSUME Ready(D, h), w <= h.last_write_pos, upto <= h.last_write_pos, (w = Start /\ w < upto) \/ StartIsNew(D, h),
             NEW g \in NearEnd, g >= h.write_pos, Run(D, h, g, H.sync_serial)
      PROVE  Found(s, E, O)
  <2>1. g \in Start..End /\ g \in h.write_pos..End /\ g > End - AGG_SIZE
    BY <1>2, <1>9, Sizes DEF NearEnd
  <2>2. Ready(E, h) /\ Run(E, h, g, H.sync_serial)
    BY <1>1, <1>2, <1>3, <1>9, <2>1, FrontLeaves
  <2>3. StartIsNew(E, h)
    <3>1. CASE w = Start /\ w < upto
      <4>1. w \in Blocks /\ w <= w
        BY <1>2, <3>1, Sizes
      <4>2. E[Start].ss = H.sync_serial /\ E[Start].k = 0 /\ E[Start].len > 0
        BY <1>3, <3>1, <4>1
      <4> QED
        BY <1>2, <1>4, <4>2 DEF StartIsNew
    <3>2. CASE ~(w = Start /\ w < upto)
      <4>1. Start \in Blocks /\ (Start < w \/ Start >= upto)
        BY <1>2, <3>2, Sizes
      <4>2. E[Start] = D[Start]
        BY <1>3, <4>1
      <4> QED
        BY <1>9, <3>2, <4>2 DEF StartIsNew
    <3> QED
      BY <3>1, <3>2
  <2> QED
    BY <1>7, <2>1, <2>2, <2>3
<1>10. ASSUME Ready(D, h), LapBegins(s, H, D, O) PROVE Found(s, E, O)
  <2>1. w = Start
    BY <1>10 DEF LapBegins, w
  <2>2. PICK g \in NearEnd : /\ g >= h.write_pos /\ Run(D, h, g, H.sync_serial) /\ KeptFrom(D, s, O, g)
                             /\ g = h.write_pos \/ H.write_serial > h.write_serial
    BY <1>10 DEF LapBegins, h
  <2>3. h.last_write_pos < h.write_pos /\ w <= h.last_write_pos
    BY <1>2, <1>10, <2>1 DEF Ready
  <2>4. CASE upto = w
    <3>1. \A p \in Blocks : E[p] = D[p]
      BY <1>2, <1>3, <2>4, Sizes
    <3>2. g \in Start..End /\ g \in h.write_pos..End /\ g \in Nat /\ g + AGG_SIZE \in Nat /\ g <= g + AGG_SIZE /\ h.write_pos <= h.write_pos
      BY <1>2, <2>2, Sizes DEF NearEnd
    <3>3. Ready(E, h)
      <4>1. \A p \in h.last_write_pos..h.write_pos - 1 : E[p] = D[p]
        BY <1>1, <3>1, HeaderFacts, Sizes
      <4> QED
        BY <1>1, <1>10, <4>1, ReadySame
    <3>4. Run(E, h, g, H.sync_serial)
      <4>1. \A p \in h.write_pos..g - 1 : E[p] = D[p]
        BY <1>2, <3>1, <3>2, Sizes
      <4> QED
        BY <1>1, <2>2, <3>2, <4>1, RunSame
    <3>5. KeptFrom(E, s, O, g + AGG_SIZE)
      BY <1>2, <1>4, <2>2, <3>1, <3>2, KeptSame DEF h
    <3> QED
      BY <1>7, <3>2, <3>3, <3>4, <3>5
  <2>5. CASE upto # w /\ upto <= h.last_write_pos
    <3>1. w < upto
      BY <1>2, <2>5
    <3> QED
      BY <1>9, <1>10, <2>1, <2>2, <2>3, <2>5, <3>1
  <2>6. CASE h.last_write_pos < upto
    <3>1. g # h.write_pos
      <4> SUFFICES ASSUME g = h.write_pos PROVE FALSE
        OBVIOUS
      <4>1. AGG_SIZE \in Nat /\ AGG_SIZE <= AGG_SIZE
        BY Sizes
      <4>2. Start + AGG_SIZE <= h.last_write_pos
        BY <1>1, <1>10, <4>1, FarFromStart
      <4> QED
        BY <1>2, <2>1, <2>6, <4>1, <4>2
    <3> QED
      BY <1>6, <2>2, <2>3, <2>6, <3>1
  <2> QED
    BY <1>2, <2>4, <2>5, <2>6
<1>11. ASSUME Ready(D, h), NextLap(s, H, D) PROVE Found(s, E, O)
  <2>1. w <= h.last_write_pos /\ H.write_serial > h.write_serial /\ StartIsNew(D, h)
    BY <1>11 DEF NextLap, h, w
  <2>2. PICK g \in NearEnd : g >= h.write_pos /\ Run(D, h, g, H.sync_serial)
    BY <1>11 DEF NextLap, h
  <2>3. h.last_write_pos < h.write_pos
    BY <1>11 DEF Ready
  <2>4. CASE upto <= h.last_write_pos
    BY <1>9, <1>11, <2>1, <2>2, <2>4
  <2>5. CASE h.last_write_pos < upto
    BY <1>6, <2>1, <2>3, <2>5
  <2> QED
    BY <1>2, <2>4, <2>5
<1>12. CASE Overtaken(D, h) /\ H.write_serial > h.write_serial
  BY <1>6, <1>12 DEF Overtaken
<1> QED
  BY <1>5, <1>8, <1>10, <1>11, <1>12 DEF Ahead, h

-----------------------------------------------------------------------------
(* The running volume                                                        *)

\* What LogInv says of a state in which the volume runs.
LEMMA UpFacts ==
  ASSUME LogInv, mode = "up"
  PROVE  /\ header \in Headers /\ HeaderOK(header) /\ DirOK(dir) /\ CopyOK(saved) /\ data \in Disks
         /\ \A s \in pend : CopyOK(s) /\ s.header.sync_serial > 0
         /\ spent \in [DOMAIN LogBound -> Nat] /\ spent.writes \in Nat /\ misled \in BOOLEAN
         /\ saved.header.sync_serial = 0 => saved = NeverSynced
         /\ ~misled => /\ Live /\ \A s \in pend : Ahead(s, header, data, orphans)
                       /\ saved.header.sync_serial > 0 => Ahead(saved, header, data, orphans)
<1>1. "writes" \in DOMAIN LogBound
  BY DEF LogBound
<1>2. spent \in [DOMAIN LogBound -> Nat] /\ spent.writes \in Nat
  BY <1>1 DEF LogInv, LogTypes
<1> QED
  BY <1>2 DEF LogInv, LogTypes, HeaderOK

\* A step that spends some of a bound.
LEMMA SpendType ==
  ASSUME NEW x \in DOMAIN LogBound, LogSpend(x), spent \in [DOMAIN LogBound -> Nat]
  PROVE  spent' \in [DOMAIN LogBound -> Nat]
  BY DEF LogSpend

\* LogInv, of a running volume, from its parts.
LEMMA UpHolds ==
  ASSUME mode' = "up", HeaderOK(header'), DirOK(dir'), CopyOK(saved'), data' \in Disks,
         \A s \in pend' : CopyOK(s) /\ s.header.sync_serial > 0,
         spent' \in [DOMAIN LogBound -> Nat], misled' \in BOOLEAN,
         batch' # << >> => batch' \in Batches /\ header'.agg_pos = header'.write_pos + SizeOf(batch'),
         saved'.header.sync_serial = 0 => saved' = NeverSynced,
         ~misled' => /\ Live' /\ \A s \in pend' : Ahead(s, header', data', orphans')
                     /\ saved'.header.sync_serial > 0 => Ahead(saved', header', data', orphans')
  PROVE  LogInv'
<1>1. ~Recovering'
  BY DEF Recovering
<1>2. NeverSynced' = NeverSynced /\ LogBound' = LogBound
  BY DEF NeverSynced, FreshHeader, LogBound
<1>3. LogTypes'
  BY <1>1, <1>2 DEF LogTypes
<1> QED
  BY <1>1, <1>3 DEF LogInv

\* LogSyncEnd: the copy that was taken becomes the one a restart loads.
LEMMA SyncEndKeeps ==
  ASSUME LogInv, LogSyncEnd
  PROVE  LogInv'
<1>1. mode = "up" /\ mode' = "up" /\ saved' \in pend /\ pend' = {}
  BY DEF LogSyncEnd
<1>2. UNCHANGED <<header, dir, batch, data, mode, scan, orphans, misled, spent>>
  BY DEF LogSyncEnd
<1>3. saved'.header.sync_serial > 0 /\ CopyOK(saved') /\ saved'.header.sync_serial # 0
  <2>1. saved'.header.sync_serial > 0 /\ CopyOK(saved')
    BY <1>1, UpFacts
  <2> QED
    BY <2>1
<1>4. batch # << >> => batch \in Batches /\ header.agg_pos = header.write_pos + SizeOf(batch)
  BY DEF LogInv, LogTypes
<1>5. ASSUME ~misled PROVE Live' /\ Ahead(saved', header', data', orphans')
  <2>1. Live /\ Ahead(saved', header, data, orphans)
    BY <1>1, <1>5, UpFacts
  <2>2. header.sync_serial = saved'.header.sync_serial
    BY <1>1, <2>1 DEF Live
  <2> QED
    BY <1>1, <1>2, <2>1, <2>2 DEF Live
<1> QED
  BY <1>1, <1>2, <1>3, <1>4, <1>5, UpFacts, UpHolds

\* Between two writes, every valid entry of the running volume is intact, and
\* those of this phase lie before the write position.
LEMMA LiveCopy ==
  ASSUME LogTypes, Live, batch = << >>
  PROVE  \A e \in dir \ orphans : /\ dir_valid(header, << >>, e) => IntactIn(data, e)
                                  /\ e.phase = header.phase => vol_offset(e) + e.len <= header.write_pos
<1> SUFFICES ASSUME NEW e \in dir \ orphans
             PROVE  /\ dir_valid(header, << >>, e) => IntactIn(data, e)
                    /\ e.phase = header.phase => vol_offset(e) + e.len <= header.write_pos
  OBVIOUS
<1>1. EntryOK(e, header, batch, spent.writes, data) /\ ~InCopy(e, header, batch, spent.writes)
  BY DEF Live, InCopy
<1>2. e \in EntrySet /\ header \in Headers /\ header.write_pos <= header.agg_pos /\ vol_offset(e) + e.len <= End
  BY DEF LogTypes, DirOK, HeaderOK
<1>3. vol_offset(e) \in Nat /\ header.write_pos \in Nat /\ header.agg_pos \in Nat
  BY <1>2, EntryFacts, HeaderFacts, Sizes
<1>4. e.phase # header.phase /\ dir_valid(header, << >>, e) => vol_offset(e) >= header.agg_pos
  BY <1>2, ValidFacts
<1> QED
  BY <1>1, <1>2, <1>3, <1>4 DEF EntryOK

\* The serial of the header in memory goes up by one.
LEMMA AheadSync ==
  ASSUME NEW s, CopyOK(s), NEW H \in Headers, NEW G, NEW D \in Disks, NEW O, Ahead(s, H, D, O),
         H.sync_serial = s.header.sync_serial,
         G.write_pos = H.write_pos, G.sync_serial = H.sync_serial + 1, G.write_serial = H.write_serial
  PROVE  Ahead(s, G, D, O)
<1> DEFINE h == s.header
<1>1. /\ h \in Headers /\ H.sync_serial \in Nat /\ H.sync_serial + 1 \in Nat /\ H.sync_serial <= H.sync_serial + 1
      /\ H.write_pos \in Start..End
  BY HeaderFacts DEF CopyOK, HeaderOK
<1>2. NearEnd \subseteq Start..End
  BY Sizes DEF NearEnd
<1>3. ASSUME NEW g \in Start..End, Run(D, h, g, H.sync_serial) PROVE Run(D, h, g, G.sync_serial)
  BY <1>1, <1>3, RunHigher
<1>4. SameLap(s, H, D, O) => SameLap(s, G, D, O)
  BY <1>1, <1>3 DEF SameLap
<1>5. LapBegins(s, H, D, O) => LapBegins(s, G, D, O)
  BY <1>2, <1>3 DEF LapBegins
<1>6. NextLap(s, H, D) => NextLap(s, G, D)
  BY <1>2, <1>3 DEF NextLap
<1> QED
  BY <1>1, <1>4, <1>5, <1>6 DEF Ahead

\* A copy of the directory as it is.
LEMMA AheadOfItself ==
  ASSUME NEW D, NEW s, CopyOK(s), NEW O, Behind(s, O),
         Hopeless(s, O) \/ (Ready(D, s.header) /\ KeptFrom(D, s, O, s.header.write_pos))
  PROVE  Ahead(s, s.header, D, O)
<1>1. /\ s.header.write_pos \in Start..End /\ s.header.sync_serial \in Nat /\ s.header.write_serial \in Nat
      /\ s.header.write_pos \in Nat
  BY HeaderFacts DEF CopyOK, HeaderOK
<1>2. Run(D, s.header, s.header.write_pos, s.header.sync_serial)
  BY <1>1, EmptyRun DEF Run
<1> QED
  BY <1>1, <1>2 DEF Ahead, SameLap

\* A copy of the running volume between two writes.
LEMMA AheadOfLive ==
  ASSUME LogTypes, Live, batch = << >>, NEW s, CopyOK(s), s.dir = dir,
         s.header.write_pos = header.write_pos, s.header.agg_pos = header.agg_pos,
         s.header.phase = header.phase, s.header.last_write_pos = header.last_write_pos,
         Ready(data, header) => Ready(data, s.header)
  PROVE  Ahead(s, s.header, data, orphans)
<1>1. Behind(s, orphans)
  BY LiveCopy DEF Behind
<1>2. KeptFrom(data, s, orphans, s.header.write_pos)
  <2>1. \A e \in s.dir : dir_valid(s.header, << >>, e) <=> dir_valid(header, << >>, e)
    BY DEF dir_valid
  <2> QED
    BY <2>1, LiveCopy DEF KeptFrom
<1>3. CASE Unwritten(header)
  <2>1. ASSUME NEW e \in dir \ orphans PROVE FALSE
    <3>1. e.phase = header.phase /\ header.write_pos = Start
      BY <1>3 DEF Live, Unwritten
    <3>2. vol_offset(e) + e.len <= Start
      BY <3>1, LiveCopy
    <3>3. e \in EntrySet /\ vol_offset(e) + e.len <= End
      BY DEF LogTypes, DirOK
    <3>4. vol_offset(e) \in Blocks /\ e.len \in Nat /\ e.len >= 1
      BY <3>3, EntryFacts
    <3> QED
      BY <3>2, <3>4, Sizes
  <2>2. Hopeless(s, orphans)
    BY <1>3, <2>1 DEF Hopeless, Unwritten
  <2> QED
    BY <1>1, <2>2, AheadOfItself
<1>4. CASE JustWrapped(header)
  <2>1. Hopeless(s, orphans)
    BY <1>4 DEF Hopeless, JustWrapped
  <2> QED
    BY <1>1, <2>1, AheadOfItself
<1>5. CASE Ready(data, header)
  BY <1>1, <1>2, <1>5, AheadOfItself
<1> QED
  BY <1>3, <1>4, <1>5 DEF Live

\* LogSyncBegin: a new copy, in step with the volume; the one on disk falls
\* behind by one serial.
LEMMA LogSyncBeginKeeps ==
  ASSUME LogInv, LogSyncBegin
  PROVE  LogInv'
<1> DEFINE s == [header |-> header', dir |-> dir]
<1>1. /\ mode = "up" /\ mode' = "up" /\ batch = << >> /\ batch' = << >> /\ pend = {} /\ pend' = {s}
      /\ header' = [header EXCEPT !.sync_serial = @ + 1, !.dirty = FALSE] /\ LogSpend("syncs")
  BY DEF LogSyncBegin
<1>2. UNCHANGED <<dir, batch, data, saved, mode, scan, orphans, misled>>
  BY DEF LogSyncBegin
<1>3. /\ header \in Headers /\ header.write_pos <= header.agg_pos /\ DirOK(dir) /\ CopyOK(saved) /\ data \in Disks
      /\ header.sync_serial \in Nat
  BY <1>1, UpFacts, HeaderFacts DEF HeaderOK
<1>4. /\ header' \in Headers /\ HeaderOK(header') /\ header'.sync_serial = header.sync_serial + 1
      /\ header'.write_pos = header.write_pos /\ header'.agg_pos = header.agg_pos /\ header'.phase = header.phase
      /\ header'.last_write_pos = header.last_write_pos /\ header'.write_serial = header.write_serial
  <2>1. header.sync_serial + 1 \in Nat /\ FALSE \in BOOLEAN
    BY <1>3
  <2>2. header' \in Headers
    BY <1>1, <1>3, <2>1, Zenon DEF Headers
  <2>3. /\ header'.sync_serial = header.sync_serial + 1
        /\ header'.write_pos = header.write_pos /\ header'.agg_pos = header.agg_pos /\ header'.phase = header.phase
        /\ header'.last_write_pos = header.last_write_pos /\ header'.write_serial = header.write_serial
    BY <1>1, <1>3 DEF Headers
  <2> QED
    BY <1>3, <2>2, <2>3 DEF HeaderOK
<1>5. CopyOK(s) /\ s.header = header' /\ s.dir = dir /\ s.header.sync_serial > 0
  <2>1. s.header = header' /\ s.dir = dir
    OBVIOUS
  <2> QED
    BY <1>3, <1>4, <2>1 DEF CopyOK
<1>6. spent' \in [DOMAIN LogBound -> Nat] /\ spent.writes' = spent.writes
  <2>1. "syncs" \in DOMAIN LogBound /\ "writes" # "syncs" /\ "writes" \in DOMAIN LogBound
    BY DEF LogBound
  <2>2. spent \in [DOMAIN LogBound -> Nat]
    BY <1>1, UpFacts
  <2> QED
    BY <1>1, <2>1, <2>2, SpendType DEF LogSpend
<1>7. ASSUME ~misled PROVE Live' /\ Ahead(s, header', data, orphans) /\ (saved.header.sync_serial > 0 => Ahead(saved, header', data, orphans))
  <2>1. Live /\ LogTypes /\ (saved.header.sync_serial > 0 => Ahead(saved, header, data, orphans))
    BY <1>1, <1>7, UpFacts DEF LogInv
  <2>2. header.sync_serial = saved.header.sync_serial
    BY <1>1, <2>1 DEF Live
  <2>3. Ready(data, header) => Ready(data, header')
    <3> SUFFICES ASSUME Ready(data, header) PROVE Ready(data, header')
      OBVIOUS
    <3>1. ASSUME NEW p \in header.last_write_pos..header.write_pos - 1 PROVE data[p].ss <= header.sync_serial + 1
      <4>1. p \in Blocks
        BY <1>3, HeaderFacts, Sizes
      <4>2. data[p].ss \in Nat /\ data[p].ss <= header.sync_serial
        BY <1>3, <4>1, BlockType DEF Ready
      <4> QED
        BY <1>3, <4>2
    <3> QED
      BY <1>4, <3>1 DEF Ready
  <2>4. Ahead(s, header', data, orphans)
    BY <1>1, <1>4, <1>5, <2>1, <2>3, AheadOfLive
  <2>5. saved.header.sync_serial > 0 => Ahead(saved, header', data, orphans)
    BY <1>3, <1>4, <2>1, <2>2, AheadSync
  <2>6. \A e : EntryOK(e, header, batch, spent.writes, data) => EntryOK(e, header', batch, spent'.writes, data)
    BY <1>4, <1>6 DEF EntryOK, InCopy
  <2>7. (Unwritten(header) <=> Unwritten(header')) /\ (JustWrapped(header) <=> JustWrapped(header'))
    BY <1>4 DEF Unwritten, JustWrapped
  <2>8. \A e \in dir' \ orphans' : EntryOK(e, header', batch', spent'.writes, data')
    BY <1>2, <2>1, <2>6 DEF Live
  <2>9. \A x \in pend' : x.header.sync_serial = header'.sync_serial /\ header'.sync_serial = saved'.header.sync_serial + 1
    BY <1>1, <1>2, <1>4, <1>5, <2>2
  <2>10. Unwritten(header') => \A e \in dir' \ orphans' : e.phase = header'.phase
    BY <1>2, <1>4, <2>1, <2>7 DEF Live
  <2>11. Ready(data', header') \/ Unwritten(header') \/ JustWrapped(header')
    BY <1>2, <2>1, <2>3, <2>7 DEF Live
  <2>12. pend' # {}
    BY <1>1
  <2>13. Live'
    BY <2>8, <2>9, <2>10, <2>11, <2>12 DEF Live
  <2> QED
    BY <2>4, <2>5, <2>13
<1> QED
  BY <1>1, <1>2, <1>4, <1>5, <1>6, <1>7, UpFacts, UpHolds

\* A part of a write, left by a failure, over documents that are given up.
LEMMA KeptApart ==
  ASSUME NEW D \in Disks, NEW E, NEW s, CopyOK(s), NEW O, NEW b, KeptFrom(D, s, O, b), NEW w \in Nat, NEW v \in Nat,
         \A p \in Blocks : p < w \/ p >= v => E[p] = D[p],
         \A e \in s.dir \ O : \A p \in w..v - 1 : ~(vol_offset(e) <= p /\ p < vol_offset(e) + e.len)
  PROVE  KeptFrom(E, s, O, b)
<1> SUFFICES ASSUME NEW e \in s.dir \ O, IntactIn(D, e) PROVE IntactIn(E, e)
  BY DEF KeptFrom
<1>1. e \in EntrySet /\ vol_offset(e) + e.len <= End
  BY DEF CopyOK, DirOK
<1> QED
  BY <1>1, IntactApart

\* The same, of a copy of the directory.
LEMMA AheadFailed ==
  ASSUME NEW s, CopyOK(s), NEW H \in Headers, NEW D \in Disks, NEW E, NEW O, NEW b, NEW v \in Nat,
         SizeOf(b) \in Nat, SizeOf(b) <= AGG_SIZE, H.write_pos + SizeOf(b) <= End,
         v >= H.write_pos, v <= H.write_pos + SizeOf(b),
         Laid(D, E, H, b, v), Ahead(s, H, D, O),
         \A e \in s.dir \ O : \A p \in H.write_pos..v - 1 : ~(vol_offset(e) <= p /\ p < vol_offset(e) + e.len)
  PROVE  Ahead(s, H, E, O)
<1> DEFINE h == s.header
           w == H.write_pos
<1>1. h \in Headers
  BY DEF CopyOK, HeaderOK
<1>2. /\ w \in Nat /\ v \in Nat /\ w <= v /\ v <= w + AGG_SIZE /\ v <= End /\ w >= Start /\ w \in Start..End
      /\ h.write_pos \in Nat /\ h.last_write_pos \in Nat /\ h.write_pos >= Start /\ h.last_write_pos >= Start
      /\ h.sync_serial \in Nat /\ H.sync_serial \in Nat /\ h.write_serial \in Nat /\ H.write_serial \in Nat
  BY <1>1, HeaderFacts, Sizes
<1>3. /\ E \in Disks
      /\ \A p \in Blocks : p < w \/ p >= v => E[p] = D[p]
      /\ \A p \in Blocks : w <= p /\ p < v => E[p].ss = H.sync_serial /\ E[p].ws = H.write_serial
      /\ w < v => E[w].k = 0 /\ E[w].len > 0
  BY LaidFacts
<1>4. /\ h.sync_serial <= H.sync_serial /\ H.sync_serial <= h.sync_serial + 1
      /\ h.write_serial <= H.write_serial /\ Behind(s, O)
  BY DEF Ahead
<1>5. \A x : KeptFrom(D, s, O, x) => KeptFrom(E, s, O, x)
  BY <1>2, <1>3, KeptApart
<1> HIDE DEF w, h
<1>6. CASE Hopeless(s, O)
  BY <1>4, <1>6 DEF Ahead, h
<1>7. ASSUME h.last_write_pos < h.write_pos, H.write_serial > h.write_serial,
             Overtaken(D, h) \/ (w <= h.last_write_pos /\ h.last_write_pos < v)
      PROVE  Ahead(s, H, E, O)
  <2>1. Overtaken(E, h)
    BY <1>1, <1>2, <1>3, <1>7, OvertakenBy
  <2> QED
    BY <1>4, <1>7, <2>1 DEF Ahead, h
<1>8. ASSUME Ready(D, h), SameLap(s, H, D, O) PROVE Ahead(s, H, E, O)
  <2>1. w >= h.write_pos /\ Run(D, h, w, H.sync_serial) /\ KeptFrom(D, s, O, w) /\ h.last_write_pos < h.write_pos
    BY <1>8 DEF SameLap, Ready, h, w
  <2>2. Ready(E, h)
    <3>1. \A p \in h.last_write_pos..h.write_pos - 1 : E[p] = D[p]
      BY <1>2, <1>3, <2>1, Sizes
    <3> QED
      BY <1>1, <1>8, <3>1, ReadySame
  <2>3. Run(E, h, w, H.sync_serial)
    <3>1. \A p \in h.write_pos..w - 1 : E[p] = D[p]
      BY <1>2, <1>3, Sizes
    <3> QED
      BY <1>1, <1>2, <2>1, <3>1, RunSame
  <2>4. SameLap(s, H, E, O)
    BY <1>5, <1>8, <2>1, <2>3 DEF SameLap, h, w
  <2> QED
    BY <1>4, <2>2, <2>4 DEF Ahead, h
<1>9. ASSUME Ready(D, h), v <= h.last_write_pos, NEW g \in NearEnd, g >= h.write_pos, Run(D, h, g, H.sync_serial)
      PROVE  Ready(E, h) /\ Run(E, h, g, H.sync_serial)
  <2>1. g \in Start..End
    BY Sizes DEF NearEnd
  <2> QED
    BY <1>1, <1>2, <1>3, <1>9, <2>1, FrontLeaves
<1>10. ASSUME Ready(D, h), LapBegins(s, H, D, O) PROVE Ahead(s, H, E, O)
  <2>1. PICK g \in NearEnd : /\ g >= h.write_pos
                             /\ Run(D, h, g, H.sync_serial) /\ KeptFrom(D, s, O, g)
                             /\ g = h.write_pos \/ H.write_serial > h.write_serial
    BY <1>10 DEF LapBegins, h
  <2>2. w = Start /\ h.last_write_pos < h.write_pos
    BY <1>10 DEF LapBegins, Ready, w
  <2>3. CASE v <= h.last_write_pos
    <3>1. Ready(E, h) /\ Run(E, h, g, H.sync_serial) /\ KeptFrom(E, s, O, g)
      BY <1>5, <1>9, <1>10, <2>1, <2>3
    <3>2. LapBegins(s, H, E, O)
      BY <2>1, <2>2, <3>1 DEF LapBegins, h, w
    <3> QED
      BY <1>4, <3>1, <3>2 DEF Ahead, h
  <2>4. CASE ~(v <= h.last_write_pos)
    <3>1. w <= h.last_write_pos /\ h.last_write_pos < v
      BY <1>2, <2>2, <2>4
    <3>2. g # h.write_pos
      <4>1. SUFFICES ASSUME h.write_pos \in NearEnd PROVE FALSE
        BY <2>1
      <4>2. Start + AGG_SIZE <= h.last_write_pos
        BY <1>1, <1>10, <4>1, FarFromStart, Sizes
      <4> QED
        BY <1>2, <2>2, <3>1, <4>2, Sizes
    <3> QED
      BY <1>7, <2>1, <2>2, <3>1, <3>2
  <2> QED
    BY <2>3, <2>4
<1>11. ASSUME Ready(D, h), NextLap(s, H, D) PROVE Ahead(s, H, E, O)
  <2>1. PICK g \in NearEnd : g >= h.write_pos /\ Run(D, h, g, H.sync_serial)
    BY <1>11 DEF NextLap, h
  <2>2. w <= h.last_write_pos /\ H.write_serial > h.write_serial /\ StartIsNew(D, h) /\ h.last_write_pos < h.write_pos
    BY <1>11 DEF NextLap, Ready, h, w
  <2>3. CASE v <= h.last_write_pos
    <3>1. Ready(E, h) /\ Run(E, h, g, H.sync_serial)
      BY <1>9, <1>11, <2>1, <2>3
    <3>2. StartIsNew(E, h)
      <4>1. CASE w = Start /\ w < v
        <5>1. w \in Blocks /\ w <= w
          BY <1>2, <4>1, Sizes
        <5>2. E[Start].ss = H.sync_serial /\ E[Start].k = 0 /\ E[Start].len > 0
          BY <1>3, <4>1, <5>1
        <5> QED
          BY <1>4, <5>2 DEF StartIsNew
      <4>2. CASE ~(w = Start /\ w < v)
        <5>1. Start \in Blocks /\ (Start < w \/ Start >= v)
          BY <1>2, <4>2, Sizes
        <5>2. E[Start] = D[Start]
          BY <1>3, <5>1
        <5> QED
          BY <2>2, <5>2 DEF StartIsNew
      <4> QED
        BY <4>1, <4>2
    <3>3. NextLap(s, H, E)
      BY <2>1, <2>2, <3>1, <3>2 DEF NextLap, h, w
    <3> QED
      BY <1>4, <3>1, <3>3 DEF Ahead, h
  <2>4. CASE ~(v <= h.last_write_pos)
    <3>1. h.last_write_pos < v
      BY <1>2, <2>4
    <3> QED
      BY <1>7, <2>2, <3>1
  <2> QED
    BY <2>3, <2>4
<1> QED
  BY <1>6, <1>7, <1>8, <1>10, <1>11 DEF Ahead, Overtaken, h

\* aggWriteFailed: the entries of the buffer are orphans from now on, and so
\* are those whose documents it has hit.
LEMMA aggWriteFailedKeeps ==
  ASSUME LogInv, aggWriteFailed
  PROVE  LogInv'
<1> DEFINE w == header.write_pos
           n == SizeOf(batch)
           mine == {e \in dir : \E i \in 1..Len(batch) :
                      /\ e.off = offset_to_vol_offset(header.write_pos + Before(batch, i))
                      /\ e.phase = header.phase}
           hit(v) == {e \in dir \cup UNION {d.dir : d \in pend \cup {saved}} :
                        \E p \in w..v - 1 : vol_offset(e) <= p /\ p < vol_offset(e) + e.len}
<1>1. /\ mode = "up" /\ mode' = "up" /\ batch # << >> /\ batch' = << >> /\ LogSpend("errors")
      /\ dir' \subseteq dir
  BY DEF aggWriteFailed
<1>2. UNCHANGED <<header, saved, pend, mode, scan, misled>>
  BY DEF aggWriteFailed
<1>3. PICK v \in w..w + n : data' = Written(v) /\ orphans' = orphans \cup mine \cup hit(v)
  BY DEF aggWriteFailed
<1>4. LogTypes
  BY DEF LogInv
<1>5. /\ header \in Headers /\ data \in Disks /\ w \in Nat /\ w \in Start..End /\ n \in Nat /\ n <= AGG_SIZE /\ w + n <= End
      /\ v \in Nat /\ w <= v /\ v <= w + n
  BY <1>1, <1>4, BatchFacts, Sizes
<1>6. Laid(data, data', header, batch, v)
  BY <1>1, <1>3, <1>4, <1>5, WrittenLaid
<1>7. data' \in Disks /\ \A p \in Blocks : p < w \/ p >= v => data'[p] = data[p]
  BY <1>5, <1>6, LaidFacts
<1>8. DirOK(dir')
  BY <1>1, UpFacts DEF DirOK
<1>9. spent' \in [DOMAIN LogBound -> Nat]
  <2>1. "errors" \in DOMAIN LogBound
    BY DEF LogBound
  <2> QED
    BY <1>1, <2>1, UpFacts, SpendType
<1>10. ASSUME NEW e, e \in dir \/ (\E s \in pend \cup {saved} : e \in s.dir), e \notin orphans'
       PROVE  \A p \in w..v - 1 : ~(vol_offset(e) <= p /\ p < vol_offset(e) + e.len)
  <2>1. e \in dir \cup UNION {d.dir : d \in pend \cup {saved}}
    <3>1. CASE e \in dir
      BY <3>1, Zenon
    <3>2. ASSUME NEW s \in pend \cup {saved}, e \in s.dir PROVE e \in UNION {d.dir : d \in pend \cup {saved}}
      BY <3>2, Zenon
    <3> QED
      BY <1>10, <3>1, <3>2, Zenon
  <2>2. e \notin hit(v)
    BY <1>3, <1>10
  <2> QED
    BY <2>1, <2>2
<1>11. ASSUME ~misled PROVE Live'
  <2>1. Live
    BY <1>1, <1>11, UpFacts
  <2>2. ASSUME NEW e \in dir' \ orphans' PROVE EntryOK(e, header', batch', spent'.writes, data')
    <3>1. e \in dir \ orphans /\ e \notin mine /\ e \notin orphans'
      BY <1>1, <1>3
    <3>2. EntryOK(e, header, batch, spent.writes, data)
      BY <2>1, <3>1 DEF Live
    <3>3. e \in EntrySet /\ vol_offset(e) + e.len <= End
      BY <1>4, <3>1 DEF LogTypes, DirOK
    <3>4. ~InCopy(e, header, batch, spent.writes)
      <4> SUFFICES ASSUME NEW j \in 1..Len(batch), e.phase = header.phase,
                          vol_offset(e) = header.write_pos + Before(batch, j)
                   PROVE  FALSE
        BY DEF InCopy
      <4>1. e.off \in Nat
        BY <3>3, Sizes DEF EntrySet
      <4>2. header.write_pos + Before(batch, j) \in Nat
        BY <1>1, <1>4, BatchFacts, DocsLieApart
      <4>3. e.off = offset_to_vol_offset(header.write_pos + Before(batch, j))
        BY <4>1, <4>2, Sizes DEF vol_offset, offset_to_vol_offset
      <4> QED
        BY <3>1, <4>3
    <3>5. \A p \in w..v - 1 : ~(vol_offset(e) <= p /\ p < vol_offset(e) + e.len)
      BY <1>10, <3>1
    <3>6. IntactIn(data, e) => IntactIn(data', e)
      BY <1>5, <1>7, <3>3, <3>5, IntactApart
    <3> QED
      BY <1>2, <3>2, <3>4, <3>6 DEF EntryOK
  <2>3. ASSUME Ready(data, header) PROVE Ready(data', header)
    <3>1. \A p \in header.last_write_pos..header.write_pos - 1 : p \in Blocks /\ p < w
      BY <1>5, HeaderFacts, Sizes
    <3> QED
      BY <1>5, <1>7, <2>3, <3>1, ReadySame
  <2>4. Unwritten(header) => \A e \in dir' \ orphans' : e.phase = header.phase
    BY <1>1, <1>3, <2>1 DEF Live
  <2>5. /\ pend = {} => header.sync_serial = saved.header.sync_serial
        /\ \A s \in pend : /\ s.header.sync_serial = header.sync_serial
                           /\ header.sync_serial = saved.header.sync_serial + 1
    BY <2>1 DEF Live
  <2>6. Ready(data', header) \/ Unwritten(header) \/ JustWrapped(header)
    BY <2>1, <2>3 DEF Live
  <2> QED
    BY <1>2, <2>2, <2>4, <2>5, <2>6 DEF Live
<1>12. ASSUME NEW s \in pend \cup {saved}, CopyOK(s), Ahead(s, header, data, orphans)
       PROVE  Ahead(s, header, data', orphans')
  <2>1. orphans \subseteq orphans'
    BY <1>3
  <2>2. Ahead(s, header, data, orphans')
    BY <1>12, <2>1, AheadMore
  <2>3. \A e \in s.dir \ orphans' : \A p \in w..v - 1 : ~(vol_offset(e) <= p /\ p < vol_offset(e) + e.len)
    BY <1>10
  <2> QED
    BY <1>5, <1>6, <1>12, <2>2, <2>3, AheadFailed
<1>13. ASSUME ~misled
       PROVE  /\ \A s \in pend : Ahead(s, header, data', orphans')
              /\ saved.header.sync_serial > 0 => Ahead(saved, header, data', orphans')
  <2>1. CopyOK(saved) /\ \A s \in pend : CopyOK(s)
    BY <1>4 DEF LogTypes
  <2>2. /\ \A s \in pend : Ahead(s, header, data, orphans)
        /\ saved.header.sync_serial > 0 => Ahead(saved, header, data, orphans)
    BY <1>1, <1>13, UpFacts
  <2> QED
    BY <1>12, <2>1, <2>2
<1> QED
  BY <1>1, <1>2, <1>7, <1>8, <1>9, <1>11, <1>13, UpFacts, UpHolds

\* aggWriteDone: the documents of the buffer are on disk; a copy may be
\* overtaken by them.
LEMMA aggWriteDoneKeeps ==
  ASSUME LogInv, aggWriteDone
  PROVE  LogInv'
<1> DEFINE w == header.write_pos
           n == SizeOf(batch)
<1>1. /\ mode = "up" /\ mode' = "up" /\ batch # << >> /\ batch' = << >> /\ data' = Written(End)
      /\ header' = [header EXCEPT !.last_write_pos = w, !.write_pos = @ + n, !.write_serial = @ + 1]
  BY DEF aggWriteDone
<1>2. UNCHANGED <<dir, saved, pend, mode, scan, orphans, misled, spent>>
  BY DEF aggWriteDone
<1>3. LogTypes /\ End \in Nat
  BY Sizes DEF LogInv
<1>4. /\ batch \in Lengths /\ header \in Headers /\ data \in Disks /\ w \in Nat /\ w \in Start..End
      /\ n \in Nat /\ 1 <= n /\ n <= AGG_SIZE /\ w + n = header.agg_pos /\ header.agg_pos \in Start..End
      /\ w < w + n /\ w + n <= End /\ Start <= w
  BY <1>1, <1>3, BatchFacts, Sizes
<1>5. header.write_serial \in Nat /\ header.sync_serial \in Nat
  BY <1>4, HeaderFacts
<1>6. /\ header' \in Headers /\ header'.write_pos = w + n /\ header'.last_write_pos = w
      /\ header'.write_serial = header.write_serial + 1 /\ header'.sync_serial = header.sync_serial
      /\ header'.phase = header.phase /\ header'.agg_pos = header.agg_pos
  <2>1. w \in Start..End - 1 /\ w + n \in Start..End /\ header.write_serial + 1 \in Nat
    BY <1>4, <1>5, Sizes
  <2>2. header' \in Headers
    BY <1>1, <1>4, <2>1, Zenon DEF Headers
  <2> QED
    BY <1>1, <1>4, <2>2 DEF Headers
<1>7. HeaderOK(header')
  BY <1>4, <1>6 DEF HeaderOK
<1>8. Laid(data, data', header, batch, w + n)
  <2>1. Laid(data, data', header, batch, End)
    BY <1>1, <1>3, WrittenLaid
  <2>2. \A p \in Blocks : p \in Nat /\ p < End
    BY Sizes
  <2> QED
    BY <1>3, <1>4, <2>1, <2>2 DEF Laid
<1>9. /\ data' \in Disks /\ \A p \in Blocks : p < w \/ p >= w + n => data'[p] = data[p]
      /\ \A p \in Blocks : w <= p /\ p < w + n => data'[p].ss = header.sync_serial
  BY <1>8 DEF Laid
<1>10. /\ Tiled(data', w, w + n)
       /\ \A e \in EntrySet : InCopy(e, header, batch, spent.writes) => IntactIn(data', e)
  BY <1>1, <1>3, WrittenWhole
<1> HIDE DEF w, n
<1>11. Ready(data', header')
  <2>1. \A p \in w..(w + n) - 1 : data'[p].ss <= header.sync_serial
    <3>1. \A p \in w..(w + n) - 1 : p \in Blocks /\ w <= p /\ p < w + n
      BY <1>4, Sizes
    <3> QED
      BY <1>5, <1>9, <3>1
  <2>2. w + n <= w + AGG_SIZE
    BY <1>4, Sizes
  <2> QED
    BY <1>4, <1>6, <1>10, <2>1, <2>2 DEF Ready
<1>12. ASSUME NEW e \in dir \ orphans, EntryOK(e, header, batch, spent.writes, data)
       PROVE  EntryOK(e, header', << >>, spent.writes, data')
  <2>1. e \in EntrySet /\ vol_offset(e) + e.len <= End
    BY <1>3 DEF LogTypes, DirOK
  <2>2. /\ vol_offset(e) \in Nat /\ e.len \in Nat
        /\ \A i \in 0..e.len - 1 : /\ vol_offset(e) + i \in Blocks /\ vol_offset(e) + i < vol_offset(e) + e.len
                                   /\ vol_offset(e) + i >= vol_offset(e)
    BY <2>1, EntryFacts, Sizes
  <2>3. CASE e.phase = header.phase /\ vol_offset(e) + e.len <= w /\ IntactIn(data, e)
    <3>1. \A i \in 0..e.len - 1 : vol_offset(e) + i < w
      BY <1>4, <2>2, <2>3
    <3>2. \A i \in 0..e.len - 1 : data'[vol_offset(e) + i] = data[vol_offset(e) + i]
      BY <1>9, <2>2, <3>1
    <3>3. IntactIn(data', e)
      BY <2>1, <2>3, <3>2, IntactSame
    <3>4. vol_offset(e) + e.len <= w + n
      BY <1>4, <2>2, <2>3
    <3> QED
      BY <1>6, <2>3, <3>3, <3>4 DEF EntryOK
  <2>4. CASE InCopy(e, header, batch, spent.writes)
    <3>1. PICK j \in 1..Len(batch) : vol_offset(e) = w + Before(batch, j) /\ e.len = batch[j]
      BY <2>4 DEF InCopy, w
    <3>2. Before(batch, j) \in Nat /\ batch[j] \in Nat /\ Before(batch, j) + batch[j] <= n
      BY <1>4, DocsLieApart DEF n
    <3>3. vol_offset(e) + e.len <= w + n
      BY <1>4, <3>1, <3>2
    <3>4. e.phase = header.phase /\ IntactIn(data', e)
      BY <1>10, <2>1, <2>4 DEF InCopy
    <3> QED
      BY <1>6, <3>3, <3>4 DEF EntryOK
  <2>5. CASE e.phase # header.phase /\ (vol_offset(e) >= w => IntactIn(data, e))
    <3>1. ASSUME vol_offset(e) >= w + n PROVE IntactIn(data', e)
      <4>1. vol_offset(e) >= w /\ \A i \in 0..e.len - 1 : vol_offset(e) + i >= w + n
        BY <1>4, <2>2, <3>1
      <4>2. \A i \in 0..e.len - 1 : data'[vol_offset(e) + i] = data[vol_offset(e) + i]
        BY <1>9, <2>2, <4>1
      <4> QED
        BY <2>1, <2>5, <4>1, <4>2, IntactSame
    <3> QED
      BY <1>6, <2>5, <3>1 DEF EntryOK
  <2> QED
    BY <1>12, <2>3, <2>4, <2>5 DEF EntryOK, w
<1>13. ASSUME NEW s, CopyOK(s), Ahead(s, header, data, orphans) PROVE Ahead(s, header', data', orphans)
  <2>1. Laid(data, data', header, batch, header.write_pos + SizeOf(batch))
    BY <1>8 DEF w, n
  <2>2. Tiled(data', header.write_pos, header.write_pos + SizeOf(batch))
    BY <1>10 DEF w, n
  <2>3. SizeOf(batch) \in Nat /\ 1 <= SizeOf(batch) /\ SizeOf(batch) <= AGG_SIZE /\ header.write_pos + SizeOf(batch) <= End
    BY <1>4 DEF w, n
  <2>4. header'.write_pos = header.write_pos + SizeOf(batch)
    BY <1>6 DEF w, n
  <2> QED
    BY <1>4, <1>6, <1>13, <2>1, <2>2, <2>3, <2>4, AheadWritten
<1>14. ASSUME ~misled PROVE Live'
  <2>1. Live
    BY <1>1, <1>14, UpFacts
  <2>2. ~Unwritten(header')
    BY <1>4, <1>6, Sizes DEF Unwritten
  <2>3. \A e \in dir' \ orphans' : EntryOK(e, header', batch', spent'.writes, data')
    BY <1>1, <1>2, <1>12, <2>1 DEF Live
  <2>4. /\ pend' = {} => header'.sync_serial = saved'.header.sync_serial
        /\ \A s \in pend' : /\ s.header.sync_serial = header'.sync_serial
                            /\ header'.sync_serial = saved'.header.sync_serial + 1
    BY <1>2, <1>6, <2>1 DEF Live
  <2> QED
    BY <1>11, <2>2, <2>3, <2>4 DEF Live
<1> QED
  BY <1>1, <1>2, <1>7, <1>9, <1>13, <1>14, UpFacts, UpHolds

\* LogCrash: some first part of the buffer is on disk.
LEMMA LogCrashKeeps ==
  ASSUME LogInv, LogCrash
  PROVE  LogInv'
<1> DEFINE w == header.write_pos
           n == SizeOf(batch)
<1>1. /\ mode = "up" /\ mode' = "down" /\ batch' = << >> /\ pend' = {} /\ LogSpend("crashes")
  BY DEF LogCrash
<1>2. UNCHANGED <<header, dir, saved, scan, orphans, misled>>
  BY DEF LogCrash
<1>3. PICK upto \in w..w + n : data' = Written(upto)
  BY DEF LogCrash
<1>4. LogTypes
  BY DEF LogInv
<1>5. /\ header \in Headers /\ data \in Disks /\ w \in Nat /\ w \in Start..End /\ n \in Nat /\ n <= AGG_SIZE /\ w + n <= End
      /\ upto \in Nat
  <2>1. header \in Headers /\ data \in Disks /\ w \in Nat /\ w \in Start..End
    BY <1>1, UpFacts, HeaderFacts
  <2>2. n \in Nat /\ n <= AGG_SIZE /\ w + n <= End
    <3>1. CASE batch = << >>
      BY <2>1, <3>1, SizeEmpty, Sizes
    <3>2. CASE batch # << >>
      BY <1>4, <3>2, BatchFacts, Sizes
    <3> QED
      BY <3>1, <3>2
  <2> QED
    BY <2>1, <2>2
<1>6. Laid(data, data', header, batch, upto)
  <2>1. CASE batch # << >>
    BY <1>3, <1>4, <1>5, <2>1, WrittenLaid
  <2>2. CASE batch = << >>
    <3>1. n = 0 /\ upto = w
      BY <1>5, <2>2, SizeEmpty
    <3>2. DOMAIN Copied(header, batch) = {}
      <4>1. DOMAIN Copied(header, batch) = w..w + n - 1
        BY DEF Copied
      <4>2. w..w + n - 1 = {}
        BY <1>5, <3>1
      <4> QED
        BY <4>1, <4>2
    <3>3. data' = [p \in Blocks |-> data[p]]
      BY <1>3, <3>2 DEF Written
    <3>4. data' = data
      BY <1>5, <3>3 DEF Disks
    <3>5. \A p \in Blocks : p \in Nat
      BY Sizes
    <3> QED
      BY <1>5, <3>1, <3>4, <3>5 DEF Laid
  <2> QED
    BY <2>1, <2>2
<1>7. data' \in Disks
  BY <1>6 DEF Laid
<1>8. spent' \in [DOMAIN LogBound -> Nat]
  <2>1. "crashes" \in DOMAIN LogBound
    BY DEF LogBound
  <2> QED
    BY <1>1, <2>1, UpFacts, SpendType
<1>9. ~Recovering' /\ mode' # "up"
  BY <1>1 DEF Recovering
<1>10. LogTypes'
  <2>1. NeverSynced' = NeverSynced /\ LogBound' = LogBound
    BY DEF NeverSynced, FreshHeader, LogBound
  <2>2. HeaderOK(header') /\ DirOK(dir') /\ CopyOK(saved') /\ misled' \in BOOLEAN
    BY <1>1, <1>2, UpFacts
  <2>3. saved'.header.sync_serial = 0 => saved' = NeverSynced
    BY <1>1, <1>2, UpFacts
  <2> QED
    BY <1>1, <1>7, <1>8, <1>9, <2>1, <2>2, <2>3 DEF LogTypes
<1>11. ASSUME ~misled, saved.header.sync_serial > 0 PROVE Found(saved, data', orphans)
  <2>1. Ahead(saved, header, data, orphans) /\ CopyOK(saved)
    BY <1>1, <1>11, UpFacts
  <2> QED
    BY <1>5, <1>6, <2>1, FoundAfter
<1> QED
  BY <1>2, <1>9, <1>10, <1>11 DEF LogInv

\* The entry of a document in the aggregation buffer.
LEMMA NewEntry ==
  ASSUME NEW b \in Lengths, NEW w \in Nat, Start <= w, w + SizeOf(b) <= End, NEW i \in 1..Len(b),
         NEW ph \in {0, 1}, NEW n \in Nat, NEW e,
         e = [off |-> offset_to_vol_offset(w + Before(b, i)), len |-> b[i], phase |-> ph, id |-> n]
  PROVE  /\ e \in EntrySet /\ vol_offset(e) = w + Before(b, i) /\ vol_offset(e) + e.len <= End
         /\ e.len = b[i] /\ e.phase = ph /\ e.id = n
<1>1. Before(b, i) \in Nat /\ b[i] \in Nat \ {0} /\ Before(b, i) + b[i] <= SizeOf(b) /\ SizeOf(b) \in Nat
  BY DocsLieApart
<1>2. (w + Before(b, i)) - Start + 1 \in 1..End - Start /\ w + Before(b, i) + b[i] <= End
  <2> DEFINE x == Before(b, i)
             y == b[i]
             z == SizeOf(b)
  <2>1. x \in Nat /\ y \in Nat /\ y >= 1 /\ x + y <= z /\ z \in Nat /\ w + z <= End
    BY <1>1
  <2> HIDE DEF x, y, z
  <2>2. (w + x) - Start + 1 \in 1..End - Start /\ w + x + y <= End
    BY <2>1, Sizes
  <2> QED
    BY <2>2 DEF x, y
<1>3. /\ e.off = (w + Before(b, i)) - Start + 1 /\ e.len = b[i] /\ e.phase = ph /\ e.id = n
      /\ e = [off |-> e.off, len |-> e.len, phase |-> e.phase, id |-> e.id]
  BY DEF offset_to_vol_offset
<1>4. e \in EntrySet
  BY <1>1, <1>2, <1>3 DEF EntrySet
<1>5. vol_offset(e) = w + Before(b, i)
  BY <1>1, <1>3, Sizes DEF vol_offset
<1> QED
  BY <1>2, <1>3, <1>4, <1>5

\* aggWrite: new entries point into the buffer; the log may wrap.
LEMMA aggWriteKeeps ==
  ASSUME LogInv, NEW b \in Batches, aggWrite(b)
  PROVE  LogInv'
<1> DEFINE h == WrapHeader(b)
           w == h.write_pos
           n == SizeOf(b)
           kept == IF Wraps(b) THEN {e \in dir : dir_valid(h, << >>, e)} ELSE dir
           new == {[off |-> offset_to_vol_offset(w + Before(b, i)), len |-> b[i],
                    phase |-> h.phase, id |-> spent.writes + 1] : i \in 1..Len(b)}
<1>1. /\ mode = "up" /\ mode' = "up" /\ batch = << >> /\ batch' = b /\ w + n <= End /\ LogSpend("writes")
      /\ header' = [h EXCEPT !.agg_pos = w + n, !.dirty = TRUE]
      /\ dir' = kept \cup new
  BY DEF aggWrite
<1>2. UNCHANGED <<data, saved, pend, mode, scan, orphans, misled>>
  BY DEF aggWrite
<1>3. /\ header \in Headers /\ header.write_pos <= header.agg_pos /\ DirOK(dir) /\ data \in Disks /\ spent.writes \in Nat
      /\ header.write_pos \in Nat /\ header.last_write_pos \in Nat /\ header.phase \in {0, 1}
      /\ header.write_pos <= End /\ header.write_pos >= Start
  BY <1>1, UpFacts, HeaderFacts DEF HeaderOK
<1>4. /\ b \in Lengths /\ b # << >> /\ n \in Nat /\ n <= AGG_SIZE /\ Len(b) \in Nat /\ 1 \in 1..Len(b)
      /\ b[1] \in Nat /\ b[1] <= AGG_SIZE
  <2>1. b \in Lengths /\ b # << >> /\ n <= AGG_SIZE
    BY LogConstants DEF Lengths
  <2>2. Len(b) \in Nat /\ 1 \in 1..Len(b)
    BY <2>1 DEF Lengths
  <2>3. n \in Nat /\ Before(b, 1) \in Nat /\ b[1] \in Nat /\ Before(b, 1) + b[1] <= n
    BY <2>1, <2>2, DocsLieApart
  <2> QED
    BY <2>1, <2>2, <2>3, Sizes
<1>5. /\ h \in Headers
      /\ h.last_write_pos = header.last_write_pos /\ h.sync_serial = header.sync_serial /\ h.write_serial = header.write_serial
      /\ ~Wraps(b) => h = header
      /\ Wraps(b) => w = Start /\ h.phase = 1 - header.phase
  <2>1. CASE ~Wraps(b)
    BY <1>3, <2>1 DEF WrapHeader
  <2>2. CASE Wraps(b)
    <3>1. h = [header EXCEPT !.write_pos = Start, !.agg_pos = Start, !.phase = 1 - @]
      BY <2>2 DEF WrapHeader
    <3>2. Start \in Start..End /\ 1 - header.phase \in {0, 1}
      BY <1>3, Sizes
    <3>3. h \in Headers
      BY <1>3, <3>1, <3>2, Zenon DEF Headers
    <3> QED
      BY <1>3, <2>2, <3>1, <3>3 DEF Headers
  <2> QED
    BY <2>1, <2>2
<1> HIDE DEF h
<1>6. w \in Nat /\ w >= Start /\ w <= End /\ h.phase \in {0, 1}
  BY <1>5, HeaderFacts
<1>7. /\ header' \in Headers /\ header'.write_pos = w /\ header'.agg_pos = w + n /\ header'.phase = h.phase
      /\ header'.last_write_pos = header.last_write_pos /\ header'.sync_serial = header.sync_serial
      /\ header'.write_serial = header.write_serial
  <2>1. w + n \in Start..End /\ TRUE \in BOOLEAN
    BY <1>1, <1>4, <1>6, Sizes
  <2>2. header' \in Headers
    BY <1>1, <1>5, <2>1, Zenon DEF Headers
  <2> QED
    BY <1>1, <1>5, <2>2 DEF Headers
<1>8. HeaderOK(header')
  BY <1>4, <1>6, <1>7 DEF HeaderOK
<1>9. spent' \in [DOMAIN LogBound -> Nat] /\ spent'.writes = spent.writes + 1
  <2>1. "writes" \in DOMAIN LogBound
    BY DEF LogBound
  <2>2. spent \in [DOMAIN LogBound -> Nat]
    BY <1>1, UpFacts
  <2> QED
    BY <1>1, <2>1, <2>2, SpendType DEF LogSpend
<1>10. ASSUME NEW e \in new
       PROVE  /\ e \in EntrySet /\ vol_offset(e) + e.len <= End /\ e.phase = h.phase
              /\ InCopy(e, header', b, spent.writes + 1)
  <2>1. PICK i \in 1..Len(b) : e = [off |-> offset_to_vol_offset(w + Before(b, i)), len |-> b[i],
                                    phase |-> h.phase, id |-> spent.writes + 1]
    OBVIOUS
  <2>2. spent.writes + 1 \in Nat /\ Start <= w
    BY <1>3, <1>6
  <2>3. /\ e \in EntrySet /\ vol_offset(e) = w + Before(b, i) /\ vol_offset(e) + e.len <= End
        /\ e.len = b[i] /\ e.phase = h.phase /\ e.id = spent.writes + 1
    BY <1>1, <1>4, <1>6, <2>1, <2>2, NewEntry
  <2> QED
    BY <1>4, <1>7, <2>3 DEF InCopy
<1>11. DirOK(dir')
  <2>1. kept \subseteq dir
    OBVIOUS
  <2> HIDE DEF kept, new
  <2> QED
    BY <1>1, <1>3, <1>10, <2>1 DEF DirOK
<1>12. CASE ~Wraps(b)
  <2>1. h = header /\ kept = dir
    BY <1>5, <1>12
  <2>2. ASSUME NEW s, Ahead(s, header, data, orphans) PROVE Ahead(s, header', data', orphans')
    <3>1. header'.write_pos = header.write_pos
      BY <1>7, <2>1
    <3> QED
      BY <1>2, <1>7, <2>2, <3>1, AheadHeader
  <2>3. ASSUME ~misled PROVE Live'
    <3>1. Live
      BY <1>1, <2>3, UpFacts
    <3>2. ASSUME NEW e \in dir' \ orphans' PROVE EntryOK(e, header', batch', spent'.writes, data')
      <4>1. CASE e \in dir
        <5>1. EntryOK(e, header, << >>, spent.writes, data)
          BY <1>1, <1>2, <3>1, <4>1 DEF Live
        <5> QED
          BY <1>2, <1>7, <2>1, <5>1 DEF EntryOK, InCopy
      <4>2. CASE e \in new
        BY <1>1, <1>9, <1>10, <4>2 DEF EntryOK
      <4> QED
        BY <1>1, <2>1, <4>1, <4>2
    <3>3. Ready(data', header') \/ Unwritten(header') \/ JustWrapped(header')
      BY <1>2, <1>7, <2>1, <3>1 DEF Live, Ready, Unwritten, JustWrapped
    <3>4. Unwritten(header') => \A e \in dir' \ orphans' : e.phase = header'.phase
      <4> SUFFICES ASSUME Unwritten(header'), NEW e \in dir' \ orphans' PROVE e.phase = header'.phase
        OBVIOUS
      <4>1. Unwritten(header)
        BY <1>7, <2>1 DEF Unwritten
      <4>2. e \in dir => e.phase = header.phase
        BY <1>2, <3>1, <4>1 DEF Live
      <4>3. e \in new => e.phase = header.phase
        BY <1>10, <2>1
      <4> QED
        BY <1>1, <1>7, <2>1, <4>2, <4>3
    <3> QED
      BY <1>2, <1>7, <3>1, <3>2, <3>3, <3>4 DEF Live
  <2> QED
    BY <1>1, <1>2, <1>7, <1>8, <1>9, <1>11, <2>2, <2>3, UpFacts, UpHolds
<1>13. CASE Wraps(b)
  <2>1. w = Start /\ h.phase # header.phase /\ header.write_pos > End - AGG_SIZE
    <3>1. header.write_pos > End - AGG_SIZE
      BY <1>3, <1>4, <1>13, Sizes DEF Wraps
    <3> QED
      BY <1>3, <1>5, <1>13, <3>1
  <2>2. ASSUME NEW s, CopyOK(s), Ahead(s, header, data, orphans) PROVE Ahead(s, header', data', orphans')
    BY <1>2, <1>3, <1>7, <2>1, <2>2, AheadWraps
  <2>3. ASSUME ~misled PROVE Live'
    <3>1. Live
      BY <1>1, <2>3, UpFacts
    <3>2. Ready(data, header)
      BY <1>3, <2>1, <3>1, Sizes DEF Live, Unwritten, JustWrapped
    <3>3. header.last_write_pos > Start
      BY <1>3, <2>1, <3>2, Sizes DEF Ready
    <3>4. JustWrapped(header') /\ ~Unwritten(header')
      BY <1>3, <1>7, <2>1, <3>3, Sizes DEF JustWrapped, Unwritten
    <3>5. ASSUME NEW e \in dir' \ orphans' PROVE EntryOK(e, header', batch', spent'.writes, data')
      <4>1. CASE e \in kept
        <5>1. e \in dir \ orphans /\ dir_valid(h, << >>, e)
          BY <1>2, <1>13, <4>1
        <5>2. e \in EntrySet /\ vol_offset(e) + e.len <= End
          BY <1>3, <5>1 DEF DirOK
        <5>3. vol_offset(e) \in Nat /\ vol_offset(e) >= Start
          BY <5>2, EntryFacts, Sizes
        <5>4. e.phase # h.phase
          BY <1>5, <2>1, <5>1, <5>2, <5>3, ValidFacts, Sizes
        <5>5. e.phase = header.phase
          <6>1. e.phase \in {0, 1}
            BY <5>2 DEF EntrySet
          <6> QED
            BY <1>3, <1>6, <2>1, <5>4, <6>1
        <5>6. EntryOK(e, header, << >>, spent.writes, data)
          BY <1>1, <3>1, <5>1 DEF Live
        <5>7. IntactIn(data, e)
          BY <5>5, <5>6 DEF EntryOK, InCopy
        <5> QED
          BY <1>2, <1>7, <5>4, <5>7 DEF EntryOK
      <4>2. CASE e \in new
        BY <1>1, <1>9, <1>10, <4>2 DEF EntryOK
      <4> QED
        BY <1>1, <4>1, <4>2
    <3> QED
      BY <1>2, <1>7, <3>1, <3>4, <3>5 DEF Live
  <2> QED
    BY <1>1, <1>2, <1>7, <1>8, <1>9, <1>11, <2>2, <2>3, UpFacts, UpHolds
<1> QED
  BY <1>12, <1>13

-----------------------------------------------------------------------------
(* Recovery                                                                  *)

\* What LogInv says of a state in which the volume is recovered.
LEMMA ScanFacts ==
  ASSUME LogInv, Recovering
  PROVE  /\ mode # "up" /\ mode # "down" /\ batch = << >> /\ pend = {}
         /\ header \in Headers /\ HeaderOK(header) /\ DirOK(dir) /\ CopyOK(saved) /\ data \in Disks
         /\ header = saved.header /\ dir = saved.dir
         /\ spent \in [DOMAIN LogBound -> Nat] /\ misled \in BOOLEAN
         /\ scan \in ScanSet /\ scan.off < scan.end /\ header.sync_serial > 0 /\ header.sync_serial \in Nat
         /\ scan.max \in Nat /\ scan.max >= header.sync_serial
         /\ scan.off \in Nat /\ scan.pos \in Nat /\ scan.end \in Nat /\ scan.last \in Nat /\ scan.lss \in Nat /\ scan.prev \in Nat
         /\ ~misled => Scanning
<1>1. mode # "up" /\ mode # "down"
  BY DEF Recovering
<1>2. /\ scan \in ScanSet /\ header \in Headers
  BY DEF LogInv, LogTypes, HeaderOK
<1>3. /\ scan.off \in Nat /\ scan.pos \in Nat /\ scan.end \in Nat /\ scan.last \in Nat /\ scan.lss \in Nat /\ scan.prev \in Nat
      /\ scan.max \in Nat
  BY <1>2 DEF ScanSet
<1>4. header.sync_serial \in Nat
  BY <1>2, HeaderFacts
<1> QED
  BY <1>1, <1>2, <1>3, <1>4 DEF LogInv, LogTypes

\* The header of a volume that was cleared.
LEMMA FreshOK ==
  /\ HeaderOK(FreshHeader) /\ CopyOK(NeverSynced) /\ Unwritten(FreshHeader)
  /\ NeverSynced.header = FreshHeader /\ NeverSynced.dir = {} /\ FreshHeader.sync_serial = 0
<1>1. Start \in Start..End /\ Start \in Start..End - 1 /\ 0 \in Nat /\ FALSE \in BOOLEAN /\ 0 \in {0, 1} /\ Start <= Start
  BY Sizes
<1>2. FreshHeader \in Headers
  BY <1>1, Zenon DEF FreshHeader, Headers
<1>3. /\ FreshHeader.write_pos = Start /\ FreshHeader.last_write_pos = Start /\ FreshHeader.agg_pos = Start
      /\ FreshHeader.sync_serial = 0
  BY DEF FreshHeader
<1>4. HeaderOK(FreshHeader)
  BY <1>1, <1>2, <1>3 DEF HeaderOK
<1>5. NeverSynced.header = FreshHeader /\ NeverSynced.dir = {}
  BY DEF NeverSynced
<1>6. CopyOK(NeverSynced)
  BY <1>4, <1>5 DEF CopyOK, DirOK, NeverSynced
<1> QED
  BY <1>3, <1>4, <1>5, <1>6 DEF Unwritten

\* The volume runs again, without entries and never synced.
LEMMA EmptyRuns ==
  ASSUME mode' = "up", header' = FreshHeader, dir' = {}, saved' = NeverSynced, batch' = << >>, pend' = {},
         data' \in Disks, spent' \in [DOMAIN LogBound -> Nat], misled' \in BOOLEAN
  PROVE  LogInv'
<1>1. HeaderOK(header') /\ DirOK(dir') /\ CopyOK(saved')
  BY FreshOK DEF DirOK
<1>2. saved'.header.sync_serial = 0 /\ ~(saved'.header.sync_serial > 0) /\ header'.sync_serial = saved'.header.sync_serial
  BY FreshOK
<1>3. Live'
  BY <1>2, FreshOK DEF Live
<1> QED
  BY <1>1, <1>2, <1>3, UpHolds

\* Lclear: nothing is left that could be wrong.
LEMMA LclearKeeps ==
  ASSUME LogInv, Recovering, Lclear
  PROVE  LogInv'
<1>1. /\ mode' = "up" /\ header' = FreshHeader /\ dir' = {} /\ saved' = [header |-> FreshHeader, dir |-> {}]
      /\ misled' = FALSE /\ UNCHANGED <<batch, data, pend, orphans, spent>>
  BY DEF Lclear
<1>2. saved' = NeverSynced
  BY <1>1 DEF NeverSynced
<1>3. batch = << >> /\ pend = {} /\ data \in Disks /\ spent \in [DOMAIN LogBound -> Nat]
  BY ScanFacts
<1> QED
  BY <1>1, <1>2, <1>3, EmptyRuns

\* LogInv, of a volume that is recovered, from its parts.
LEMMA ScanHolds ==
  ASSUME mode' \in {"read", "check", "examine"}, HeaderOK(header'), DirOK(dir'), CopyOK(saved'), data' \in Disks,
         header' = saved'.header, dir' = saved'.dir, header'.sync_serial > 0, batch' = << >>, pend' = {},
         spent' \in [DOMAIN LogBound -> Nat], misled' \in BOOLEAN,
         scan' \in ScanSet, scan'.off < scan'.end, scan'.max >= header'.sync_serial,
         ~misled' => Scanning'
  PROVE  LogInv'
<1>1. Recovering' /\ mode' # "up" /\ mode' # "down"
  BY DEF Recovering
<1>2. saved'.header.sync_serial # 0
  <2>1. header'.sync_serial \in Nat
    BY HeaderFacts DEF HeaderOK
  <2> QED
    BY <2>1
<1>3. LogBound' = LogBound
  BY DEF LogBound
<1>4. LogTypes'
  BY <1>1, <1>2, <1>3 DEF LogTypes
<1> QED
  BY <1>1, <1>4 DEF LogInv

\* What a scan that has passed Check can rely on.
Past(b) == b \in header.write_pos..End /\ EndsAt(data, saved, orphans, b)
Lost == Unwritten(header) /\ dir \subseteq orphans

\* Scanning, of the next state, from its parts.
LEMMA ScanningHolds ==
  ASSUME UNCHANGED <<header, dir, data, saved, orphans>>,
         Found(saved, data, orphans), LapOK(scan'), scan'.lap => mode' # "check",
         mode' = "read" => scan'.pos = scan'.off,
         \/ Lost
         \/ /\ ~Checking' /\ Ready(data, header)
            /\ \E b : /\ Past(b)
                      /\ ~scan'.lap => /\ At(scan'.pos, scan', b)
                                       /\ scan'.pos <= scan'.end \/ At(scan'.last, scan', b)
  PROVE  Scanning'
<1>1. LapOK(scan)' /\ Found(saved, data, orphans)'
  BY DEF LapOK
<1>2. CASE Lost
  BY <1>1, <1>2 DEF Scanning, Lost
<1>3. CASE ~Lost
  <2>1. ~Checking' /\ Ready(data, header)
    BY <1>3
  <2>2. PICK b : /\ Past(b)
                 /\ ~scan'.lap => /\ At(scan'.pos, scan', b)
                                  /\ scan'.pos <= scan'.end \/ At(scan'.last, scan', b)
    BY <1>3
  <2>3. ExamineOK(scan)'
    BY <2>1, <2>2 DEF ExamineOK, At, Past
  <2> QED
    BY <1>1, <2>1, <2>3 DEF Scanning
<1> QED
  BY <1>2, <1>3

\* The scan reads on at pos.
LEMMA ReadKeeps ==
  ASSUME LogInv, Recovering, NEW s \in ScanSet, s.max >= header.sync_serial,
         NEW pos \in Nat, NEW nbytes \in Nat, nbytes > 0, Read(s, pos, nbytes),
         ~misled => /\ Found(saved, data, orphans) /\ (s.wrapped => s.lap)
                    /\ Lost \/ (Ready(data, header) /\ \E b : /\ Past(b)
                                                              /\ ~s.lap => pos # header.last_write_pos /\ At(pos, s, b))
  PROVE  LogInv'
<1>1. CASE pos = s.prev /\ Lclear
  BY <1>1, LclearKeeps
<1>2. CASE /\ pos # s.prev
           /\ mode' = "read"
           /\ scan' = [s EXCEPT !.off = pos, !.pos = pos, !.end = pos + nbytes, !.prev = pos]
           /\ misled' = (misled \/ (s.lap /\ pos + nbytes > header.last_write_pos))
           /\ UNCHANGED <<header, dir, batch, data, saved, pend, orphans, spent>>
  <2>1. /\ scan'.off = pos /\ scan'.pos = pos /\ scan'.end = pos + nbytes /\ scan'.lap = s.lap /\ scan'.wrapped = s.wrapped
        /\ scan'.lss = s.lss /\ scan'.max = s.max
    BY <1>2 DEF ScanSet
  <2>2. scan' \in ScanSet
    <3>1. pos + nbytes \in Nat
      OBVIOUS
    <3> QED
      BY <1>2, <3>1, Zenon DEF ScanSet
  <2>3. pos < pos + nbytes /\ pos <= pos + nbytes
    OBVIOUS
  <2>4. s.lap \in BOOLEAN
    BY DEF ScanSet
  <2>5. misled \in BOOLEAN
    BY ScanFacts
  <2>6. misled' \in BOOLEAN
    BY <1>2, <2>4, <2>5, Zenon
  <2>7. ASSUME ~misled' PROVE ~misled /\ ~(s.lap /\ pos + nbytes > header.last_write_pos)
    BY <1>2, <2>4, <2>5, <2>7, Zenon
  <2>8. ASSUME ~misled' PROVE Scanning'
    <3>1. ~misled /\ ~(s.lap /\ pos + nbytes > header.last_write_pos)
      BY <2>7, <2>8
    <3>2. header.last_write_pos \in Nat
      BY ScanFacts, HeaderFacts
    <3>3. s.lap => pos + nbytes <= header.last_write_pos
      BY <3>1, <3>2
    <3>4. LapOK(scan')
      BY <2>1, <3>1, <3>3 DEF LapOK
    <3>5. ASSUME Ready(data, header), NEW b, Past(b), ~s.lap => pos # header.last_write_pos /\ At(pos, s, b)
          PROVE  /\ ~Checking' /\ Past(b)
                 /\ ~scan'.lap => At(scan'.pos, scan', b) /\ scan'.pos <= scan'.end
      <4>1. pos # header.last_write_pos
        BY <2>3, <3>2, <3>3, <3>5
      <4>2. ~Checking'
        BY <1>2, <2>1, <4>1 DEF Checking
      <4> QED
        BY <2>1, <2>3, <3>5, <4>2 DEF At, Past
    <3> QED
      BY <1>2, <2>1, <3>1, <3>4, <3>5, ScanningHolds
  <2> QED
    BY <1>2, <2>1, <2>2, <2>3, <2>6, <2>8, ScanFacts, ScanHolds
<1> QED
  BY <1>1, <1>2 DEF Read

\* The serial of the directory that is written back.
LEMMA SerialGrows ==
  ASSUME header.sync_serial \in Nat, NEW max \in Nat, max >= header.sync_serial
  PROVE  RecoverSerial(max) \in Nat /\ RecoverSerial(max) > header.sync_serial
<1> DEFINE c == (max + 1) % 2 = header.sync_serial % 2
<1> HIDE DEF c
<1>1. RecoverSerial(max) = IF c THEN max + 2 ELSE max + 1
  BY DEF RecoverSerial, c
<1> QED
  BY <1>1

\* The directory is what Ldone leaves.
LEMMA LeftRuns ==
  ASSUME LogInv, Recovering, NEW d, d \subseteq dir, NEW h, HeaderOK(h), h.sync_serial > header.sync_serial,
         h.write_pos = header.write_pos, h.last_write_pos = header.last_write_pos, h.agg_pos = header.agg_pos,
         h.phase = header.phase,
         mode' = "up", header' = h, dir' = d, saved' = [header |-> h, dir |-> d],
         UNCHANGED <<batch, data, pend, orphans, spent>>, misled' \in BOOLEAN,
         ~misled' => \/ Lost
                     \/ /\ Ready(data, header) /\ Behind(saved, orphans)
                        /\ \A e \in d \ orphans : IntactIn(data, e)
  PROVE  LogInv'
<1>1. saved'.header = h /\ saved'.dir = d /\ batch' = << >> /\ pend' = {}
  BY ScanFacts
<1>2. DirOK(d) /\ CopyOK(saved')
  <2>1. DirOK(d)
    BY ScanFacts DEF DirOK
  <2> QED
    BY <1>1, <2>1 DEF CopyOK
<1>3. h \in Headers /\ header \in Headers /\ h.sync_serial \in Nat /\ header.sync_serial \in Nat
  BY ScanFacts, HeaderFacts DEF HeaderOK
<1>4. h.sync_serial # 0
  BY <1>3
<1>5. ASSUME Lost PROVE Live' /\ Ahead(saved', header', data', orphans')
  <2>1. Unwritten(h) /\ d \subseteq orphans
    BY <1>5 DEF Lost, Unwritten
  <2>2. Hopeless(saved', orphans) /\ Behind(saved', orphans)
    BY <1>1, <2>1 DEF Hopeless, Behind
  <2>3. Ahead(saved', h, data, orphans)
    BY <1>1, <1>2, <2>2, AheadOfItself
  <2>4. Live'
    BY <1>1, <2>1 DEF Live
  <2> QED
    BY <2>3, <2>4
<1>6. ASSUME Ready(data, header), Behind(saved, orphans), \A e \in d \ orphans : IntactIn(data, e)
      PROVE  Live' /\ Ahead(saved', header', data', orphans')
  <2>1. Ready(data, h)
    <3>1. ASSUME NEW p \in header.last_write_pos..header.write_pos - 1 PROVE data[p].ss <= h.sync_serial
      <4>1. p \in Blocks
        BY <1>3, HeaderFacts, Sizes
      <4>2. data[p].ss \in Nat /\ data[p].ss <= header.sync_serial
        BY <1>6, <4>1, ScanFacts, BlockType DEF Ready
      <4> QED
        BY <1>3, <4>2
    <3> QED
      BY <1>6, <3>1 DEF Ready
  <2>2. \A e \in d \ orphans : e.phase = h.phase => vol_offset(e) + e.len <= h.write_pos
    BY <1>6, ScanFacts DEF Behind
  <2>3. Behind(saved', orphans) /\ KeptFrom(data, saved', orphans, h.write_pos)
    BY <1>1, <1>6, <2>2 DEF Behind, KeptFrom
  <2>4. Ahead(saved', h, data, orphans)
    BY <1>1, <1>2, <2>1, <2>3, AheadOfItself
  <2>5. \A e \in d \ orphans : EntryOK(e, h, << >>, spent.writes, data)
    BY <1>6, <2>2 DEF EntryOK
  <2>6. ~Unwritten(h)
    <3>1. h.last_write_pos \in Nat /\ h.last_write_pos < h.write_pos
      BY <1>3, <2>1, HeaderFacts DEF Ready
    <3> QED
      BY <3>1 DEF Unwritten
  <2>7. Live'
    BY <1>1, <2>1, <2>5, <2>6 DEF Live
  <2> QED
    BY <2>4, <2>7
<1> QED
  BY <1>1, <1>2, <1>4, <1>5, <1>6, ScanFacts, UpHolds

\* Ldone: it runs again with what is left, if the entries that are left are
\* intact or the scan was misled.
LEMMA LdoneKeeps ==
  ASSUME LogInv, Recovering, NEW pos \in Nat, NEW max \in Nat, max >= header.sync_serial, NEW doubt \in BOOLEAN,
         Ldone(pos, max, doubt),
         ~misled /\ ~doubt /\ ~(pos + EVACUATION_SIZE > End /\ UpTo(pos) >= header.write_pos) =>
            \/ Lost
            \/ /\ Ready(data, header) /\ Behind(saved, orphans)
               /\ \A e \in Left(pos) \ orphans : IntactIn(data, e)
  PROVE  LogInv'
<1> DEFINE rpos == pos + EVACUATION_SIZE
           rp == UpTo(pos)
           kept == Left(pos)
           newh == [header EXCEPT !.sync_serial = RecoverSerial(max), !.dirty = @ \/ kept # dir]
           over == rpos < header.write_pos /\ rpos + EVACUATION_SIZE >= header.write_pos
<1>1. \/ /\ pos = header.write_pos /\ scan.wrapped
         /\ Resume(header, dir) /\ misled' = TRUE /\ UNCHANGED saved
      \/ ~(pos = header.write_pos /\ scan.wrapped) /\ over /\ Lclear
      \/ /\ Resume(newh, kept)
         /\ saved' = [header |-> newh, dir |-> kept]
         /\ misled' = (misled \/ doubt \/ (rpos > End /\ rp >= header.write_pos))
  BY DEF Ldone
<1>2. CASE /\ Resume(header, dir) /\ misled' = TRUE /\ UNCHANGED saved
  <2>1. mode' = "up" /\ header' = header /\ dir' = dir /\ UNCHANGED <<batch, data, pend, orphans, spent>>
    BY <1>2 DEF Resume
  <2>2. saved.header.sync_serial # 0
    BY ScanFacts
  <2> QED
    BY <1>2, <2>1, <2>2, ScanFacts, UpHolds
<1>3. CASE Lclear
  BY <1>3, LclearKeeps
<1>4. CASE /\ Resume(newh, kept)
           /\ saved' = [header |-> newh, dir |-> kept]
           /\ misled' = (misled \/ doubt \/ (rpos > End /\ rp >= header.write_pos))
  <2>1. RecoverSerial(max) \in Nat /\ RecoverSerial(max) > header.sync_serial
    BY ScanFacts, SerialGrows
  <2>2. header \in Headers /\ header.write_pos <= header.agg_pos /\ misled \in BOOLEAN
    BY ScanFacts DEF HeaderOK
  <2>3. /\ newh.write_pos = header.write_pos /\ newh.last_write_pos = header.last_write_pos /\ newh.agg_pos = header.agg_pos
        /\ newh.phase = header.phase /\ newh.sync_serial = RecoverSerial(max)
    BY <2>2 DEF Headers
  <2>4. (header.dirty \/ kept # dir) \in BOOLEAN
    OBVIOUS
  <2>5. newh \in Headers
    BY <2>1, <2>2, <2>4, Zenon DEF Headers
  <2>6. HeaderOK(newh)
    BY <2>2, <2>3, <2>5 DEF HeaderOK
  <2>7. kept \subseteq dir
    BY DEF Left
  <2>8. misled' \in BOOLEAN
    BY <1>4, <2>2, Zenon
  <2>9. ASSUME ~misled' PROVE ~misled /\ ~doubt /\ ~(rpos > End /\ rp >= header.write_pos)
    BY <1>4, <2>2, <2>9, Zenon
  <2>10. mode' = "up" /\ header' = newh /\ dir' = kept /\ UNCHANGED <<batch, data, pend, orphans, spent>>
    BY <1>4 DEF Resume
  <2>11. newh.sync_serial > header.sync_serial
    BY <2>1, <2>3
  <2> HIDE DEF newh, kept
  <2>12. ~misled' => \/ Lost
                     \/ /\ Ready(data, header) /\ Behind(saved, orphans)
                        /\ \A e \in kept \ orphans : IntactIn(data, e)
    BY <2>9 DEF kept
  <2> QED
    BY <1>4, <2>3, <2>6, <2>7, <2>8, <2>10, <2>11, <2>12, LeftRuns
<1> QED
  BY <1>1, <1>2, <1>3, <1>4

\* What Magic says of a block of the data area.
LEMMA MagicFacts ==
  ASSUME NEW p \in Nat, data \in Disks
  PROVE  /\ p \in Blocks => Doc(p) = data[p] /\ (Magic(p) <=> data[p].len > 0 /\ data[p].k = 0)
         /\ Doc(p).len \in Nat /\ Doc(p).ss \in Nat /\ Doc(p).ws \in Nat /\ Doc(p).k \in Nat
         /\ Magic(p) \in BOOLEAN
<1>1. CASE p \in Blocks
  BY <1>1, BlockType DEF Doc, Magic
<1>2. CASE p \notin Blocks
  BY <1>2 DEF Doc, Magic, NoBlock
<1> QED
  BY <1>1, <1>2

\* Everything before the write position of a copy is intact.
LEMMA EndsAtBehind ==
  ASSUME NEW b \in Nat, EndsAt(data, saved, orphans, b), ~StartIsNew(data, saved.header),
         NEW e \in saved.dir \ orphans, dir_valid(saved.header, << >>, e), vol_offset(e) < saved.header.write_pos
  PROVE  IntactIn(data, e)
  BY DEF EndsAt, KeptFrom

\* What Cleared says of an entry, by its place.
LEMMA ClearedFacts ==
  ASSUME NEW e \in EntrySet, NEW w \in Nat, NEW to \in Nat, w <= End
  PROVE  LET c == Cleared(offset_to_vol_offset(w), offset_to_vol_offset(to), e) IN
         /\ w <= to /\ ~c => vol_offset(e) < w \/ vol_offset(e) >= to
         /\ w > to => c
<1>1. e.off \in Nat /\ 1 <= e.off /\ e.off <= End - Start /\ vol_offset(e) = Start + e.off - 1
  BY Sizes DEF EntrySet, vol_offset
<1>2. e.off < DIR_OFFSET_MAX
  BY <1>1, Sizes DEF DIR_OFFSET_MAX
<1> QED
  BY <1>1, <1>2, Sizes DEF Cleared, offset_to_vol_offset

\* What follows a read.
LEMMA ExamineKeeps ==
  ASSUME LogInv, Recovering, NEW s \in ScanSet, s.off < s.end, s.max >= header.sync_serial, Examine(s),
         ~misled => /\ Found(saved, data, orphans) /\ LapOK(s) /\ (s.wrapped => s.pos = s.off)
                    /\ \/ Lost
                       \/ /\ Ready(data, header) /\ (s.pos = s.end => s.end # header.last_write_pos)
                          /\ \E b : Past(b) /\ (~s.lap => At(s.pos, s, b) /\ s.pos <= s.end)
  PROVE  LogInv'
<1>1. s.pos \in Nat /\ s.end \in Nat /\ s.off \in Nat /\ s.max \in Nat
  BY DEF ScanSet
<1>2. CASE s.pos = s.end /\ Read(s, s.end, s.end - s.off)
  <2>1. s.end - s.off \in Nat /\ s.end - s.off > 0
    BY <1>1
  <2> QED
    BY <1>1, <1>2, <2>1, ReadKeeps DEF LapOK
<1>3. CASE /\ s.wrapped /\ s.off = Start
           /\ Ldone(End - EVACUATION_SIZE, s.max, Magic(s.pos) /\ Doc(s.pos).ss >= header.sync_serial)
  <2> DEFINE pos == End - EVACUATION_SIZE
             doubt == Magic(s.pos) /\ Doc(s.pos).ss >= header.sync_serial
  <2>1. /\ pos \in Nat /\ pos + EVACUATION_SIZE = End /\ UpTo(pos) = End
    BY Sizes DEF UpTo
  <2>2. doubt \in BOOLEAN
    OBVIOUS
  <2>3. ASSUME ~misled, ~doubt, ~Lost
        PROVE  /\ Ready(data, header) /\ Behind(saved, orphans)
               /\ \A e \in Left(pos) \ orphans : IntactIn(data, e)
    <3>1. PICK b : Past(b)
      BY <2>3
    <3>2. Ready(data, header) /\ Behind(saved, orphans) /\ s.pos = Start
      BY <1>3, <2>3 DEF Found
    <3>3. ~StartIsNew(data, saved.header)
      <4>1. Start \in Nat /\ Start \in Blocks
        BY Sizes
      <4>2. header = saved.header /\ data \in Disks
        BY ScanFacts
      <4> QED
        BY <2>3, <3>2, <4>1, <4>2, MagicFacts DEF StartIsNew
    <3>4. b \in Nat /\ EndsAt(data, saved, orphans, b)
      <4>1. header \in Headers
        BY ScanFacts
      <4> QED
        BY <3>1, <4>1, HeaderFacts, Sizes DEF Past
    <3>5. ASSUME NEW e \in Left(pos) \ orphans PROVE IntactIn(data, e)
      <4>1. /\ e \in dir \ orphans /\ dir_valid(header, << >>, e)
            /\ ~Cleared(offset_to_vol_offset(header.write_pos), offset_to_vol_offset(End), e)
        BY <2>1 DEF Left
      <4>2. e \in EntrySet /\ vol_offset(e) + e.len <= End /\ header = saved.header /\ dir = saved.dir /\ header \in Headers
        BY <4>1, ScanFacts DEF DirOK
      <4>3. header.write_pos \in Nat /\ header.write_pos <= End /\ End \in Nat
        BY <4>2, HeaderFacts, Sizes
      <4>4. vol_offset(e) < header.write_pos \/ vol_offset(e) >= End
        BY <4>1, <4>2, <4>3, ClearedFacts
      <4>5. vol_offset(e) \in Nat /\ vol_offset(e) < End
        BY <4>2, EntryFacts, Sizes
      <4>6. vol_offset(e) < header.write_pos
        BY <4>3, <4>4, <4>5
      <4> QED
        BY <3>3, <3>4, <4>1, <4>2, <4>6, EndsAtBehind
    <3> QED
      BY <3>2, <3>5
  <2> HIDE DEF pos, doubt
  <2>4. Ldone(pos, s.max, doubt)
    BY <1>3 DEF pos, doubt
  <2> QED
    BY <1>1, <2>1, <2>2, <2>3, <2>4, LdoneKeeps
<1>4. CASE /\ s.pos # s.end /\ mode' = "examine" /\ scan' = s
           /\ UNCHANGED <<header, dir, batch, data, saved, pend, orphans, misled, spent>>
  <2>1. ASSUME ~misled' PROVE Scanning'
    <3>1. ~misled
      BY <1>4, <2>1
    <3>2. ~Checking'
      BY <1>4 DEF Checking
    <3> QED
      BY <1>4, <3>1, <3>2, ScanningHolds
  <2> QED
    BY <1>4, <2>1, ScanFacts, ScanHolds
<1> QED
  BY <1>2, <1>3, <1>4 DEF Examine

\* RecoverStart: the scan begins at the last write before the copy.
LEMMA RecoverStartKeeps ==
  ASSUME LogInv, RecoverStart
  PROVE  LogInv'
<1>1. /\ mode = "down" /\ mode # "up" /\ ~Recovering
  BY DEF RecoverStart, Recovering
<1>2. /\ batch = << >> /\ pend = {} /\ CopyOK(saved) /\ HeaderOK(saved.header) /\ DirOK(saved.dir) /\ data \in Disks
      /\ spent \in [DOMAIN LogBound -> Nat] /\ misled \in BOOLEAN
      /\ saved.header.sync_serial = 0 => saved = NeverSynced
  BY <1>1 DEF LogInv, LogTypes, CopyOK
<1>3. CASE /\ saved.header.sync_serial = 0
           /\ Resume(saved.header, saved.dir)
           /\ UNCHANGED <<saved, misled>>
  <2>1. saved = NeverSynced /\ saved.header = FreshHeader /\ saved.dir = {}
    BY <1>2, <1>3, FreshOK
  <2>2. mode' = "up" /\ header' = FreshHeader /\ dir' = {} /\ UNCHANGED <<batch, data, pend, orphans, spent>>
    BY <1>3, <2>1 DEF Resume
  <2> QED
    BY <1>2, <1>3, <2>1, <2>2, EmptyRuns
<1>4. CASE saved.header.sync_serial # 0
  <2> DEFINE pos == saved.header.last_write_pos
  <2>1. /\ header' = saved.header /\ dir' = saved.dir /\ mode' = "read"
        /\ scan' = [off |-> pos, pos |-> pos, end |-> pos + UpToEnd(pos), prev |-> pos,
                    last |-> pos, wrapped |-> FALSE, lap |-> FALSE, lss |-> 0, lws |-> 0,
                    max |-> saved.header.sync_serial]
        /\ UNCHANGED <<batch, data, saved, pend, orphans, misled, spent>>
    BY <1>4 DEF RecoverStart
  <2>2. saved.header \in Headers /\ saved.header.sync_serial \in Nat /\ saved.header.sync_serial > 0
    <3>1. saved.header \in Headers /\ saved.header.sync_serial \in Nat
      BY <1>2, HeaderFacts DEF HeaderOK
    <3> QED
      BY <1>4, <3>1
  <2>3. pos \in Nat /\ pos \in Blocks /\ UpToEnd(pos) \in Nat /\ UpToEnd(pos) > 0
    BY <2>2, HeaderFacts, Sizes DEF UpToEnd, RECOVERY_SIZE
  <2>4. /\ scan'.off = pos /\ scan'.pos = pos /\ scan'.end = pos + UpToEnd(pos) /\ scan'.lap = FALSE /\ scan'.wrapped = FALSE
        /\ scan'.lss = 0 /\ scan'.max = saved.header.sync_serial
    BY <2>1
  <2>5. scan' \in ScanSet
    <3>1. pos + UpToEnd(pos) \in Nat /\ 0 \in Nat /\ FALSE \in BOOLEAN
      BY <2>3
    <3> QED
      BY <2>1, <2>2, <2>3, <3>1, Zenon DEF ScanSet
  <2>6. scan'.off < scan'.end /\ scan'.max >= header'.sync_serial /\ header'.sync_serial > 0
    BY <2>1, <2>2, <2>3, <2>4
  <2>7. ASSUME ~misled PROVE Scanning'
    <3>1. Found(saved, data, orphans)
      BY <1>1, <2>2, <2>7 DEF LogInv
    <3>2. LapOK(scan)'
      BY <2>4 DEF LapOK
    <3>3. ASSUME Ready(data, saved.header)
          PROVE  pos <= saved.header.write_pos /\ data[pos].k = 0
      <4>1. pos < saved.header.write_pos /\ Tiled(data, pos, saved.header.write_pos)
        BY <3>3 DEF Ready
      <4>2. saved.header.write_pos \in Start..End /\ saved.header.write_pos \in Nat
        BY <2>2, HeaderFacts
      <4> QED
        BY <1>2, <2>3, <4>1, <4>2, TiledFirst
    <3>4. CheckOK'
      BY <2>1, <2>2, <2>3, <2>4, <3>3 DEF CheckOK, UpToEnd
    <3>5. Checking'
      BY <2>1, <2>4 DEF Checking
    <3> QED
      BY <2>1, <2>4, <3>1, <3>2, <3>4, <3>5 DEF Scanning
  <2> QED
    BY <1>2, <2>1, <2>5, <2>6, <2>7, ScanHolds
<1> QED
  BY <1>3, <1>4 DEF RecoverStart

\* ReadDone: the documents of the last write are checked, or the scan goes on.
LEMMA ReadDoneKeeps ==
  ASSUME LogInv, ReadDone
  PROVE  LogInv'
<1> DEFINE s == [scan EXCEPT !.max = header.sync_serial]
<1>1. mode = "read" /\ Recovering
  BY DEF ReadDone, Recovering
<1>2. /\ s \in ScanSet /\ s.max = header.sync_serial /\ s.off = scan.off /\ s.pos = scan.pos /\ s.end = scan.end
      /\ s.lap = scan.lap /\ s.wrapped = scan.wrapped /\ s.last = scan.last /\ s.lss = scan.lss
  <2>1. scan \in ScanSet /\ header.sync_serial \in Nat
    BY <1>1, ScanFacts
  <2>2. s \in ScanSet
    BY <2>1, Zenon DEF ScanSet
  <2> QED
    BY <2>1, <2>2 DEF ScanSet
<1>3. s.off < s.end /\ s.max >= header.sync_serial /\ s.off \in Nat /\ s.end \in Nat
  BY <1>1, <1>2, ScanFacts
<1>4. header.last_write_pos \in Nat
  BY <1>1, ScanFacts, HeaderFacts
<1> HIDE DEF s
<1>5. CASE /\ scan.off = header.last_write_pos /\ mode' = "check" /\ scan' = s
           /\ UNCHANGED <<header, dir, batch, data, saved, pend, orphans, misled, spent>>
  <2>1. ASSUME ~misled PROVE Scanning'
    <3>1. Scanning
      BY <1>1, <2>1, ScanFacts
    <3>2. Found(saved, data, orphans)' /\ LapOK(scan)'
      BY <1>2, <1>5, <3>1 DEF Scanning, LapOK
    <3>3. ~scan'.lap
      <4>1. s.lap => s.end <= header.last_write_pos
        BY <1>2, <3>1 DEF Scanning, LapOK
      <4> QED
        BY <1>2, <1>3, <1>4, <1>5, <4>1
    <3>4. Lost \/ CheckOK
      BY <1>1, <1>5, <3>1 DEF Scanning, Checking, Lost
    <3>5. CheckOK => CheckOK'
      BY <1>2, <1>5 DEF CheckOK, UpToEnd
    <3>6. Checking'
      BY <1>5 DEF Checking
    <3>7. mode' # "read"
      BY <1>5
    <3> QED
      BY <1>5, <3>2, <3>3, <3>4, <3>5, <3>6, <3>7 DEF Scanning, Lost
  <2>2. mode' \in {"read", "check", "examine"}
    BY <1>5
  <2> QED
    BY <1>1, <1>2, <1>3, <1>5, <2>1, <2>2, ScanFacts, ScanHolds
<1>6. CASE scan.off # header.last_write_pos /\ Examine(s)
  <2>1. ASSUME ~misled
        PROVE  /\ Found(saved, data, orphans) /\ LapOK(s) /\ s.pos = s.off
               /\ \/ Lost
                  \/ /\ Ready(data, header)
                     /\ \E b : Past(b) /\ (~s.lap => At(s.pos, s, b) /\ s.pos <= s.end)
    <3>1. Scanning /\ ~Checking
      BY <1>1, <1>6, <2>1, ScanFacts DEF Checking
    <3>2. Found(saved, data, orphans) /\ LapOK(s) /\ s.pos = s.off
      BY <1>1, <1>2, <3>1 DEF Scanning, LapOK
    <3>3. s.pos <= s.end
      BY <1>3, <3>2
    <3>4. Lost \/ ExamineOK(scan)
      BY <3>1 DEF Scanning, Lost
    <3> QED
      BY <1>2, <3>2, <3>3, <3>4 DEF ExamineOK, Past, At
  <2>2. ~misled => s.pos # s.end
    BY <1>3, <2>1
  <2> QED
    BY <1>1, <1>2, <1>3, <1>6, <2>1, <2>2, ExamineKeeps
<1> QED
  BY <1>5, <1>6 DEF ReadDone, s

\* ReadFailed: the volume is cleared.
LEMMA ReadFailedKeeps ==
  ASSUME LogInv, ReadFailed
  PROVE  LogInv'
<1>1. Recovering /\ Lclear
  BY DEF ReadFailed, Recovering
<1> QED
  BY <1>1, LclearKeeps

\* Check: a copy that was overtaken is refused; else the scan stays at a
\* document of the last write.
LEMMA CheckKeeps ==
  ASSUME LogInv, Check
  PROVE  LogInv'
<1> DEFINE p == scan.pos
           doc == Doc(p)
<1>1. mode = "check" /\ ToCheck /\ Recovering
  BY DEF Check, Recovering
<1>2. CASE Lclear
  BY <1>1, <1>2, LclearKeeps
<1>3. CASE /\ Magic(p) /\ doc.ws <= header.write_serial
           /\ scan' = [scan EXCEPT !.pos = @ + doc.len, !.lss = IF doc.ss > scan.lws THEN doc.ss ELSE @]
           /\ UNCHANGED <<header, dir, batch, data, saved, pend, mode, orphans, misled, spent>>
  <2>1. /\ scan \in ScanSet /\ data \in Disks /\ header \in Headers /\ p \in Nat /\ scan.lss \in Nat
        /\ header.sync_serial \in Nat /\ scan.max >= header.sync_serial
    BY <1>1, ScanFacts
  <2>2. doc.len \in Nat /\ doc.ss \in Nat /\ doc.ws \in Nat
    BY <2>1, MagicFacts
  <2> DEFINE lss == IF doc.ss > scan.lws THEN doc.ss ELSE scan.lss
  <2>3. lss \in Nat /\ p + doc.len \in Nat /\ (lss = doc.ss \/ lss = scan.lss)
    BY <2>1, <2>2
  <2>4. scan' = [scan EXCEPT !.pos = p + doc.len, !.lss = lss]
    BY <1>3
  <2> HIDE DEF lss
  <2>5. scan' \in ScanSet
    BY <2>1, <2>3, <2>4, Zenon DEF ScanSet
  <2>6. /\ scan'.pos = p + doc.len /\ scan'.lss = lss /\ scan'.off = scan.off /\ scan'.end = scan.end
        /\ scan'.lap = scan.lap /\ scan'.wrapped = scan.wrapped /\ scan'.max = scan.max
    BY <2>1, <2>4 DEF ScanSet
  <2>7. ASSUME ~misled PROVE Scanning'
    <3>1. Scanning
      BY <1>1, <2>7, ScanFacts
    <3>2. Found(saved, data, orphans)' /\ LapOK(scan)' /\ ~scan'.lap /\ mode' # "read"
      BY <1>1, <1>3, <2>6, <3>1 DEF Scanning, LapOK
    <3>3. Checking /\ Checking'
      BY <1>1, <1>3 DEF Checking
    <3>4. ASSUME CheckOK PROVE CheckOK'
      <4>1. header.last_write_pos \in Nat /\ header.write_pos \in Nat /\ header.last_write_pos \in Blocks
            /\ header.write_pos \in Start..End /\ header.last_write_pos \in Start..End /\ header.write_serial \in Nat
        BY <2>1, HeaderFacts
      <4>2. p + doc.len >= header.last_write_pos
        BY <2>1, <2>2, <3>4, <4>1 DEF CheckOK
      <4>3. ~Overtaken(data, header)
        <5> SUFFICES ASSUME Overtaken(data, header) PROVE FALSE
          OBVIOUS
        <5>1. p = header.last_write_pos
          BY <3>4 DEF CheckOK
        <5>2. doc = data[p] /\ data[p].len > 0 /\ data[p].k = 0
          BY <1>3, <2>1, <4>1, <5>1, MagicFacts
        <5> QED
          BY <1>3, <2>2, <4>1, <5>1, <5>2 DEF Overtaken
      <4>4. ASSUME Ready(data, header)
            PROVE  /\ p + doc.len <= header.write_pos /\ lss <= header.sync_serial
                   /\ p + doc.len < header.write_pos => data[p + doc.len].k = 0
        <5>1. p \in header.last_write_pos..header.write_pos - 1 /\ scan.lss <= header.sync_serial /\ data[p].k = 0
          BY <1>1, <2>1, <3>4, <4>1, <4>4 DEF CheckOK, Ready, ToCheck
        <5>2. doc = data[p]
          <6>1. p \in Blocks
            BY <4>1, <5>1, Sizes
          <6> QED
            BY <2>1, <6>1, MagicFacts
        <5>3. data[p].ss <= header.sync_serial /\ Tiled(data, header.last_write_pos, header.write_pos)
          BY <4>4, <5>1 DEF Ready
        <5> QED
          BY <2>1, <2>3, <4>1, <5>1, <5>2, <5>3, TiledNext
      <4> HIDE DEF doc
      <4> QED
        BY <1>3, <2>6, <3>4, <4>2, <4>3, <4>4 DEF CheckOK, UpToEnd
    <3> QED
      BY <1>1, <1>3, <3>1, <3>2, <3>3, <3>4 DEF Scanning
  <2>8. mode' \in {"read", "check", "examine"}
    BY <1>1, <1>3
  <2> QED
    BY <1>1, <1>3, <2>1, <2>5, <2>6, <2>7, <2>8, ScanFacts, ScanHolds
<1> QED
  BY <1>2, <1>3 DEF Check

\* CheckDone: the scan is at write_pos, and at the first document written after
\* the copy if there is one.
LEMMA CheckDoneKeeps ==
  ASSUME LogInv, CheckDone
  PROVE  LogInv'
<1>1. mode = "check" /\ ~ToCheck /\ Recovering /\ Examine(scan)
  BY DEF CheckDone, Recovering
<1>2. /\ scan \in ScanSet /\ data \in Disks /\ header \in Headers /\ scan.pos \in Nat /\ scan.end \in Nat /\ scan.off \in Nat
      /\ scan.lss \in Nat /\ scan.off < scan.end /\ scan.max >= header.sync_serial /\ header = saved.header /\ dir = saved.dir
      /\ header.sync_serial \in Nat
  BY <1>1, ScanFacts
<1>3. /\ header.last_write_pos \in Nat /\ header.write_pos \in Nat /\ header.write_pos \in Start..End
      /\ header.write_pos <= End /\ header.write_pos >= Start
  BY <1>2, HeaderFacts
<1>4. scan.pos >= header.write_pos /\ header.write_pos >= header.last_write_pos
  BY <1>1, <1>2, <1>3 DEF ToCheck
<1>5. ASSUME ~misled, ~Lost
      PROVE  /\ Ready(data, header) /\ scan.end # header.last_write_pos
             /\ \E b : Past(b) /\ At(scan.pos, scan, b) /\ scan.pos <= scan.end
  <2>1. Found(saved, data, orphans) /\ CheckOK
    BY <1>1, <1>5, ScanFacts DEF Scanning, Checking, Lost
  <2>2. ~Hopeless(saved, orphans)
    BY <1>2, <1>3, <1>4, <1>5 DEF Hopeless, JustWrapped, Lost
  <2>3. ~Overtaken(data, header)
    BY <1>2, <1>3, <1>4, <2>1 DEF CheckOK, Overtaken
  <2>4. Ready(data, header)
    BY <1>2, <2>1, <2>2, <2>3 DEF Found
  <2>5. PICK b \in header.write_pos..End : EndsAt(data, saved, orphans, b)
    BY <1>2, <2>1, <2>2, <2>3 DEF Found
  <2>6. /\ scan.pos = header.write_pos /\ scan.lss <= header.sync_serial
        /\ header.last_write_pos < header.write_pos /\ header.write_pos <= header.last_write_pos + AGG_SIZE
        /\ scan.end = header.last_write_pos + UpToEnd(header.last_write_pos)
    BY <1>2, <1>3, <1>4, <2>1, <2>4 DEF CheckOK, Ready
  <2>7. header.write_pos <= scan.end
    <3> DEFINE l == header.last_write_pos
               w == header.write_pos
    <3>1. l \in Nat /\ w \in Nat /\ l < w /\ w <= l + AGG_SIZE /\ w <= End /\ scan.end = l + UpToEnd(l)
      BY <1>3, <2>6
    <3>2. UpToEnd(l) = IF l + (AGG_SIZE + AGG_SIZE) > End THEN End - l ELSE AGG_SIZE + AGG_SIZE
      BY Sizes DEF UpToEnd, RECOVERY_SIZE
    <3> HIDE DEF l, w
    <3>3. w <= l + UpToEnd(l)
      BY <3>1, <3>2, Sizes
    <3> QED
      BY <3>1, <3>3 DEF w
  <2>8. At(scan.pos, scan, b)
    <3>1. CASE header.write_pos >= b
      BY <2>6, <3>1 DEF At
    <3>2. CASE header.write_pos < b
      <4>1. b \in Start..End /\ b \in Nat /\ header.write_pos \in Blocks /\ header.write_pos \in header.write_pos..b - 1
            /\ header.sync_serial + 1 \in Nat
        BY <1>2, <1>3, <3>2, Sizes
      <4>2. Run(data, header, b, header.sync_serial + 1)
        BY <1>2, <2>5 DEF EndsAt
      <4>3. data[header.write_pos].k = 0
        BY <1>2, <3>2, <4>1, <4>2, TiledFirst DEF Run
      <4>4. header.sync_serial <= data[header.write_pos].ss /\ data[header.write_pos].ss \in Nat
        BY <1>2, <4>1, <4>2, RunBlock, BlockType
      <4>5. scan.lss <= data[header.write_pos].ss /\ header.write_pos >= header.write_pos
        BY <1>2, <1>3, <2>6, <4>4
      <4> QED
        BY <2>6, <4>3, <4>5 DEF At
    <3> QED
      BY <1>2, <1>3, <3>1, <3>2
  <2>9. scan.end # header.last_write_pos /\ scan.pos <= scan.end
    BY <1>2, <1>3, <2>6, <2>7
  <2> QED
    BY <2>4, <2>5, <2>8, <2>9 DEF Past
<1>6. ASSUME ~misled PROVE Found(saved, data, orphans) /\ LapOK(scan) /\ ~scan.wrapped
  BY <1>1, <1>6, ScanFacts DEF Scanning, LapOK
<1> QED
  BY <1>1, <1>2, <1>5, <1>6, ExamineKeeps

\* ExamineNext: the scan moves to the next document of the run, or behind it.
LEMMA ExamineNextKeeps ==
  ASSUME LogInv, ExamineNext
  PROVE  LogInv'
<1> DEFINE p == scan.pos
           doc == Doc(p)
<1>1. /\ mode = "examine" /\ Recovering /\ p < scan.end /\ Magic(p)
      /\ UNCHANGED <<header, dir, batch, data, saved, pend, mode, orphans, misled, spent>>
  BY DEF ExamineNext, Recovering
<1>2. /\ scan \in ScanSet /\ data \in Disks /\ header \in Headers /\ p \in Nat /\ scan.end \in Nat
      /\ scan.lss \in Nat /\ scan.max \in Nat /\ scan.max >= header.sync_serial /\ header.sync_serial \in Nat
      /\ header = saved.header /\ scan.off < scan.end
  BY <1>1, ScanFacts
<1>3. doc.len \in Nat /\ doc.ss \in Nat /\ doc.ws \in Nat /\ p + doc.len \in Nat
  BY <1>2, MagicFacts
<1>4. \E lws, m \in Nat : /\ scan' = [scan EXCEPT !.lss = doc.ss, !.lws = lws, !.last = p, !.pos = p + doc.len, !.max = m]
                          /\ m >= header.sync_serial
  <2>1. CASE /\ doc.ss = scan.lss
             /\ scan' = [scan EXCEPT !.lws = doc.ws, !.last = p, !.pos = @ + doc.len]
    <3>1. scan' = [scan EXCEPT !.lss = doc.ss, !.lws = doc.ws, !.last = p, !.pos = p + doc.len, !.max = scan.max]
      BY <1>2, <2>1 DEF ScanSet
    <3> QED
      BY <1>2, <1>3, <3>1
  <2>2. CASE /\ doc.ss > scan.lss /\ doc.ss <= header.sync_serial + 1
             /\ scan' = [scan EXCEPT !.lss = doc.ss, !.last = p, !.pos = @ + doc.len,
                                     !.max = IF doc.ss > header.sync_serial THEN doc.ss ELSE @]
    <3> DEFINE m == IF doc.ss > header.sync_serial THEN doc.ss ELSE scan.max
    <3>1. m \in Nat /\ m >= header.sync_serial
      BY <1>2, <1>3
    <3>2. scan.lws \in Nat
      BY <1>2 DEF ScanSet
    <3>3. scan' = [scan EXCEPT !.lss = doc.ss, !.last = p, !.pos = @ + doc.len, !.max = m]
      BY <2>2
    <3> HIDE DEF m
    <3>4. scan' = [scan EXCEPT !.lss = doc.ss, !.lws = scan.lws, !.last = p, !.pos = p + doc.len, !.max = m]
      BY <1>2, <3>3 DEF ScanSet
    <3> QED
      BY <3>1, <3>2, <3>4
  <2> QED
    BY <2>1, <2>2 DEF ExamineNext
<1>5. PICK lws \in Nat, m \in Nat :
        /\ scan' = [scan EXCEPT !.lss = doc.ss, !.lws = lws, !.last = p, !.pos = p + doc.len, !.max = m]
        /\ m >= header.sync_serial
  BY <1>4
<1>6. scan' \in ScanSet
  BY <1>2, <1>3, <1>5, Zenon DEF ScanSet
<1>7. /\ scan'.pos = p + doc.len /\ scan'.lss = doc.ss /\ scan'.last = p /\ scan'.off = scan.off /\ scan'.end = scan.end
      /\ scan'.lap = scan.lap /\ scan'.wrapped = scan.wrapped /\ scan'.max = m
  BY <1>2, <1>5 DEF ScanSet
<1>8. ASSUME ~misled PROVE Scanning'
  <2>1. Scanning /\ ~Checking /\ ~Checking'
    BY <1>1, <1>8, ScanFacts DEF Checking
  <2>2. Found(saved, data, orphans) /\ LapOK(scan') /\ mode' # "check" /\ mode' # "read"
    BY <1>1, <1>7, <2>1 DEF Scanning, LapOK
  <2>3. ASSUME Ready(data, header), NEW b \in header.write_pos..End, EndsAt(data, saved, orphans, b), ~scan.lap,
               At(p, scan, b)
        PROVE  At(p + doc.len, scan', b) /\ At(p, scan', b)
    <3>1. header.write_pos \in Nat /\ header.write_pos \in Start..End /\ b \in Nat /\ b \in Start..End
      BY <1>2, HeaderFacts, Sizes
    <3>2. CASE p >= b
      <4>1. p + doc.len >= b
        BY <1>2, <1>3, <3>1, <3>2
      <4> QED
        BY <3>2, <4>1 DEF At
    <3>3. CASE p < b
      <4>1. p >= header.write_pos /\ data[p].k = 0
        BY <1>2, <2>3, <3>1, <3>3 DEF At
      <4>2. p \in header.write_pos..b - 1 /\ p \in Blocks
        BY <1>2, <3>1, <3>3, <4>1, Sizes
      <4>3. doc = data[p]
        BY <1>2, <4>2, MagicFacts
      <4>4. Run(data, header, b, header.sync_serial + 1)
        BY <1>2, <2>3 DEF EndsAt
      <4>5. p + doc.len <= b /\ (p + doc.len < b => data[p + doc.len].k = 0)
        BY <1>2, <3>1, <4>1, <4>2, <4>3, <4>4, TiledNext DEF Run
      <4>6. At(p, scan', b)
        <5>1. doc.ss <= doc.ss
          BY <1>3
        <5> QED
          BY <1>7, <4>1, <4>3, <5>1 DEF At
      <4>7. CASE p + doc.len < b
        <5>1. p + doc.len \in header.write_pos..b - 1 /\ p <= p + doc.len /\ p + doc.len >= header.write_pos
          BY <1>2, <1>3, <3>1, <4>1, <4>7
        <5>2. doc.ss <= data[p + doc.len].ss
          BY <4>2, <4>3, <4>4, <5>1 DEF Run, Rising
        <5> HIDE DEF doc
        <5> QED
          BY <1>7, <4>5, <4>6, <4>7, <5>1, <5>2 DEF At
      <4>8. CASE p + doc.len >= b
        BY <4>6, <4>8 DEF At
      <4> QED
        BY <1>3, <3>1, <4>7, <4>8
    <3> QED
      BY <1>2, <3>1, <3>2, <3>3
  <2>4. Lost \/ ExamineOK(scan)
    BY <2>1 DEF Scanning, Lost
  <2>5. ASSUME ~Lost
        PROVE  /\ Ready(data, header)
               /\ \E b : /\ Past(b)
                         /\ ~scan'.lap => At(scan'.pos, scan', b) /\ At(scan'.last, scan', b)
    <3>1. Ready(data, header)
      BY <2>4, <2>5 DEF ExamineOK
    <3>2. PICK b \in header.write_pos..End : EndsAt(data, saved, orphans, b) /\ (~scan.lap => At(p, scan, b))
      BY <2>4, <2>5 DEF ExamineOK
    <3>3. ~scan'.lap => At(scan'.pos, scan', b) /\ At(scan'.last, scan', b)
      BY <1>7, <2>3, <3>1, <3>2
    <3> QED
      BY <3>1, <3>2, <3>3 DEF Past
  <2> QED
    BY <1>1, <2>1, <2>2, <2>5, ScanningHolds
<1>9. mode' \in {"read", "check", "examine"}
  BY <1>1
<1> QED
  BY <1>1, <1>2, <1>5, <1>6, <1>7, <1>8, <1>9, ScanFacts, ScanHolds

\* ExamineMore: the next read starts at a document of the run.
LEMMA ExamineMoreKeeps ==
  ASSUME LogInv, ExamineMore
  PROVE  LogInv'
<1> DEFINE back == IF scan.pos > scan.end THEN scan.last ELSE scan.pos
           pos == IF back >= End THEN Start ELSE back
           s == [scan EXCEPT !.lap = @ \/ back >= End]
<1>1. mode = "examine" /\ Recovering /\ scan.pos >= scan.end /\ Read(s, pos, UpToEnd(pos))
  BY DEF ExamineMore, Recovering
<1>2. /\ scan \in ScanSet /\ data \in Disks /\ header \in Headers /\ scan.pos \in Nat /\ scan.end \in Nat /\ scan.last \in Nat
      /\ scan.max >= header.sync_serial
  BY <1>1, ScanFacts
<1>3. back \in Nat /\ pos \in Nat /\ pos < End /\ (back < End => pos = back)
  BY <1>2, Sizes
<1>4. UpToEnd(pos) \in Nat /\ UpToEnd(pos) > 0
  <2> HIDE DEF pos
  <2> QED
    BY <1>3, Sizes DEF UpToEnd, RECOVERY_SIZE
<1>5. scan.pos > scan.end => back = scan.last
  OBVIOUS
<1>6. ~(scan.pos > scan.end) => back = scan.pos /\ scan.pos <= scan.end
  BY <1>2
<1> HIDE DEF back, pos
<1>7. (scan.lap \/ back >= End) \in BOOLEAN
  OBVIOUS
<1>8. s \in ScanSet
  BY <1>2, <1>7, Zenon DEF ScanSet
<1>9. s.max = scan.max /\ s.lss = scan.lss /\ s.wrapped = scan.wrapped
  BY <1>2 DEF ScanSet
<1>10. s.lap = (scan.lap \/ back >= End)
  BY <1>2, Zenon DEF ScanSet
<1>11. ASSUME ~misled
       PROVE  /\ Found(saved, data, orphans) /\ (s.wrapped => s.lap)
              /\ Lost \/ (Ready(data, header) /\ \E b : /\ Past(b)
                                                        /\ ~s.lap => pos # header.last_write_pos /\ At(pos, s, b))
  <2>1. Scanning /\ ~Checking
    BY <1>1, <1>11, ScanFacts DEF Checking
  <2>2. Found(saved, data, orphans) /\ (scan.wrapped => scan.lap)
    BY <2>1 DEF Scanning, LapOK
  <2>3. s.wrapped => s.lap
    BY <1>9, <1>10, <2>2
  <2>4. Lost \/ ExamineOK(scan)
    BY <2>1 DEF Scanning, Lost
  <2>5. ASSUME ~Lost PROVE Ready(data, header) /\ \E b : Past(b) /\ (~s.lap => pos # header.last_write_pos /\ At(pos, s, b))
    <3>1. Ready(data, header)
      BY <2>4, <2>5 DEF ExamineOK
    <3>2. PICK b \in header.write_pos..End :
             /\ EndsAt(data, saved, orphans, b)
             /\ ~scan.lap => At(scan.pos, scan, b) /\ (scan.pos <= scan.end \/ At(scan.last, scan, b))
      BY <2>4, <2>5 DEF ExamineOK
    <3>3. ASSUME ~s.lap PROVE pos # header.last_write_pos /\ At(pos, s, b)
      <4>1. ~scan.lap /\ ~(back >= End)
        BY <1>10, <3>3
      <4>2. pos = back
        BY <1>3, <4>1, Sizes
      <4>3. At(back, scan, b)
        <5>1. CASE scan.pos > scan.end
          <6>1. ~(scan.pos <= scan.end)
            BY <1>2, <5>1
          <6> QED
            BY <1>5, <3>2, <4>1, <5>1, <6>1
        <5>2. CASE ~(scan.pos > scan.end)
          BY <1>6, <3>2, <4>1, <5>2
        <5> QED
          BY <5>1, <5>2
      <4>4. At(pos, s, b)
        BY <1>9, <4>2, <4>3 DEF At
      <4>5. header.last_write_pos < header.write_pos /\ header.last_write_pos \in Nat /\ header.write_pos \in Nat /\ b \in Nat /\ b >= header.write_pos
        BY <1>2, <3>1, HeaderFacts, Sizes DEF Ready
      <4>6. pos # header.last_write_pos
        BY <1>3, <4>4, <4>5 DEF At
      <4> QED
        BY <4>4, <4>6
    <3> QED
      BY <3>1, <3>2, <3>3 DEF Past
  <2> QED
    BY <2>2, <2>3, <2>5
<1> HIDE DEF s
<1> QED
  BY <1>1, <1>2, <1>3, <1>4, <1>8, <1>9, <1>11, ReadKeeps

\* ExamineStop: the scan has passed the end of the run, and what Ldone clears
\* from there covers the write that was cut.
LEMMA ExamineStopKeeps ==
  ASSUME LogInv, ExamineStop
  PROVE  LogInv'
<1> DEFINE p == scan.pos
           doc == Doc(p)
           max == IF Magic(p) /\ doc.ss > header.sync_serial THEN doc.ss ELSE scan.max
           doubt == scan.lap /\ p <= header.write_pos /\ p + EVACUATION_SIZE >= header.write_pos
           s == [scan EXCEPT !.wrapped = TRUE, !.lap = TRUE]
<1>1. /\ mode = "examine" /\ Recovering /\ p < scan.end
      /\ ~Magic(p) \/ doc.ss < scan.lss \/ doc.ss > header.sync_serial + 1
      /\ \/ DangerZone(p) /\ Read(s, Start, RECOVERY_SIZE)
         \/ ~DangerZone(p) /\ Ldone(p, max, doubt)
  BY DEF ExamineStop, Recovering
<1>2. /\ scan \in ScanSet /\ data \in Disks /\ header \in Headers /\ p \in Nat /\ scan.end \in Nat /\ scan.lss \in Nat
      /\ scan.max \in Nat /\ scan.max >= header.sync_serial /\ header.sync_serial \in Nat
      /\ header = saved.header /\ dir = saved.dir /\ DirOK(dir)
  BY <1>1, ScanFacts
<1>3. /\ header.last_write_pos \in Nat /\ header.write_pos \in Nat /\ header.write_pos \in Start..End
      /\ header.write_pos <= End
  BY <1>2, HeaderFacts
<1>4. doc.len \in Nat /\ doc.ss \in Nat
  BY <1>2, MagicFacts
<1>5. ASSUME ~misled PROVE Found(saved, data, orphans) /\ LapOK(scan) /\ (Lost \/ ExamineOK(scan))
  <2>1. Scanning /\ ~Checking
    BY <1>1, <1>5, ScanFacts DEF Checking
  <2> QED
    BY <2>1 DEF Scanning, Lost
<1>6. CASE Read(s, Start, RECOVERY_SIZE)
  <2>1. /\ s.max = scan.max
    BY <1>2 DEF ScanSet
  <2>2. s \in ScanSet /\ s.lap = TRUE
    <3>1. TRUE \in BOOLEAN
      OBVIOUS
    <3> QED
      BY <1>2, <3>1, Zenon DEF ScanSet
  <2>3. Start \in Nat /\ RECOVERY_SIZE \in Nat /\ RECOVERY_SIZE > 0
    BY Sizes DEF RECOVERY_SIZE
  <2> HIDE DEF s
  <2>4. ASSUME ~misled
        PROVE  /\ Found(saved, data, orphans)
               /\ Lost \/ (Ready(data, header) /\ \E b : Past(b))
    BY <1>5, <2>4 DEF ExamineOK, Past
  <2> QED
    BY <1>1, <1>2, <1>6, <2>1, <2>2, <2>3, <2>4, ReadKeeps
<1>7. CASE ~DangerZone(p) /\ Ldone(p, max, doubt)
  <2>1. max \in Nat /\ max >= header.sync_serial
    BY <1>2, <1>4
  <2>2. doubt \in BOOLEAN
    <3>1. scan.lap \in BOOLEAN
      BY <1>2 DEF ScanSet
    <3> QED
      BY <3>1
  <2>3. p <= End - AGG_SIZE
    BY <1>2, <1>7, Sizes DEF DangerZone
  <2>4. UpTo(p) = IF p + EVACUATION_SIZE > End THEN p + EVACUATION_SIZE - End ELSE p + EVACUATION_SIZE
    BY DEF UpTo
  <2>5. UpTo(p) \in Nat /\ EVACUATION_SIZE \in Nat /\ p + EVACUATION_SIZE >= p + AGG_SIZE /\ p + EVACUATION_SIZE \in Nat
    BY <1>2, <2>4, Sizes
  <2>6. ASSUME NEW e \in Left(p) \ orphans
        PROVE  /\ e \in dir \ orphans /\ dir_valid(header, << >>, e) /\ e \in EntrySet
               /\ header.write_pos <= UpTo(p)
               /\ vol_offset(e) < header.write_pos \/ vol_offset(e) >= UpTo(p)
    <3>1. /\ e \in dir \ orphans /\ dir_valid(header, << >>, e)
          /\ ~Cleared(offset_to_vol_offset(header.write_pos), offset_to_vol_offset(UpTo(p)), e)
      BY DEF Left
    <3>2. e \in EntrySet
      BY <1>2, <3>1 DEF DirOK
    <3> QED
      BY <1>3, <2>5, <3>1, <3>2, ClearedFacts
  <2>7. ASSUME ~misled, ~doubt, ~(p + EVACUATION_SIZE > End /\ UpTo(p) >= header.write_pos), ~Lost
        PROVE  /\ Ready(data, header) /\ Behind(saved, orphans)
               /\ \A e \in Left(p) \ orphans : IntactIn(data, e)
    <3>1. Ready(data, header) /\ Behind(saved, orphans) /\ LapOK(scan) /\ header.last_write_pos < header.write_pos
      BY <1>5, <2>7 DEF ExamineOK, Found, Ready
    <3>2. PICK b \in header.write_pos..End : EndsAt(data, saved, orphans, b) /\ (~scan.lap => At(p, scan, b))
      BY <1>5, <2>7 DEF ExamineOK
    <3>3. b \in Nat /\ b \in Start..End /\ b >= header.write_pos
      BY <1>3, <3>2, Sizes
    <3>4. CASE scan.lap
      <4>1. p < header.write_pos /\ p <= header.write_pos
        BY <1>1, <1>2, <1>3, <3>1, <3>4 DEF LapOK
      <4>2. p + EVACUATION_SIZE < header.write_pos
        BY <1>2, <1>3, <2>5, <2>7, <3>4, <4>1
      <4>3. UpTo(p) < header.write_pos
        BY <1>2, <1>3, <2>4, <2>5, <4>2, Sizes
      <4>4. Left(p) \ orphans = {}
        BY <1>3, <2>5, <2>6, <4>3
      <4> QED
        BY <3>1, <4>4
    <3>5. CASE ~scan.lap
      <4>1. p >= b
        <5> SUFFICES ASSUME p < b PROVE FALSE
          BY <1>2, <3>3
        <5>1. p >= header.write_pos /\ data[p].k = 0 /\ scan.lss <= data[p].ss
          BY <1>2, <3>2, <3>3, <3>5 DEF At
        <5>2. p \in header.write_pos..b - 1 /\ header.sync_serial + 1 \in Nat
          BY <1>2, <1>3, <3>3, <5>1
        <5>3. Run(data, header, b, header.sync_serial + 1)
          BY <1>2, <3>2 DEF EndsAt
        <5>4. data[p].ss <= header.sync_serial + 1 /\ data[p].len > 0 /\ p \in Blocks
          BY <1>2, <3>3, <5>2, <5>3, RunBlock
        <5>5. doc = data[p] /\ Magic(p)
          BY <1>2, <5>1, <5>4, MagicFacts
        <5> QED
          BY <1>1, <1>2, <1>4, <5>1, <5>4, <5>5
      <4>2. KeptFrom(data, saved, orphans, b + AGG_SIZE)
        <5>1. ~(b > End - AGG_SIZE)
          BY <1>2, <2>3, <3>3, <4>1, Sizes
        <5> QED
          BY <3>2, <5>1 DEF EndsAt
      <4>3. ASSUME NEW e \in Left(p) \ orphans PROVE IntactIn(data, e)
        <5>1. /\ e \in dir \ orphans /\ dir_valid(header, << >>, e) /\ e \in EntrySet
              /\ header.write_pos <= UpTo(p)
              /\ vol_offset(e) < header.write_pos \/ vol_offset(e) >= UpTo(p)
          BY <2>6
        <5>2. ~(p + EVACUATION_SIZE > End)
          BY <1>3, <2>5, <2>7, <5>1
        <5>3. UpTo(p) >= b + AGG_SIZE
          BY <1>2, <2>4, <2>5, <3>3, <4>1, <5>2, Sizes
        <5>4. vol_offset(e) \in Nat
          <6>1. vol_offset(e) + e.len <= End
            BY <1>2, <5>1 DEF DirOK
          <6> QED
            BY <5>1, <6>1, EntryFacts, Sizes
        <5>5. vol_offset(e) < header.write_pos \/ vol_offset(e) >= b + AGG_SIZE
          BY <2>5, <3>3, <5>1, <5>3, <5>4, Sizes
        <5> QED
          BY <1>2, <4>2, <5>1, <5>5 DEF KeptFrom
      <4> QED
        BY <3>1, <4>3
    <3> QED
      BY <3>4, <3>5
  <2> HIDE DEF max, doubt
  <2> QED
    BY <1>1, <1>2, <1>7, <2>1, <2>2, <2>7, LdoneKeeps
<1> QED
  BY <1>1, <1>6, <1>7

\* A step that changes nothing.
LEMMA LogStutters ==
  ASSUME LogInv, UNCHANGED logvars
  PROVE  LogInv'
<1>1. UNCHANGED <<header, dir, batch, data, saved, pend, mode, scan, orphans, misled, spent>>
  BY DEF logvars
<1>2. Recovering' = Recovering /\ LogTypes' = LogTypes
  BY <1>1 DEF Recovering, LogTypes, LogBound, NeverSynced, FreshHeader
<1>3. Live' = Live /\ Scanning' = Scanning
  BY <1>1 DEF Live, Scanning, Checking, CheckOK, ExamineOK, At, LapOK, UpToEnd
<1> QED
  BY <1>1, <1>2, <1>3 DEF LogInv

\* Every step keeps the invariant.
LEMMA LogStepKeeps ==
  ASSUME LogInv, [LogNext]_logvars
  PROVE  LogInv'
<1>1. ASSUME NEW b \in Batches, aggWrite(b) PROVE LogInv'
  BY <1>1, aggWriteKeeps
<1>2. CASE aggWriteDone
  BY <1>2, aggWriteDoneKeeps
<1>3. CASE aggWriteFailed
  BY <1>3, aggWriteFailedKeeps
<1>4. CASE LogSyncBegin
  BY <1>4, LogSyncBeginKeeps
<1>5. CASE LogSyncEnd
  BY <1>5, SyncEndKeeps
<1>6. CASE LogCrash
  BY <1>6, LogCrashKeeps
<1>7. CASE Scan
  <2>1. CASE RecoverStart
    BY <2>1, RecoverStartKeeps
  <2>2. CASE ReadDone
    BY <2>2, ReadDoneKeeps
  <2>3. CASE ReadFailed
    BY <2>3, ReadFailedKeeps
  <2>4. CASE Check
    BY <2>4, CheckKeeps
  <2>5. CASE CheckDone
    BY <2>5, CheckDoneKeeps
  <2>6. CASE ExamineNext
    BY <2>6, ExamineNextKeeps
  <2>7. CASE ExamineStop
    BY <2>7, ExamineStopKeeps
  <2>8. CASE ExamineMore
    BY <2>8, ExamineMoreKeeps
  <2> QED
    BY <1>7, <2>1, <2>2, <2>3, <2>4, <2>5, <2>6, <2>7, <2>8 DEF Scan
<1>8. CASE UNCHANGED logvars
  BY <1>8, LogStutters
<1> QED
  BY <1>1, <1>2, <1>3, <1>4, <1>5, <1>6, <1>7, <1>8 DEF LogNext

-----------------------------------------------------------------------------
(* The start, and the theorems                                               *)

\* The documents the log starts with.
LEMMA PrefillFacts ==
  LET n == Len(Prefill)
      place(i) == Start + Before(Prefill, i)
  IN  /\ Prefill \in Lengths /\ n \in Nat
      /\ place(1) = Start /\ place(n + 1) \in Nat /\ place(n + 1) <= End
      /\ \A i \in 1..n : /\ place(i) \in Nat /\ Start <= place(i) /\ Prefill[i] \in Nat /\ Prefill[i] >= 1 /\ Prefill[i] <= AGG_SIZE
                         /\ place(i + 1) = place(i) + Prefill[i] /\ place(i) + Prefill[i] <= place(n + 1)
      /\ \A i, j \in 1..n : i < j => place(i) + Prefill[i] <= place(j)
<1> DEFINE n == Len(Prefill)
           B(i) == Before(Prefill, i)
<1>1. Prefill \in Lengths /\ (\A i \in 1..n : Prefill[i] <= AGG_SIZE) /\ Start + SizeOf(Prefill) <= End
  BY LogConstants DEF Lengths
<1>2. Prefill \in Lengths
  BY <1>1
<1>3. n \in Nat /\ \A i \in 1..n : Prefill[i] \in Nat /\ Prefill[i] >= 1 /\ Prefill[i] <= AGG_SIZE
  <2>1. n \in Nat /\ \A i \in 1..n : Prefill[i] \in Nat \ {0}
    BY <1>2 DEF Lengths
  <2> QED
    BY <1>1, <2>1
<1>4. /\ SizeOf(Prefill) \in Nat
      /\ \A i \in 1..n : B(i) \in Nat /\ B(i) + Prefill[i] <= SizeOf(Prefill)
      /\ \A i, j \in 1..n : i < j => B(i) + Prefill[i] <= B(j)
  BY <1>2, DocsLieApart
<1>5. B(1) = 0 /\ B(n + 1) = SizeOf(Prefill) /\ \A i \in 1..n : B(i + 1) = B(i) + Prefill[i]
  <2>1. EndOf(Prefill)[0] = 0 /\ \A i \in 1..n : EndOf(Prefill)[i] = EndOf(Prefill)[i - 1] + Prefill[i]
    BY <1>2, EndOfDef
  <2>2. (n + 1) - 1 = n /\ 1 - 1 = 0 /\ \A i \in 1..n : (i + 1) - 1 = i
    BY <1>3
  <2> QED
    BY <2>1, <2>2 DEF Before, SizeOf
<1> HIDE DEF n, B
<1>6. /\ Start + B(1) = Start /\ Start + B(n + 1) \in Nat /\ Start + B(n + 1) <= End
  BY <1>1, <1>4, <1>5, Sizes
<1>7. ASSUME NEW i \in 1..n
      PROVE  /\ Start + B(i) \in Nat /\ Start <= Start + B(i) /\ Prefill[i] \in Nat /\ Prefill[i] >= 1 /\ Prefill[i] <= AGG_SIZE
             /\ Start + B(i + 1) = (Start + B(i)) + Prefill[i] /\ (Start + B(i)) + Prefill[i] <= Start + B(n + 1)
  BY <1>3, <1>4, <1>5, Sizes
<1>8. ASSUME NEW i \in 1..n, NEW j \in 1..n, i < j PROVE (Start + B(i)) + Prefill[i] <= Start + B(j)
  BY <1>4, <1>7, <1>8, Sizes
<1> QED
  BY <1>2, <1>3, <1>6, <1>7, <1>8 DEF n, B

\* The invariant holds of a volume that was never synced.
LEMMA LogInitHolds ==
  ASSUME LogInit
  PROVE  LogInv
<1> DEFINE n == Len(Prefill)
           place(i) == Start + Before(Prefill, i)
           top == place(n + 1)
           l == IF n = 0 THEN Start ELSE place(n)
<1>1. /\ Prefill \in Lengths /\ n \in Nat
      /\ place(1) = Start /\ top \in Nat /\ top <= End
      /\ \A i \in 1..n : /\ place(i) \in Nat /\ Start <= place(i) /\ Prefill[i] \in Nat /\ Prefill[i] >= 1 /\ Prefill[i] <= AGG_SIZE
                         /\ place(i + 1) = place(i) + Prefill[i] /\ place(i) + Prefill[i] <= top
      /\ \A i, j \in 1..n : i < j => place(i) + Prefill[i] <= place(j)
  BY PrefillFacts
<1>2. /\ header = [FreshHeader EXCEPT !.write_pos = top, !.agg_pos = top, !.last_write_pos = l,
                                      !.write_serial = n, !.dirty = n > 0]
      /\ dir = {[off |-> offset_to_vol_offset(place(i)), len |-> Prefill[i], phase |-> 0, id |-> i] : i \in 1..n}
      /\ data = [p \in Blocks |->
                   IF p >= top THEN NoBlock
                   ELSE LET i == CHOOSE j \in 1..n : place(j) <= p /\ p < place(j + 1)
                        IN  [id |-> i, ws |-> i - 1, ss |-> 0, len |-> Prefill[i], k |-> p - place(i)]]
      /\ batch = << >> /\ saved = [header |-> FreshHeader, dir |-> {}] /\ pend = {}
      /\ mode = "up" /\ misled = FALSE
      /\ spent = [b \in DOMAIN LogBound |-> IF b = "writes" THEN n ELSE 0]
  BY DEF LogInit
<1>3. top >= Start /\ (n = 0 => top = Start) /\ l \in Start..End - 1 /\ top \in Start..End
  <2>1. CASE n = 0
    <3>1. n + 1 = 1
      BY <2>1
    <3>2. top = Start /\ l = Start
      BY <1>1, <2>1, <3>1
    <3> QED
      BY <3>2, Sizes
  <2>2. CASE n # 0
    <3>1. n \in 1..n
      BY <1>1, <2>2
    <3>2. l = place(n) /\ place(n) + Prefill[n] <= top /\ place(n) \in Nat /\ Start <= place(n) /\ Prefill[n] \in Nat /\ Prefill[n] >= 1
      BY <1>1, <2>2, <3>1
    <3> HIDE DEF top, l, place
    <3> QED
      BY <1>1, <2>2, <3>2, Sizes
  <2> QED
    BY <2>1, <2>2
<1>4. /\ FreshHeader = [write_pos |-> Start, last_write_pos |-> Start, agg_pos |-> Start,
                        sync_serial |-> 0, write_serial |-> 0, phase |-> 0, dirty |-> FALSE]
      /\ FreshHeader \in Headers
  BY FreshOK DEF FreshHeader, HeaderOK
<1> HIDE DEF place, top, l, n
<1>5. /\ header.write_pos = top /\ header.agg_pos = top /\ header.last_write_pos = l /\ header.sync_serial = 0
      /\ header.phase = 0
  BY <1>2, <1>4
<1>6. header \in Headers /\ HeaderOK(header)
  <2>1. (n > 0) \in BOOLEAN
    OBVIOUS
  <2>2. header \in Headers
    BY <1>1, <1>2, <1>3, <1>4, <2>1, Zenon DEF Headers
  <2> QED
    BY <1>1, <1>5, <2>2 DEF HeaderOK
<1>7. ASSUME NEW i \in 1..n, NEW x \in 0..Prefill[i] - 1
      PROVE  data[place(i) + x] = [id |-> i, ws |-> i - 1, ss |-> 0, len |-> Prefill[i], k |-> x]
  <2> DEFINE p == place(i) + x
             Of(j) == place(j) <= p /\ p < place(j + 1)
             c == CHOOSE j \in 1..n : Of(j)
  <2>1. /\ place(i) \in Nat /\ Start <= place(i) /\ Prefill[i] \in Nat /\ place(i + 1) = place(i) + Prefill[i]
        /\ place(i) + Prefill[i] <= top /\ x \in Nat /\ x < Prefill[i]
    BY <1>1
  <2>2. p \in Nat /\ place(i) <= p /\ p < place(i) + Prefill[i]
    BY <2>1
  <2>3. Of(i) /\ p \in Blocks /\ ~(p >= top)
    BY <1>1, <2>1, <2>2, Sizes
  <2> HIDE DEF p
  <2>4. ASSUME NEW j \in 1..n, Of(j) PROVE j = i
    <3>1. place(j) \in Nat /\ Prefill[j] \in Nat /\ p < place(j) + Prefill[j] /\ place(j) <= p
      BY <1>1, <2>4
    <3>2. ~(j < i)
      BY <1>1, <2>1, <2>2, <3>1
    <3>3. ~(i < j)
      BY <1>1, <2>1, <2>2, <3>1
    <3> QED
      BY <1>1, <3>2, <3>3
  <2>5. c \in 1..n /\ Of(c)
    BY <2>3
  <2>6. c = i
    BY <2>4, <2>5
  <2>7. data[p] = [id |-> c, ws |-> c - 1, ss |-> 0, len |-> Prefill[c], k |-> p - place(c)]
    BY <1>2, <2>3
  <2>8. p - place(i) = x
    BY <2>1 DEF p
  <2> QED
    BY <2>6, <2>7, <2>8 DEF p
<1>8. ASSUME NEW p \in Blocks, ~(p >= top)
      PROVE  \E i \in 1..n : \E x \in 0..Prefill[i] - 1 : p = place(i) + x
  <2>1. p \in Nat /\ p - Start \in Nat /\ p < top
    BY <1>1, <1>8, Sizes
  <2>2. p - Start < SizeOf(Prefill) /\ SizeOf(Prefill) \in Nat
    <3>1. (n + 1) - 1 = Len(Prefill) /\ SizeOf(Prefill) \in Nat
      BY <1>1, DocsLieApart DEF n
    <3>2. top = Start + SizeOf(Prefill)
      BY <3>1 DEF top, place, Before, SizeOf
    <3> QED
      BY <2>1, <3>1, <3>2, Sizes
  <2>3. PICK i \in 1..n : Before(Prefill, i) <= p - Start /\ p - Start < Before(Prefill, i) + Prefill[i]
    BY <1>1, <2>1, <2>2, DocExists DEF n
  <2>4. Before(Prefill, i) \in Nat /\ Prefill[i] \in Nat
    BY <1>1, DocsLieApart DEF n
  <2> DEFINE x == (p - Start) - Before(Prefill, i)
  <2>5. x \in 0..Prefill[i] - 1 /\ p = (Start + Before(Prefill, i)) + x
    BY <2>1, <2>3, <2>4, Sizes
  <2> QED
    BY <2>5 DEF place
<1>9. data \in Disks
  <2>1. ASSUME NEW p \in Blocks PROVE data[p] \in BlockSet
    <3>1. CASE p >= top
      BY <1>2, <3>1 DEF NoBlock, BlockSet
    <3>2. CASE ~(p >= top)
      <4>1. PICK i \in 1..n : \E x \in 0..Prefill[i] - 1 : p = place(i) + x
        BY <1>8, <3>2
      <4>2. PICK x \in 0..Prefill[i] - 1 : p = place(i) + x
        BY <4>1
      <4>3. i \in Nat /\ i - 1 \in Nat /\ x \in Nat /\ Prefill[i] \in Nat
        BY <1>1
      <4>4. data[p] = [id |-> i, ws |-> i - 1, ss |-> 0, len |-> Prefill[i], k |-> x]
        BY <1>7, <4>2
      <4> QED
        BY <4>3, <4>4 DEF BlockSet
    <3> QED
      BY <3>1, <3>2
  <2>2. data = [p \in Blocks |-> data[p]]
    BY <1>2
  <2> QED
    BY <2>1, <2>2 DEF Disks
<1>10. ASSUME NEW e \in dir
       PROVE  /\ e \in EntrySet /\ vol_offset(e) + e.len <= End
              /\ e.phase = 0 /\ vol_offset(e) + e.len <= top /\ IntactIn(data, e)
  <2>1. PICK i \in 1..n : e = [off |-> offset_to_vol_offset(place(i)), len |-> Prefill[i], phase |-> 0, id |-> i]
    BY <1>2
  <2>2. /\ e \in EntrySet /\ vol_offset(e) = place(i) /\ vol_offset(e) + e.len <= End
        /\ e.len = Prefill[i] /\ e.phase = 0 /\ e.id = i
    <3>1. Start \in Nat /\ Start <= Start /\ Start + SizeOf(Prefill) <= End /\ i \in Nat /\ 0 \in {0, 1}
      BY LogConstants, Sizes
    <3>2. e = [off |-> offset_to_vol_offset(Start + Before(Prefill, i)), len |-> Prefill[i], phase |-> 0, id |-> i]
      BY <2>1 DEF place
    <3> QED
      BY <1>1, <3>1, <3>2, NewEntry DEF place, n
  <2>3. ASSUME NEW x \in 0..e.len - 1
        PROVE  LET b == data[vol_offset(e) + x] IN b.id = e.id /\ b.len = e.len /\ b.k = x
    <3>1. data[place(i) + x] = [id |-> i, ws |-> i - 1, ss |-> 0, len |-> Prefill[i], k |-> x]
      BY <1>7, <2>2
    <3>2. data[place(i) + x].id = i /\ data[place(i) + x].len = Prefill[i] /\ data[place(i) + x].k = x
      BY <3>1
    <3> QED
      BY <2>2, <3>2
  <2>4. IntactIn(data, e)
    BY <2>3 DEF IntactIn
  <2> QED
    BY <1>1, <2>2, <2>4
<1>11. Ready(data, header) \/ Unwritten(header)
  <2>1. CASE n = 0
    BY <1>3, <1>5, <2>1 DEF Unwritten, l
  <2>2. CASE n # 0
    <3> DEFINE m == Prefill[n]
    <3>1. n \in 1..n /\ l = place(n)
      BY <1>1, <2>2 DEF l
    <3>2. l \in Nat /\ m \in Nat /\ m >= 1 /\ m <= AGG_SIZE /\ top = l + m
      BY <1>1, <3>1 DEF top
    <3>3. \A x \in 0..m - 1 : data[l + x] = [id |-> n, ws |-> n - 1, ss |-> 0, len |-> m, k |-> x]
      BY <1>7, <3>1
    <3> HIDE DEF m
    <3>4. ASSUME NEW p \in l..top - 1 PROVE /\ p - l \in 0..m - 1 /\ l + (p - l) = p
      BY <3>2
    <3>5. ASSUME NEW p \in l..top - 1 PROVE data[p].ss = 0 /\ data[p].len = m /\ data[p].k = p - l
      <4>1. data[l + (p - l)] = [id |-> n, ws |-> n - 1, ss |-> 0, len |-> m, k |-> p - l]
        BY <3>3, <3>4
      <4>2. data[p] = [id |-> n, ws |-> n - 1, ss |-> 0, len |-> m, k |-> p - l]
        BY <3>4, <4>1
      <4> QED
        BY <4>2
    <3>6. Tiled(data, l, top)
      <4> SUFFICES ASSUME NEW p \in l..top - 1
                   PROVE  /\ data[p].k < data[p].len /\ l <= p - data[p].k /\ (p - data[p].k) + data[p].len <= top
                          /\ \A i \in 0..data[p].len - 1 : /\ data[(p - data[p].k) + i].len = data[p].len
                                                           /\ data[(p - data[p].k) + i].k = i
        BY DEF Tiled
      <4>1. data[p].len = m /\ data[p].k = p - l /\ p - data[p].k = l
        BY <3>2, <3>5
      <4>2. ASSUME NEW i \in 0..m - 1 PROVE data[l + i].len = m /\ data[l + i].k = i
        <5>1. data[l + i] = [id |-> n, ws |-> n - 1, ss |-> 0, len |-> m, k |-> i]
          BY <3>3
        <5> QED
          BY <5>1
      <4> QED
        BY <3>2, <3>4, <4>1, <4>2
    <3>7. \A p \in l..top - 1 : data[p].ss <= 0
      BY <3>5
    <3> QED
      BY <1>5, <3>2, <3>6, <3>7, Sizes DEF Ready
  <2> QED
    BY <2>1, <2>2
<1>12. saved = NeverSynced /\ saved.header.sync_serial = 0 /\ CopyOK(saved)
  <2>1. saved = NeverSynced
    BY <1>2 DEF NeverSynced
  <2> QED
    BY <2>1, FreshOK
<1>13. Live
  <2>1. \A e \in dir \ orphans : EntryOK(e, header, batch, spent.writes, data)
    BY <1>5, <1>10 DEF EntryOK
  <2> QED
    BY <1>2, <1>5, <1>10, <1>11, <1>12, <2>1 DEF Live
<1>14. LogTypes
  <2>1. spent \in [DOMAIN LogBound -> Nat]
    BY <1>1, <1>2
  <2>2. DirOK(dir)
    BY <1>10 DEF DirOK
  <2>3. ~Recovering
    BY <1>2 DEF Recovering
  <2> QED
    BY <1>2, <1>6, <1>9, <1>12, <2>1, <2>2, <2>3 DEF LogTypes
<1> QED
  BY <1>2, <1>12, <1>13, <1>14 DEF LogInv, Recovering

\* In every state, whatever was written, synced, lost or recovered before, the
\* log on disk and the directory copies are in one of the relations of LogInv.
THEOREM LogInvariance == LogSpec => []LogInv
<1>1. LogInit => LogInv
  BY LogInitHolds
<1>2. LogInv /\ [LogNext]_logvars => LogInv'
  BY LogStepKeeps
<1> QED
  BY <1>1, <1>2, PTL DEF LogSpec

\* After any number of crashes, an entry that dir_valid accepts points at the
\* document it was made for (handle_recover_from_data, Ldone), unless a scan
\* was misled.
THEOREM RecoveryKeepsIntact == LogSpec => []EntriesIntact
<1>1. ASSUME LogInv PROVE EntriesIntact
  <2> SUFFICES ASSUME ~misled, mode = "up", NEW e \in dir \ orphans, dir_valid(header, batch, e)
               PROVE  InBuffer(e) \/ Intact(e)
    BY DEF EntriesIntact, AllIntact
  <2>1. EntryOK(e, header, batch, spent.writes, data)
    BY <1>1, UpFacts DEF Live
  <2>2. e \in EntrySet /\ header \in Headers /\ header.write_pos <= header.agg_pos
    BY <1>1, UpFacts DEF DirOK, HeaderOK
  <2>3. IntactIn(data, e) => Intact(e)
    BY DEF IntactIn, Intact
  <2>4. CASE InCopy(e, header, batch, spent.writes)
    BY <2>4 DEF InCopy, InBuffer
  <2>5. CASE e.phase # header.phase /\ (vol_offset(e) >= header.write_pos => IntactIn(data, e))
    <3>1. e.off \in Nat /\ header.agg_pos \in Nat /\ header.write_pos \in Nat
      BY <2>2, HeaderFacts, Sizes DEF EntrySet
    <3>2. e.off - 1 >= header.agg_pos - Start
      BY <2>5 DEF dir_valid
    <3>3. vol_offset(e) >= header.write_pos
      BY <2>2, <3>1, <3>2, Sizes DEF vol_offset
    <3> QED
      BY <2>3, <2>5, <3>3
  <2> QED
    BY <2>1, <2>3, <2>4, <2>5 DEF EntryOK
<1> QED
  BY <1>1, LogInvariance, PTL
===============================================================================
