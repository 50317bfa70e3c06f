-------------------------- MODULE AggregatorStorage --------------------------
(***************************************************************************)
(* The state files of the aggregator                                       *)
(* (N6DataPipeline/n6datapipeline/aggregator.py: AggregatorDataManager,    *)
(* PayloadStorage and PayloadHandle).                                      *)
(*                                                                         *)
(* The aggregator data file keeps the handles (offset and size) of the     *)
(* payloads of the aggregated groups; the payload storage file keeps the   *)
(* payloads, appended one after another.  The former is written when the   *)
(* aggregator ends; each start drops the payloads that are not needed any  *)
(* more, and writes both files anew, one after the other.                  *)
(***************************************************************************)
EXTENDS Naturals, Sequences, SequencesExt

CONSTANTS
  SizeOf,      (* SizeOf[n]: the size of payload n.  Their number bounds the
                  model.                                                    *)
  MaxEnds      (* How many times the aggregator ends at most.               *)

ASSUME StorageAssumption ==
  /\ SizeOf \in Seq(Nat \ {0})
  /\ MaxEnds \in Nat

Payload == DOMAIN SizeOf

VARIABLES
  dataFile,     (* The aggregator data file, or NoFile.                     *)
  payloadFile,  (* The payload storage file: a sequence of blocks.          *)
  content,      (* The unpickled content of the data file.                  *)
  buffered,     (* Blocks written, but not yet handed to the system.        *)
  shrunk,       (* What has been kept so far, while both are written anew:
                   see NothingShrunk.                                       *)
  phase,        (* Where the program is.                                    *)
  saved,        (* The number of payloads saved so far.                     *)
  retrieved,    (* The latest payload wanted, and what has been loaded.     *)
  ends,         (* How many times the aggregator has ended.                 *)
  torn          (* Whether it has ever been killed between the two writes.
                   A history variable.                                      *)

storageVars == <<dataFile, payloadFile, content, buffered, shrunk, phase, saved, retrieved, ends, torn>>
storageHistory == <<ends, torn>>

(* `handles` in the order of their saving; `live` are those of the groups of
   the source data. *)
Empty == [handles |-> <<>>, live |-> {}]
NoFile == [handles |-> <<>>, live |-> {0}]

(* The new handles, the new payload storage file, and where in the old one the
   last payload copied has ended. *)
NothingShrunk == [handles |-> <<>>, blocks |-> <<>>, upto |-> 0]

Blocks(n) == [i \in 1 .. SizeOf[n] |-> [payload |-> n, block |-> i]]

Handle(n, offset) == [payload |-> n, offset |-> offset, size |-> SizeOf[n]]

StorageInit ==
  /\ dataFile = NoFile /\ payloadFile = <<>>
  /\ content = Empty /\ buffered = <<>> /\ shrunk = NothingShrunk
  /\ phase = "down" /\ saved = 0 /\ ends = 0 /\ torn = FALSE
  /\ retrieved = [wanted |-> 0, got |-> 0]

-----------------------------------------------------------------------------
(* Reading.  _read_payload_bytes() checks that there are enough bytes, and
   that the first one is that of a payload. *)

Bytes(h) == SubSeq(payloadFile, h.offset + 1, h.offset + h.size)

Sound(bytes, h) == Len(bytes) = h.size /\ bytes[1].block = 1

Readable(h) ==
  h.offset + h.size <= Len(payloadFile) /\ Sound(Bytes(h), h)

-----------------------------------------------------------------------------
(* Starting: restore_state(), then maintain_state(). *)

RestoreState ==
  /\ phase = "down"
  /\ phase' = "maintain"
  /\ IF dataFile = NoFile
       THEN content' = Empty /\ payloadFile' = <<>>
       ELSE content' = dataFile /\ UNCHANGED payloadFile
  /\ UNCHANGED <<dataFile, buffered, shrunk, saved, retrieved, storageHistory>>

(* shrink_disk_space() takes the handles in turn and copies the payloads of
   those that are still relevant.  The assertions of the code that are not here
   hold because sizes are positive. *)
Copied(h) ==
  [handles |-> Append(shrunk.handles, [h EXCEPT !.offset = Len(shrunk.blocks)]),
   blocks |-> shrunk.blocks \o Bytes(h),
   upto |-> h.offset + h.size]

ShrinkDiskSpace ==
  /\ phase = "maintain"
  /\ content.handles # <<>>
  /\ LET h == Head(content.handles)
     IN  IF h.payload \notin content.live
           THEN UNCHANGED <<shrunk, phase>>
         ELSE IF shrunk.upto <= h.offset /\ Readable(h)
           THEN shrunk' = Copied(h) /\ phase' = phase
           ELSE phase' = "corrupted" /\ UNCHANGED shrunk
  /\ content' = [content EXCEPT !.handles = Tail(@)]
  /\ UNCHANGED <<dataFile, payloadFile, buffered, saved, retrieved, storageHistory>>

(* Both files are written; the data file is in place first. *)
MaintainDataFile ==
  /\ phase = "maintain"
  /\ content.handles = <<>>
  /\ content' = [content EXCEPT !.handles = shrunk.handles]
  /\ dataFile' = content'
  /\ phase' = "halfway"
  /\ UNCHANGED <<payloadFile, buffered, shrunk, saved, retrieved, storageHistory>>

MaintainPayloadFile ==
  /\ phase = "halfway"
  /\ payloadFile' = shrunk.blocks
  /\ shrunk' = NothingShrunk
  /\ phase' = "running"
  /\ UNCHANGED <<dataFile, content, buffered, saved, retrieved, storageHistory>>

-----------------------------------------------------------------------------
(* Working. *)

FileEnd == Len(payloadFile) + Len(buffered)

(* A new group: PayloadHandle.from_payload(). *)
Follows(handles, h) ==
  handles # <<>> => Last(handles).offset + Last(handles).size <= h.offset

SavePayload ==
  /\ phase = "running"
  /\ saved < Len(SizeOf)
  /\ LET h == Handle(saved + 1, FileEnd)
     IN  IF Follows(content.handles, h)
           THEN /\ content' = [handles |-> Append(content.handles, h),
                             live |-> content.live \cup {saved + 1}]
                /\ buffered' = buffered \o Blocks(saved + 1)
                /\ phase' = phase
           ELSE phase' = "corrupted" /\ UNCHANGED <<content, buffered>>
  /\ saved' = saved + 1
  /\ UNCHANGED <<dataFile, payloadFile, shrunk, retrieved, storageHistory>>

(* The buffer of the file object is written out, if only in part. *)
WriteOut(n) ==
  /\ payloadFile' = payloadFile \o SubSeq(buffered, 1, n)
  /\ buffered' = SubSeq(buffered, n + 1, Len(buffered))

BufferIsWritten ==
  /\ phase = "running"
  /\ \E n \in 1 .. Len(buffered) : WriteOut(n)
  /\ UNCHANGED <<dataFile, content, shrunk, phase, saved, retrieved, storageHistory>>

(* A group is reported: PayloadHandle.load(), after the file object has
   written its buffer out.  A payload cut short cannot be unpickled. *)
LoadPayload ==
  /\ phase = "running"
  /\ buffered = <<>>
  /\ \E i \in DOMAIN content.handles :
       LET h == content.handles[i]
           found == payloadFile[h.offset + 1].payload
       IN  /\ h.payload \in content.live
           /\ IF Readable(h) /\ SizeOf[found] <= h.size
                THEN retrieved' = [wanted |-> h.payload, got |-> found] /\ phase' = phase
                ELSE phase' = "corrupted" /\ UNCHANGED retrieved
  /\ UNCHANGED <<dataFile, payloadFile, content, buffered, shrunk, saved, storageHistory>>

(* The group is deleted from the source data; its payload stays. *)
ForgetGroup ==
  /\ phase = "running"
  /\ \E n \in content.live : content' = [content EXCEPT !.live = @ \ {n}]
  /\ UNCHANGED <<dataFile, payloadFile, buffered, shrunk, phase, saved, retrieved, storageHistory>>

-----------------------------------------------------------------------------
(* Ending. *)

(* Blocks may be left in the buffer of the file object. *)
LeavePayloadFileOpen ==
  /\ phase = "running"
  /\ phase' = "store"
  /\ UNCHANGED <<dataFile, payloadFile, content, buffered, shrunk, saved, retrieved, storageHistory>>

(* store_state(): the payload storage file is closed, then the data file is
   written. *)
ClosePayloadFile ==
  /\ phase = "running"
  /\ WriteOut(Len(buffered))
  /\ phase' = "store"
  /\ UNCHANGED <<dataFile, content, shrunk, saved, retrieved, storageHistory>>

Ends ==
  /\ ends < MaxEnds
  /\ ends' = ends + 1
  /\ phase' = "down"
  /\ content' = Empty /\ buffered' = <<>> /\ shrunk' = NothingShrunk
  /\ torn' = (torn \/ phase = "halfway")
  /\ UNCHANGED <<saved, retrieved>>

StoreDataFile ==
  /\ phase = "store"
  /\ dataFile' = content
  /\ Ends
  /\ UNCHANGED payloadFile

(* An unexpected exception: "The aggregator state will *not* be saved!" *)
EndWithoutStoring ==
  /\ phase = "running"
  /\ payloadFile' = payloadFile \o buffered
  /\ Ends
  /\ UNCHANGED dataFile

Kill ==
  /\ phase \in {"maintain", "halfway", "running", "store"}
  /\ Ends
  /\ UNCHANGED <<dataFile, payloadFile>>

StorageNext ==
  \/ RestoreState \/ ShrinkDiskSpace \/ MaintainDataFile \/ MaintainPayloadFile
  \/ SavePayload \/ BufferIsWritten \/ LoadPayload \/ ForgetGroup
  \/ ClosePayloadFile \/ StoreDataFile \/ EndWithoutStoring \/ Kill

StorageSpec == StorageInit /\ [][StorageNext]_storageVars

-----------------------------------------------------------------------------
(* However else the aggregator ends, its next start finds files that agree
   with each other, and what it loads for a group is that group's payload.
   No block of the payload file ever comes twice. *)
FilesAgreeUnlessTorn ==
  /\ IsInjective(payloadFile)
  /\ ~torn => phase # "corrupted" /\ retrieved.got = retrieved.wanted
=============================================================================
