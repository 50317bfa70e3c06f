---------------------------- MODULE PickleStorage ----------------------------
(***************************************************************************)
(* The files of the pickle-file cache: _PrefetchingPickleStorage           *)
(* (N6Lib/n6lib/auth_api.py) with SignedStampedFileAccessor                *)
(* (N6Lib/n6lib/file_helpers.py) and AtomicallySavedFile                   *)
(* (N6Lib/n6lib/common_helpers.py).                                        *)
(*                                                                         *)
(* A file is written under a temporary name, signed, and renamed; nobody    *)
(* writes to it afterwards, so who has opened it reads what it was then,   *)
(* even if the name has been given to another file.  One process at a time *)
(* stores files (PrefetchSync sees to that); but nothing here relies on    *)
(* nobody reading meanwhile.                                               *)
(***************************************************************************)
EXTENDS Integers

CONSTANTS
  Reader,   (* The processes that read the files.                           *)
  Stored,   (* The versions of the data that are stored.                    *)
  MaxAge,   (* _MAX_ACCEPTABLE_FILE_AGE.                                    *)
  MaxTime   (* A bound on the clock.                                        *)

ASSUME PickleAssumption ==
  /\ Stored \subseteq Nat \ {0}
  /\ {MaxAge, MaxTime} \subseteq Nat

VARIABLES
  clock,
  dir,      (* What the two paths name: a file, as the timestamp of its header,
               the version of its data (0 for none yet), and whether the real
               signature has been written; or Missing.                      *)
  store,    (* store_everything(): its next step, the version to store, the
               temporary files, and whether only the pickle has been renamed. *)
  reading,  (* reading[r]: where r is, which file it is dealing with, the
               lowest timestamp it accepts, the file it has opened, the
               version that the metadata have told it to expect; and, as a
               history variable, whether that has been disturbed.           *)
  rough     (* Whether a kill or a failed removal has left a new pickle with
               old metadata.  A history variable.                           *)

pickleVars == <<clock, dir, store, reading, rough>>

Missing == [stamp |-> -1, ver |-> 0, signed |-> FALSE]

NoStore == [step |-> "idle", ver |-> 0, meta |-> Missing, pickle |-> Missing, half |-> FALSE]

Away == [step |-> "away", what |-> "meta", least |-> 0,
         file |-> Missing, expected |-> 0, disturbed |-> FALSE]

PickleInit ==
  /\ clock = 0
  /\ dir = [meta |-> Missing, pickle |-> Missing]
  /\ store = NoStore
  /\ reading = [r \in Reader |-> Away]
  /\ rough = FALSE

Tick ==
  /\ clock < MaxTime
  /\ clock' = clock + 1
  /\ UNCHANGED <<dir, store, reading, rough>>

Is(r, step) == reading[r].step = step
StopReading(r) == reading' = [reading EXCEPT ![r] = Away]

-----------------------------------------------------------------------------
(* store_everything(). *)

Storing(step) == store.step = step

(* A temporary file with its header. *)
Temporary == [stamp |-> clock, ver |-> 0, signed |-> FALSE]

OpenMetadata(ver) ==
  /\ Storing("idle")
  /\ store' = [NoStore EXCEPT !.step = "open", !.ver = ver, !.meta = Temporary]
  /\ UNCHANGED <<clock, dir, reading, rough>>

OpenPickle ==
  /\ Storing("open")
  /\ store' = [store EXCEPT !.step = "dump", !.pickle = Temporary]
  /\ UNCHANGED <<clock, dir, reading, rough>>

(* pickle.dump(), json.dump(); from now on the metadata will be removed if
   there is an exception. *)
Dump ==
  /\ Storing("dump")
  /\ store' = [store EXCEPT !.step = "sign_pickle",
                            !.pickle.ver = store.ver, !.meta.ver = store.ver]
  /\ UNCHANGED <<clock, dir, reading, rough>>

(* The rest of the temporary file, and the real signature. *)
Sign(what, next) ==
  /\ store' = [store EXCEPT !.step = next, ![what].signed = TRUE]
  /\ UNCHANGED <<clock, dir, reading, rough>>

SignPickle == Storing("sign_pickle") /\ Sign("pickle", "rename_pickle")

(* A variant of the next one: the header of the metadata is written now. *)
SignMetadataStamped ==
  /\ Storing("sign_meta")
  /\ store' = [store EXCEPT !.step = "rename_meta",
                            !.meta.signed = TRUE, !.meta.stamp = clock]
  /\ UNCHANGED <<clock, dir, reading, rough>>

SignMetadata == Storing("sign_meta") /\ Sign("meta", "rename_meta")

(* AtomicallySavedFile.__exit__(), of the pickle... *)
RenamePickle ==
  /\ Storing("rename_pickle")
  /\ dir' = [dir EXCEPT !.pickle = store.pickle]
  /\ store' = [store EXCEPT !.step = "sign_meta", !.half = TRUE]
  /\ reading' = [r \in Reader |-> [reading[r] EXCEPT !.disturbed = ~Is(r, "away")]]
  /\ UNCHANGED <<clock, rough>>

(* ...and of the metadata. *)
RenameMetadata ==
  /\ Storing("rename_meta")
  /\ dir' = [dir EXCEPT !.meta = store.meta]
  /\ store' = [store EXCEPT !.step = "leave", !.half = FALSE]
  /\ rough' = FALSE
  /\ UNCHANGED <<clock, reading>>

LeaveStore ==
  /\ Storing("leave")
  /\ store' = NoStore
  /\ UNCHANGED <<clock, dir, reading, rough>>

-----------------------------------------------------------------------------
(* Troubles in store_everything(). *)

(* A variant of the next one: the removal is prepared for the commit of the
   metadata, but not for that of the pickle. *)
FailStoringLate ==
  /\ ~Storing("idle") /\ ~Storing("remove")
  /\ store' = IF store.step \in {"rename_meta", "leave"}
              THEN [store EXCEPT !.step = "remove"] ELSE NoStore
  /\ UNCHANGED <<clock, dir, reading, rough>>

(* An exception. *)
FailStoring ==
  /\ ~Storing("idle") /\ ~Storing("remove")
  /\ store' = IF store.step \in {"open", "dump"}
              THEN NoStore ELSE [store EXCEPT !.step = "remove"]
  /\ UNCHANGED <<clock, dir, reading, rough>>

(* _removing_metadata_file_on_exception(); the removal itself may fail. *)
RemoveMetadata ==
  /\ Storing("remove")
  /\ \/ dir' = [dir EXCEPT !.meta = Missing] /\ rough' = FALSE
     \/ UNCHANGED dir /\ rough' = (rough \/ store.half)
  /\ store' = NoStore
  /\ UNCHANGED <<clock, reading>>

KillStoring ==
  /\ ~Storing("idle")
  /\ store' = NoStore
  /\ rough' = (rough \/ store.half)
  /\ UNCHANGED <<clock, dir, reading>>

-----------------------------------------------------------------------------
(* retrieve_metadata_or_none(), retrieve_root_node(). *)

RetrieveMetadata(r) ==
  /\ Is(r, "away")
  /\ reading' = [reading EXCEPT ![r].step = "open", ![r].least = clock - MaxAge]
  /\ UNCHANGED <<clock, dir, store, rough>>

(* What the process has in memory may be good enough. *)
LeavePickle(r) ==
  /\ Is(r, "described")
  /\ StopReading(r)
  /\ UNCHANGED <<clock, dir, store, rough>>

RetrieveRootNode(r) ==
  /\ Is(r, "described")
  /\ reading' = [reading EXCEPT ![r].step = "open", ![r].what = "pickle",
                                ![r].least = clock - MaxAge]
  /\ UNCHANGED <<clock, dir, store, rough>>

(* If there is no file, this is None, or an error. *)
OpenFile(r) ==
  /\ Is(r, "open")
  /\ LET what == reading[r].what
     IN  \/ dir[what] = Missing /\ StopReading(r)
         \/ /\ dir[what] # Missing
            /\ reading' = [reading EXCEPT
                 ![r].step = "read", ![r].file = dir[what],
                 ![r].disturbed = IF what = "meta" THEN rough \/ store.half ELSE @]
  /\ UNCHANGED <<clock, dir, store, rough>>

Accepted(r) == reading[r].file.signed /\ reading[r].file.stamp >= reading[r].least

(* A wrong signature, a file that is too old, a root node that is not the
   expected one: None, or an error. *)
ReadFile(r) ==
  /\ Is(r, "read")
  /\ \/ /\ Accepted(r) /\ reading[r].what = "meta"
        /\ reading' = [reading EXCEPT ![r].step = "described", ![r].file = Missing,
                                      ![r].expected = reading[r].file.ver]
     \/ (~Accepted(r) \/ reading[r].what = "pickle") /\ StopReading(r)
  /\ UNCHANGED <<clock, dir, store, rough>>

PickleNext ==
  \/ Tick
  \/ \E ver \in Stored : OpenMetadata(ver)
  \/ OpenPickle \/ Dump \/ SignPickle \/ RenamePickle \/ SignMetadata \/ RenameMetadata
  \/ LeaveStore \/ FailStoring \/ RemoveMetadata \/ KillStoring
  \/ \E r \in Reader : \/ RetrieveMetadata(r) \/ LeavePickle(r) \/ RetrieveRootNode(r)
                       \/ OpenFile(r) \/ ReadFile(r)

PickleSpec == PickleInit /\ [][PickleNext]_pickleVars

-----------------------------------------------------------------------------
(* What somebody who asks now is shown. *)
Shown(what) == IF dir[what].stamp >= clock - MaxAge THEN dir[what].ver ELSE 0

Promised == INSTANCE PickleFiles WITH Version <- Stored,
  meta <- Shown("meta"), pickle <- Shown("pickle")

(* "We prefer to completely remove the metadata file -- to avoid a data version
   mismatch": an exception leaves none, at whatever step it comes. *)
NoMismatch ==
  (Storing("idle") /\ ~rough /\ dir.meta # Missing) => dir.meta.ver = dir.pickle.ver

(* A file that can be opened is complete and signed.  And if who has got the
   metadata gets another root node than they tell it to expect ("a futile
   execution of the whole unpickling procedure"), the pickle has been replaced
   meanwhile, or before. *)
ReadAsStored ==
  \A r \in Reader : Is(r, "read") =>
    LET file == reading[r].file
    IN  /\ file.signed /\ file.ver \in Stored
        /\ (reading[r].what = "pickle" /\ file.ver # reading[r].expected)
             => reading[r].disturbed

RetrievedAsStored == NoMismatch /\ ReadAsStored

(* The files are changed at once, in the order that the prefetching relies on,
   although they are stored step by step and any step may be the last one. *)
StoredAtOnce == Promised!FilesSpec
=============================================================================
