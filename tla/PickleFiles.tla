----------------------------- MODULE PickleFiles -----------------------------
(***************************************************************************)
(* What the pickle-file cache is to those who use it (N6Lib/n6lib/         *)
(* auth_api.py: _PrefetchingPickleStorage): two files that change at once, *)
(* the pickle first and then its metadata, and may become unusable.        *)
(***************************************************************************)
CONSTANT Version  (* Versions of the data; 0 is none of them. *)

VARIABLES
  meta,    (* The version named by the metadata file, 0 if it is unusable.  *)
  pickle   (* The version in the pickle file, 0 if it is unusable.          *)

files == <<meta, pickle>>

FilesInit == meta = 0 /\ pickle = 0

(* store_everything(). *)

WritePickle(ver) == pickle' = ver /\ UNCHANGED meta

(* It describes the pickle that is there. *)
WriteMetadata == meta' = pickle /\ UNCHANGED pickle

(* If one of these has failed. *)
RemoveMetadata == meta' = 0 /\ UNCHANGED pickle

(* Both files get older than _MAX_ACCEPTABLE_FILE_AGE, the metadata first. *)
GetTooOld == meta' = 0 /\ pickle' \in {0, pickle}

FilesNext ==
  \/ \E ver \in Version : WritePickle(ver)
  \/ WriteMetadata \/ RemoveMetadata \/ GetTooOld

FilesSpec == FilesInit /\ [][FilesNext]_files

=============================================================================
