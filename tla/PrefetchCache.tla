---------------------------- MODULE PrefetchCache ----------------------------
(***************************************************************************)
(* Prefetching of Auth API data with the pickle-file cache                 *)
(* (N6Lib/n6lib/auth_api.py: the prefetching task of                       *)
(* AuthAPIWithPrefetching, with _PrefetchingPickleStorage), composed with  *)
(* the interprocess synchronizer of module PrefetchSync.                   *)
(*                                                                         *)
(* Data are known by their version: the id of the most recent commit of    *)
(* the Auth DB that they contain.  0 stands for the absence of data        *)
(* (LackOf).  A version's timestamp matters only through its age.          *)
(***************************************************************************)
EXTENDS PrefetchSync, Naturals

CONSTANTS
  MaxVer,       (* The number of versions of the Auth DB. Bounds the model. *)
  FilesExpire   (* Whether the cache files may get too old to be used.      *)

ASSUME CacheAssumption == MaxVer \in Nat \ {0} /\ FilesExpire \in BOOLEAN

Version == 1 .. MaxVer

VARIABLES
  dbVer,   (* The current version of the Auth DB.                           *)
  age,     (* age[v]: how outdated version v is (see Age).                  *)
  meta,    (* The version named by the metadata file, 0 if it is unusable.  *)
  pickle,  (* The version in the pickle file, 0 if it is unusable.          *)
  last,    (* last[p]: the version of the root node that p has in memory.   *)
  task,    (* task[p]: where p's prefetching attempt is and what it has got. *)
  owed     (* owed[p]: those who were waiting for the outcome of p's job when
              p released the JOB lock, and have not ended their attempts.
              A history variable.                                           *)

(* The files change as PickleFiles says. *)
Files == INSTANCE PickleFiles

files == <<meta, pickle>>
database == <<dbVer, age>>
cacheVars == <<dbVer, age, meta, pickle, last, task, owed>>
vars == <<held, pc, dbVer, age, meta, pickle, last, task, owed>>

(* Within the tolerance; within it only thanks to the discount for the
   duration of the most recent job; beyond both. *)
Age == [fresh |-> 0, discounted |-> 1, outdated |-> 2]

NoTask == [at |-> "none", db |-> 0, ver |-> 0]

CacheInit ==
  /\ Init
  /\ dbVer = 1
  /\ age = [v \in Version |-> Age.fresh]
  /\ meta = 0
  /\ pickle = 0
  /\ last = [p \in Proc |-> 0]
  /\ task = [p \in Proc |-> NoTask]
  /\ owed = [p \in Proc |-> {}]

At(p, point) == task[p].at = point

(* The attempt of p ends: nobody owes it anything any more. *)
EndTask(p) ==
  /\ task' = [task EXCEPT ![p] = NoTask]
  /\ owed' = [q \in Proc |-> owed[q] \ {p}]

(* p gives up the outcome that it may have been waiting for, and asks for
   the job. *)
GoForJob(p) ==
  /\ StartAsking(p)
  /\ task' = [task EXCEPT ![p] = [NoTask EXCEPT !.at = "load"]]
  /\ owed' = [q \in Proc |-> owed[q] \ {p}]

ReturnNode(p, ver) ==
  /\ StartLeaving(p)
  /\ last' = [last EXCEPT ![p] = ver]
  /\ EndTask(p)

-----------------------------------------------------------------------------
(* _try_to_prefetch(). *)

(* A new attempt: after the sleep of loop_iteration_hook(), or at once when
   the previous attempt returned None. *)
Begin(p) ==
  /\ StartEntering(p)
  /\ task' = [task EXCEPT ![p].at = "peek"]
  /\ UNCHANGED <<database, files, last, owed>>

PeekDatabase(p) ==
  /\ pc[p] = "inside" /\ At(p, "peek")
  /\ task' = [task EXCEPT ![p].at = "choose", ![p].db = dbVer]
  /\ UNCHANGED <<syncVars, database, files, last, owed>>

(* _initial_checks_and_adjustments(): data from the future of the database
   are ignored, and so are both versions when memory is ahead of the files. *)
Adjusted(db, pv, lv) ==
  LET pv1 == IF pv > db THEN 0 ELSE pv
      lv1 == IF lv > db THEN 0 ELSE lv
  IN  IF pv1 # 0 /\ lv1 > pv1 THEN [pickle |-> 0, last |-> 0]
                              ELSE [pickle |-> pv1, last |-> lv1]

(* _compute_sleep_if_timestamp_ok(): the discount needs usable metadata. *)
TimestampOk(ver, pv) ==
  \/ age[ver] = Age.fresh
  \/ age[ver] = Age.discounted /\ pv # 0

(* "The last returned root node is still the fresh one" or "is sufficiently
   new". *)
LastIsGood(db, pv, lv) ==
  \/ lv = db
  \/ lv # 0 /\ (lv = pv \/ pv = 0) /\ TimestampOk(lv, pv)

PickleIsGood(db, pv) ==
  \/ pv = db
  \/ pv # 0 /\ TimestampOk(pv, pv)

Choose(p) ==
  /\ pc[p] = "inside" /\ At(p, "choose")
  /\ LET db == task[p].db
         pv == Adjusted(db, meta, last[p]).pickle
         lv == Adjusted(db, meta, last[p]).last
     IN  \/ /\ LastIsGood(db, pv, lv)
            /\ ReturnNode(p, last[p])
         \/ /\ ~LastIsGood(db, pv, lv) /\ PickleIsGood(db, pv)
            /\ task' = [task EXCEPT ![p].at = "unpickle", ![p].ver = pv]
            /\ UNCHANGED <<syncVars, last, owed>>
         \/ /\ ~LastIsGood(db, pv, lv) /\ ~PickleIsGood(db, pv)
            /\ GoForJob(p)
            /\ UNCHANGED last
  /\ UNCHANGED <<database, files>>

(* retrieve_root_node() checks that the pickle has the expected version; an
   error of the storage is logged, and the job is asked for instead. *)
Unpickle(p) ==
  /\ pc[p] = "inside" /\ At(p, "unpickle")
  /\ \/ /\ pickle = task[p].ver
        /\ ReturnNode(p, pickle)
     \/ /\ pickle # task[p].ver
        /\ GoForJob(p)
        /\ UNCHANGED last
  /\ UNCHANGED <<database, files>>

-----------------------------------------------------------------------------
(* The job: load from the database, then store_everything(), which commits
   the pickle file first and the metadata file after it. *)

LoadFromOldSnapshot(p) ==
  /\ pc[p] = "job" /\ At(p, "load")
  /\ \E ver \in 1 .. dbVer :
       task' = [task EXCEPT ![p].at = "dump", ![p].ver = ver]
  /\ UNCHANGED <<syncVars, database, files, last, owed>>

LoadFresh(p) ==
  /\ pc[p] = "job" /\ At(p, "load")
  /\ task' = [task EXCEPT ![p].at = "dump", ![p].ver = dbVer]
  /\ UNCHANGED <<syncVars, database, files, last, owed>>

StorePickle(p) ==
  /\ pc[p] = "job" /\ At(p, "dump")
  /\ Files!WritePickle(task[p].ver)
  /\ task' = [task EXCEPT ![p].at = "describe"]
  /\ UNCHANGED <<syncVars, database, last, owed>>

StoreMetadata(p) ==
  /\ At(p, "describe")
  /\ FinishJob(p)
  /\ Files!WriteMetadata
  /\ task' = [task EXCEPT ![p].at = "served"]
  /\ UNCHANGED <<database, last, owed>>

(* The others are let in: those blocked on the JOB lock are now owed the
   outcome. *)
LetOthersIn(p) ==
  /\ ServeReleaseJob(p)
  /\ owed' = [owed EXCEPT ![p] = {q \in Proc \ {p} : pc[q] = "late_job"}]
  /\ UNCHANGED <<database, files, last, task>>

(* "We have served others, let us also serve ourselves." *)
ServeOurselves(p) ==
  /\ ServeReleaseOutcome(p)
  /\ last' = [last EXCEPT ![p] = task[p].ver]
  /\ task' = [task EXCEPT ![p] = NoTask]
  /\ UNCHANGED <<database, files, owed>>

-----------------------------------------------------------------------------
(* After an error, _handle_prefetching_error() either goes on with the last
   root node or exits (the process starts again with nothing in memory). *)
Forgotten(p) == [last EXCEPT ![p] = 0]

(* The synchronizer's own steps, the failures apart. *)
Synchronize(p) ==
  \/ /\ Enter(p) \/ Ask(p) \/ ServeAcquireOutcome(p) \/ Leave(p)
     /\ IF pc'[p] = "rel_outcome"   \* no job for us, or an error on entering
          THEN /\ EndTask(p)
               /\ last' \in {last} \cup IF pc[p] \in Entering THEN {Forgotten(p)} ELSE {}
          ELSE UNCHANGED <<task, owed, last>>
     /\ UNCHANGED <<database, files>>

(* An exception.  While the files are being stored it may leave the metadata
   file removed: it does if the commit of either file has failed, and the
   removal has not. *)
Break(p) ==
  /\ Raise(p)
  /\ \/ UNCHANGED files
     \/ (At(p, "dump") \/ At(p, "describe")) /\ Files!RemoveMetadata
  /\ last' \in {last, Forgotten(p)}
  /\ EndTask(p)
  /\ UNCHANGED database

CrashTask(p) ==
  /\ Crash(p)
  /\ last' = Forgotten(p)
  /\ EndTask(p)
  /\ UNCHANGED <<database, files>>

AfterCrash(p) ==
  /\ Die(p) \/ Restart(p)
  /\ UNCHANGED cacheVars

-----------------------------------------------------------------------------
(* The environment. *)

(* Another component (the admin panel, n6 scripts) commits to the Auth DB. *)
CommitToDatabase ==
  /\ dbVer < MaxVer
  /\ dbVer' = dbVer + 1
  /\ UNCHANGED <<syncVars, age, files, last, task, owed>>

(* Time passes: a version gets older, never before its predecessors. *)
GrowOld(v) ==
  /\ v <= dbVer
  /\ age[v] < Age.outdated
  /\ \A u \in 1 .. v - 1 : age[u] > age[v]
  /\ age' = [age EXCEPT ![v] = @ + 1]
  /\ UNCHANGED <<syncVars, dbVer, files, last, task, owed>>

(* The header of a file gets older than _MAX_ACCEPTABLE_FILE_AGE; that of the
   metadata file was stamped before that of the pickle file. *)
FileGetsTooOld ==
  /\ FilesExpire
  /\ files # <<0, 0>>
  /\ Files!GetTooOld
  /\ UNCHANGED <<syncVars, database, last, task, owed>>

CacheNext ==
  \/ \E p \in Proc :
       \/ Begin(p) \/ PeekDatabase(p) \/ Choose(p) \/ Unpickle(p)
       \/ LoadFresh(p) \/ StorePickle(p) \/ StoreMetadata(p)
       \/ LetOthersIn(p) \/ ServeOurselves(p)
       \/ Synchronize(p) \/ Break(p) \/ CrashTask(p) \/ AfterCrash(p)
  \/ CommitToDatabase
  \/ \E v \in Version : GrowOld(v)
  \/ FileGetsTooOld

CacheSpec == CacheInit /\ [][CacheNext]_vars

-----------------------------------------------------------------------------
(* The conditions that _initial_checks_and_adjustments() loudly warns of, and
   the three assertions after it: as long as the Auth DB only moves forward,
   the data in the files are not from the future of the database, and the
   data in memory not from the future of the files. *)
NothingUnexpected ==
  \A p \in Proc : pc[p] = "inside" /\ At(p, "choose") =>
    /\ meta <= task[p].db
    /\ last[p] <= task[p].db
    /\ meta # 0 => last[p] <= meta

(* "Avoid duplication of work": who loads data from the database does not
   repeat a job whose usable outcome is already in the files. *)
NoFutileJob ==
  \A p \in Proc : pc[p] = "job" /\ At(p, "dump") =>
    task[p].ver > meta \/ pickle # meta

(* "...let us wait until they unpickle the data being the outcome of the
   job": when the process that did the job goes on, everyone who was blocked
   on the JOB lock has taken the outcome, or turned to something else. *)
OthersServed ==
  \A p \in Proc : pc[p] = "serve_reloutcome" => owed[p] = {}

(* A job has a use, and has it for those who came while it was being done. *)
JobsAreOfUse == NoFutileJob /\ OthersServed

(* The attempts that run side by side make sense: none finds what it takes for
   impossible, none does a job in vain. *)
AttemptsMakeSense == NothingUnexpected /\ JobsAreOfUse

(* No process ever replaces its data by an older version (it may lose them by
   dying, or by exiting because of an error). *)
NeverBackInTime ==
  [][\A p \in Proc : last'[p] < last[p] =>
       last'[p] = 0 /\ (pc'[p] = "dying" \/ pc'[p] = "rel_outcome")]_vars

=============================================================================
