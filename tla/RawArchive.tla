------------------------------ MODULE RawArchive ------------------------------
(***************************************************************************)
(* The archiver of raw data (N6DataPipeline/n6datapipeline/archive_raw.py: *)
(* DBarchiver with JsonStream, FileGridfs and BlackListCompacter), as far  *)
(* as one collection of its MongoDB is concerned, that is one source       *)
(* channel.                                                                *)
(*                                                                         *)
(* A blacklist is not stored as it is, but as a patch to what the patches  *)
(* since the last initial one give.  A message comes again if the archiver *)
(* ends before acknowledging it; what is to be inserted is inserted again  *)
(* when the connection to MongoDB breaks.                                  *)
(***************************************************************************)
EXTENDS Integers, Sequences, FiniteSetsExt, SequencesExt

CONSTANTS
  Content,     (* What raw data may contain.                                *)
  NoLines,     (* The empty file.                                           *)
  Period,      (* BlackListCompacter.period.                                *)
  MaxRaw,      (* How many messages there are.                              *)
  MaxLate,     (* How many of them have not been created after all those
                  that were archived before them.                           *)
  MaxMishaps   (* How many kills, exceptions and unanswered insertions.     *)

ASSUME ArchiveAssumption ==
  /\ NoLines \in Content
  /\ {Period, MaxRaw, MaxLate, MaxMishaps} \subseteq Nat

VARIABLES
  rawType,  (* "stream", "file" or "blacklist"; it never changes.           *)
  docs,     (* The documents of the collection, as they were inserted.      *)
  raw,      (* The message being processed, or the last one: its number, its
               content, when it was created (received), and the step of
               input_callback() that is next.                               *)
  draft,    (* The document to be inserted.                                 *)
  archived, (* The messages that have been acknowledged, as [n, file].  A
               history variable, and so is                                  *)
  late,     (* the number of the late messages so far.                      *)
  mishaps

archiveVars == <<rawType, docs, raw, draft, archived, late, mishaps>>

ArchiveInit ==
  /\ rawType \in {"stream", "file", "blacklist"}
  /\ docs = <<>>
  /\ raw = [step |-> "idle", n |-> 0, file |-> NoLines, received |-> 0]
  /\ draft = <<>>
  /\ archived = {}
  /\ late = 0 /\ mishaps = 0

-----------------------------------------------------------------------------
(* The Unix tools. *)

(* What patch(1) makes of a file: it rejects a patch that has been applied
   already, and any patch to an empty file, but for one from the empty file.
   What else becomes of a file to which the patch does not fit, is nothing
   that has been archived. *)
Patched(file, patch) ==
  LET rejected == patch.from # NoLines /\ file \in {patch.to, NoLines}
      garbled == <<file, patch.from, patch.to>>
  IN  CASE patch.from = patch.to -> file
        [] patch.from # patch.to /\ file = patch.from -> patch.to
        [] OTHER -> IF rejected THEN file ELSE garbled

(* generate_orig_file(): the patches one after another. *)
Recovered(indices) ==
  FoldLeft(LAMBDA file, i : Patched(file, docs[i]), NoLines, indices)

-----------------------------------------------------------------------------
(* The collection. *)

Initial == {i \in DOMAIN docs : docs[i].marker = 0}

StartOfPeriod == Max({docs[i].received : i \in Initial})

(* Documents of the same time come in one order or the other. *)
InTime(indices, order) ==
  SetToSortSeq(indices, LAMBDA i, j : \/ docs[i].received < docs[j].received
                                      \/ /\ docs[i].received = docs[j].received
                                         /\ order * i < order * j)

(* A variant of the next one. *)
PatchesAfterStart(order) ==
  InTime({i \in DOMAIN docs : docs[i].received > StartOfPeriod}, order)

(* get_patches(). *)
Patches(order) ==
  InTime({i \in DOMAIN docs : docs[i].received >= StartOfPeriod}, order)

PeriodGoesOn == Initial # {} /\ Len(Patches(1)) <= Period

(* What start() and save_diff_in_db() make of a blacklist. *)
Diff(order) ==
  LET patches == Patches(order)
  IN  [n |-> raw.n, received |-> raw.received, to |-> raw.file]
        @@ IF PeriodGoesOn
           THEN [marker |-> Len(patches), prev |-> Last(patches), from |-> Recovered(patches)]
           ELSE [marker |-> 0, prev |-> 0, from |-> NoLines]

-----------------------------------------------------------------------------
(* DBarchiver.input_callback(). *)

At(step) == raw.step = step
GoesOn(step) == raw' = [raw EXCEPT !.step = step]

(* Times are even, so that a late message may be of the same time as an
   earlier one or between two of them. *)
Consume(file, received) ==
  /\ At("idle") /\ raw.n < MaxRaw
  /\ \/ received = 2 * (raw.n + 1) /\ UNCHANGED late
     \/ received \in 1 .. 2 * raw.n /\ late < MaxLate /\ late' = late + 1
  /\ raw' = [step |-> "prepare", n |-> raw.n + 1, file |-> file, received |-> received]
  /\ UNCHANGED <<rawType, docs, draft, archived, mishaps>>

Prepare ==
  /\ At("prepare")
  /\ IF rawType = "blacklist"
     THEN \E order \in {-1, 1} : draft' = Diff(order)
     ELSE draft' = [n |-> raw.n, received |-> raw.received, to |-> raw.file]
  /\ GoesOn("insert")
  /\ UNCHANGED <<rawType, docs, archived, late, mishaps>>

Insert ==
  /\ At("insert")
  /\ docs' = Append(docs, draft)
  /\ GoesOn("acknowledge")
  /\ UNCHANGED <<rawType, draft, archived, late, mishaps>>

AcknowledgeRaw ==
  /\ At("acknowledge")
  /\ archived' = archived \cup {[n |-> raw.n, file |-> raw.file]}
  /\ GoesOn("idle")
  /\ UNCHANGED <<rawType, docs, draft, late, mishaps>>

-----------------------------------------------------------------------------
Mishap == mishaps < MaxMishaps /\ mishaps' = mishaps + 1

(* AutoReconnect after the document has been inserted: it is inserted again;
   but one of a stream has already been given its id, so that this fails, and
   the message is rejected. *)
InsertUnanswered ==
  /\ Mishap
  /\ At("insert")
  /\ docs' = Append(docs, draft)
  /\ GoesOn(IF rawType = "stream" THEN "idle" ELSE "insert")
  /\ UNCHANGED <<rawType, draft, archived, late>>

(* An exception on the way: the message is rejected. *)
RejectRaw ==
  /\ Mishap
  /\ raw.step \in {"prepare", "insert"}
  /\ GoesOn("idle")
  /\ UNCHANGED <<rawType, docs, draft, archived, late>>

(* The archiver is killed, disconnected from the broker, or exits: the
   message comes again. *)
Redeliver ==
  /\ Mishap
  /\ raw.step \in {"prepare", "insert", "acknowledge"}
  /\ GoesOn("prepare")
  /\ UNCHANGED <<rawType, docs, draft, archived, late>>

ArchiveNext ==
  \/ \E file \in Content, received \in 1 .. 2 * MaxRaw : Consume(file, received)
  \/ Prepare \/ Insert \/ AcknowledgeRaw
  \/ InsertUnanswered \/ RejectRaw \/ Redeliver

ArchiveSpec == ArchiveInit /\ [][ArchiveNext]_archiveVars

-----------------------------------------------------------------------------
(* The content of a document: of a blacklist, what the patches of its period
   give, up to this one. *)
ContentOf(i) ==
  IF rawType # "blacklist" THEN docs[i].to
  ELSE LET start == Max({docs[j].received : j \in {k \in Initial : k <= i}})
       IN  Recovered(InTime({j \in 1 .. i : docs[j].received >= start}, 1))

(* Patches to the empty file that have been inserted twice are applied twice. *)
FromNothing == {i \in DOMAIN docs : docs[i].from = NoLines /\ docs[i].to # NoLines}
Doubled == {i \in FromNothing : \E j \in FromNothing : i # j /\ docs[i].n = docs[j].n}

(* Documents of the same time are of one message, and change the file alike:
   in whatever order they come, it makes no difference. *)
OrderIsClear ==
  \A i, j \in DOMAIN docs : docs[i].received = docs[j].received
    => docs[i].n = docs[j].n /\ (i \in Doubled <=> j \in Doubled)

(* What has been acknowledged is in the archive and can be got out of it; of
   blacklists, if they were archived in the order of their times. *)
EachIsThere ==
  (rawType = "blacklist" => late = 0 /\ OrderIsClear)
    => \A m \in archived : \E i \in DOMAIN docs : docs[i].n = m.n /\ ContentOf(i) = m.file

(* Then each patch belongs to the document that its prev_id names... *)
EachHasItsPrevious ==
  (rawType = "blacklist" /\ late = 0 /\ OrderIsClear)
    => \A i \in DOMAIN docs :
         docs[i].prev \notin {0} \cup Doubled => docs[docs[i].prev].to = docs[i].from

IsLatest(i) == \A j \in DOMAIN docs : docs[j].n # docs[i].n => docs[j].received < docs[i].received

(* ...and even if they were not: what the archiver is going to make the next
   patch from is the blacklist it has archived last, if that is the latest
   one.  So a late message does no harm to those after the next one. *)
LatestIsRecovered ==
  (rawType = "blacklist" /\ docs # <<>> /\ OrderIsClear /\ IsLatest(Len(docs)))
    => Len(docs) \in Doubled \/ \A order \in {-1, 1} : Recovered(Patches(order)) = Last(docs).to

(* "The differences recovers file ORIGINAL": whatever is killed, inserted
   twice, or rejected. *)
ArchiveRecovers == EachIsThere /\ EachHasItsPrevious /\ LatestIsRecovered
=============================================================================
