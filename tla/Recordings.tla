----------------------------- MODULE Recordings -----------------------------
(***************************************************************************)
(* The recordings of calls: onRecordingSaved of                            *)
(* routing/call-engine.service.ts, remove and purgeExpired of              *)
(* routing/recordings.service.ts.                                          *)
(*                                                                         *)
(* A recording is a file in the storage and a link in the row of its call. *)
(* The two are written one after the other, by servers that may stop in    *)
(* between and a storage that may refuse.  The carrier reports each        *)
(* recording once here.                                                    *)
(***************************************************************************)
EXTENDS Integers, FiniteSets

CONSTANTS
  Tape,        \* the recordings of an account with a retention
  Worker,      \* servers: each handles one request, or purges
  Batch,       \* BATCH
  MaxFailures  \* bound on stops of a server and errors of the storage

ASSUME RecordingsAssumption == Batch \in Nat \ {0} /\ MaxFailures \in Nat

VARIABLES
  files,     \* what the storage holds
  linked,    \* rows with a recordingUrl
  deleted,   \* rows with a recordingDeletedAt
  arrival,   \* what became of the carrier's event: "due", "stored", "handled"
  expired,   \* recordings older than the account's retention
  purging,   \* lock:recordings:purge is set
  work,      \* what each server does
  failures

recordingsVars == <<files, linked, deleted, arrival, expired, purging, work, failures>>

\* `of` are the rows read, `todo` those whose files are still to be removed, `purge`
\* tells a purge from a single deletion.
Free == [at |-> "free", of |-> {}, todo |-> {}, purge |-> FALSE]

RecordingsInit ==
  /\ files = {} /\ linked = {} /\ deleted = {} /\ expired = {}
  /\ arrival = [t \in Tape |-> "due"]
  /\ purging = FALSE
  /\ work = [w \in Worker |-> Free]
  /\ failures = 0

Turns(w, r) == work' = [work EXCEPT ![w] = r]
Fails == failures < MaxFailures /\ failures' = failures + 1

-----------------------------------------------------------------------------
(* onRecordingSaved: the file is put ... *)
Store(t) ==
  /\ arrival[t] = "due"
  /\ files' = files \cup {t}
  /\ arrival' = [arrival EXCEPT ![t] = "stored"]
  /\ UNCHANGED <<linked, deleted, expired, purging, work, failures>>

\* ... and then linked.
LinkFile(t) ==
  /\ arrival[t] = "stored"
  /\ linked' = linked \cup {t}
  /\ deleted' = deleted \ {t}
  /\ arrival' = [arrival EXCEPT ![t] = "handled"]
  /\ UNCHANGED <<files, expired, purging, work, failures>>

\* Nothing could be stored, or the server stops before the link is written.
NotSaved(t) ==
  /\ arrival[t] \in {"due", "stored"}
  /\ Fails
  /\ arrival' = [arrival EXCEPT ![t] = "handled"]
  /\ UNCHANGED <<files, linked, deleted, expired, purging, work>>

\* Days pass; a recording arrives long before its retention is over.
Expire(t) ==
  /\ arrival[t] = "handled" /\ t \notin expired
  /\ expired' = expired \cup {t}
  /\ UNCHANGED <<files, linked, deleted, arrival, purging, work, failures>>

-----------------------------------------------------------------------------
(* remove: on request, for a call that has a link. *)
Remove(w, t) ==
  /\ work[w] = Free
  /\ t \in linked
  /\ Turns(w, [at |-> "files", of |-> {t}, todo |-> {t}, purge |-> FALSE])
  /\ UNCHANGED <<files, linked, deleted, arrival, expired, purging, failures>>

\* purgeExpired, every hour on every server; one takes the lock ...
Purge(w) ==
  /\ work[w] = Free
  /\ ~purging
  /\ purging' = TRUE
  /\ Turns(w, [Free EXCEPT !.at = "find", !.purge = TRUE])
  /\ UNCHANGED <<files, linked, deleted, arrival, expired, failures>>

\* ... and goes through the old recordings, a batch at a time.
Find(w) ==
  /\ work[w].at = "find"
  /\ \E old \in SUBSET (expired \cap linked) :
       /\ \/ Cardinality(old) = Batch
          \/ old = expired \cap linked /\ Cardinality(old) < Batch
       /\ Turns(w, [work[w] EXCEPT !.at = IF old = {} THEN "unlock" ELSE "files",
                                   !.of = old, !.todo = old])
  /\ UNCHANGED <<files, linked, deleted, arrival, expired, purging, failures>>

\* storage.remove; a file that is not there is no error.
RemoveFile(w, t) ==
  /\ work[w].at = "files"
  /\ t \in work[w].todo
  /\ files' = files \ {t}
  /\ Turns(w, [work[w] EXCEPT !.todo = @ \ {t}])
  /\ UNCHANGED <<linked, deleted, arrival, expired, purging, failures>>

\* A purge goes on after a full batch and gives the lock back after another.
After(w) ==
  IF ~work[w].purge THEN Free
  ELSE [Free EXCEPT !.purge = TRUE,
                    !.at = IF Cardinality(work[w].of) = Batch THEN "find" ELSE "unlock"]

\* (mutant) the rows may be updated before the files are removed
FilesMayStay(w) == TRUE

\* The files come first: what is left half-done is found again by the next purge.
FilesGone(w) == work[w].todo = {}

Clear(w) ==
  /\ work[w].at = "files"
  /\ FilesGone(w)
  /\ linked' = linked \ work[w].of
  /\ deleted' = deleted \cup work[w].of
  /\ Turns(w, After(w))
  /\ UNCHANGED <<files, arrival, expired, purging, failures>>

\* The storage refuses: the request fails; a purge still gives the lock back.
StorageFails(w) ==
  /\ work[w].at = "files"
  /\ work[w].todo # {}
  /\ Fails
  /\ Turns(w, IF work[w].purge THEN [Free EXCEPT !.at = "unlock", !.purge = TRUE] ELSE Free)
  /\ UNCHANGED <<files, linked, deleted, arrival, expired, purging>>

\* del, of whoever's lock.
Unlock(w) ==
  /\ work[w].at = "unlock"
  /\ purging' = FALSE
  /\ Turns(w, Free)
  /\ UNCHANGED <<files, linked, deleted, arrival, expired, failures>>

\* A server stops; its lock stays until it expires.
StopServer(w) ==
  /\ work[w] # Free
  /\ Fails
  /\ Turns(w, Free)
  /\ UNCHANGED <<files, linked, deleted, arrival, expired, purging>>

\* (mutant) the lock is set without EX
NoExpiry == FALSE /\ UNCHANGED recordingsVars

\* The 30 minutes are over, also when a purge takes longer.
PurgeLockExpires ==
  /\ purging
  /\ purging' = FALSE
  /\ UNCHANGED <<files, linked, deleted, arrival, expired, work, failures>>

WorkerStep(w) ==
  \/ \E t \in Tape : RemoveFile(w, t)
  \/ Find(w) \/ Clear(w) \/ Unlock(w)

RecordingsNext ==
  \/ \E t \in Tape : Store(t) \/ LinkFile(t) \/ NotSaved(t) \/ Expire(t)
  \/ \E w \in Worker :
       \/ \E t \in Tape : Remove(w, t)
       \/ Purge(w) \/ WorkerStep(w) \/ StorageFails(w) \/ StopServer(w)
  \/ PurgeLockExpires

RecordingsSpec == RecordingsInit /\ [][RecordingsNext]_recordingsVars

-----------------------------------------------------------------------------
(* A call whose recording was deleted ("for good (e.g. a privacy request)", *)
(* calls/recordings.controller.ts:70) has neither a file nor a link,        *)
(* however requests, purges and failures interleave.                        *)
DeletedIsGone == deleted \cap (files \cup linked) = {}

(* A recording that is past its account's retention is deleted in the end,  *)
(* also when servers stop with the lock or the storage refuses for a while. *)
RetentionIsKept == \A t \in Tape : t \in expired \cap linked ~> t \notin files \cup linked
=============================================================================
