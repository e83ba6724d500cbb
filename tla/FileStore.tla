------------------------------ MODULE FileStore ------------------------------
(***************************************************************************)
(* Encrypted attachments: the ciphertext is a file on disk, its metadata a *)
(* row of the files table, and no transaction spans the two.  Uploads,     *)
(* downloads, expiry, account deletion, the orphan sweep and a crash all   *)
(* meet on the same ids (apps/server/server.js, /api/upload and /api/file; *)
(* apps/server/store.js).                                                  *)
(***************************************************************************)
EXTENDS Integers, FiniteSetsExt

CONSTANTS
  Ids,           \* file ids: each names one upload (crypto.randomBytes)
  Owners,        \* account handles
  Readers,       \* downloads that may be in flight at once (a bound)
  Size,          \* Size[i]: ciphertext bytes of upload i
  Quota,         \* CFG.maxAccountBytes
  MinAge,        \* reconcileOrphanFiles' minAgeMs, in ticks
  UploadLimit,   \* ticks an upload may sit still, from its last byte to its end
  LostCommits    \* uploads whose COMMIT may succeed and its answer be lost

ASSUME FileStoreAssumption ==
  /\ Size \in [Ids -> Nat \ {0}]
  /\ Quota \in Nat
  /\ MinAge \in Nat /\ UploadLimit \in Nat
  /\ UploadLimit <= MinAge      \* requestTimeout is 30 minutes, minAgeMs an hour
  /\ LostCommits \subseteq Ids

Idle == [state |-> "idle"]
None == [state |-> "none"]

VARIABLES
  upload,     \* upload[i]: where the POST /api/upload handler of i is
  tx,         \* tx[i]: the database's side of i's saveFileMetaChecked
  total,      \* total[i]: the SUM that transaction has read
  owner,      \* owner[i]: its username, and the row's owner column
  rows,       \* ids in the files table
  due,        \* due[i]: has expires_at, or the mailbox TTL, passed?
  disk,       \* ids with a file under filesDir
  age,        \* age[i]: ticks since the file was last written
  unlinking,  \* deleteFilesWhere: rows deleted, unlinkQuiet still to come
  account,    \* account[u]: deleteAccount's progress
  sweep,      \* reconcileOrphanFiles in progress
  reading     \* reading[d]: a download between getFile and the stream's open

vars == <<upload, tx, total, owner, rows, due, disk, age, unlinking, account, sweep, reading>>

InHandler == {"streaming", "saving", "cleaning"}
SweepStates ==
  {Idle} \cup [state : {"listed", "sweeping"}, names : SUBSET Ids]

Init ==
  /\ upload = [i \in Ids |-> "new"]
  /\ tx = [i \in Ids |-> "none"]
  /\ total = [i \in Ids |-> 0]
  /\ owner \in [Ids -> Owners]
  /\ rows = {}
  /\ due = [i \in Ids |-> "no"]
  /\ disk = {}
  /\ age = [i \in Ids |-> 0]
  /\ unlinking = {}
  /\ account = [u \in Owners |-> "alive"]
  /\ sweep = Idle
  /\ reading = [d \in Readers |-> None]

OwnedBytes(u) == MapThenSumSet(LAMBDA i : Size[i], {i \in rows : owner[i] = u})

-----------------------------------------------------------------------------
(* POST /api/upload *)

\* A session of a live account, the cheap quota check, then the file is created.
UploadStarts(i) ==
  /\ upload[i] = "new"
  /\ account[owner[i]] # "gone"
  /\ OwnedBytes(owner[i]) < Quota
  /\ upload' = [upload EXCEPT ![i] = "streaming"]
  /\ disk' = disk \cup {i}
  /\ age' = [age EXCEPT ![i] = 0]
  /\ UNCHANGED <<tx, total, owner, rows, due, unlinking, account, sweep, reading>>

\* The last byte is written; the handler goes on to saveFileMetaChecked.
StreamEnds(i) ==
  /\ upload[i] = "streaming"
  /\ upload' = [upload EXCEPT ![i] = "saving"]
  /\ age' = [age EXCEPT ![i] = 0]
  /\ UNCHANGED <<tx, total, owner, rows, due, disk, unlinking, account, sweep, reading>>

\* Too large, aborted, timed out or empty: the partial file is unlinked.
StreamFails(i) ==
  /\ upload[i] = "streaming"
  /\ upload' = [upload EXCEPT ![i] = "done"]
  /\ disk' = disk \ {i}
  /\ UNCHANGED <<tx, total, owner, rows, due, age, unlinking, account, sweep, reading>>

\* saveFileMetaChecked: a transaction with an await after each statement.  The
\* advisory lock of the owner is the transaction's, from its grant to its end.
LockIgnored(i) == TRUE
LockFree(i) == \A j \in Ids : tx[j] # "none" => owner[j] # owner[i]

TakeQuotaLock(i) ==
  /\ upload[i] = "saving" /\ tx[i] = "none"
  /\ LockFree(i)
  /\ tx' = [tx EXCEPT ![i] = "locked"]
  /\ UNCHANGED <<upload, total, owner, rows, due, disk, age, unlinking, account, sweep, reading>>

\* SELECT SUM(size): the rows committed by now.
SumOwned(i) ==
  /\ upload[i] = "saving" /\ tx[i] = "locked"
  /\ tx' = [tx EXCEPT ![i] = "summed"]
  /\ total' = [total EXCEPT ![i] = OwnedBytes(owner[i])]
  /\ UNCHANGED <<upload, owner, rows, due, disk, age, unlinking, account, sweep, reading>>

Fits(i) == total[i] + Size[i] <= Quota

TxOver(i) ==
  /\ tx' = [tx EXCEPT ![i] = "none"]
  /\ total' = [total EXCEPT ![i] = 0]

\* Over the quota: ROLLBACK, and the file is to be unlinked.
SaveRefused(i) ==
  /\ upload[i] = "saving" /\ tx[i] = "summed"
  /\ ~Fits(i)
  /\ upload' = [upload EXCEPT ![i] = "cleaning"]
  /\ TxOver(i)
  /\ UNCHANGED <<owner, rows, due, disk, age, unlinking, account, sweep, reading>>

\* The new row is nobody else's to see before the COMMIT.
InsertRow(i) ==
  /\ upload[i] = "saving" /\ tx[i] = "summed"
  /\ Fits(i)
  /\ tx' = [tx EXCEPT ![i] = "inserted"]
  /\ UNCHANGED <<upload, total, owner, rows, due, disk, age, unlinking, account, sweep, reading>>

SaveCommits(i) ==
  /\ upload[i] = "saving" /\ tx[i] = "inserted"
  /\ rows' = rows \cup {i}
  /\ upload' = [upload EXCEPT ![i] = "done"]
  /\ TxOver(i)
  /\ UNCHANGED <<owner, due, disk, age, unlinking, account, sweep, reading>>

\* A statement throws, or no connection was to be had.  The handler will unlink
\* the file; the database ends what it still holds in its own time.
SaveFails(i) ==
  /\ upload[i] = "saving"
  /\ upload' = [upload EXCEPT ![i] = "cleaning"]
  /\ UNCHANGED <<tx, total, owner, rows, due, disk, age, unlinking, account, sweep, reading>>

\* A transaction whose handler is gone is rolled back, unless its COMMIT was on
\* the way: then the row is in the table and only the answer is lost.
AbandonedTxEnds(i) ==
  /\ upload[i] # "saving" /\ tx[i] # "none"
  /\ \/ UNCHANGED rows
     \/ i \in LostCommits /\ tx[i] = "inserted" /\ rows' = rows \cup {i}
  /\ TxOver(i)
  /\ UNCHANGED <<upload, owner, due, disk, age, unlinking, account, sweep, reading>>

CleanUp(i) ==
  /\ upload[i] = "cleaning"
  /\ upload' = [upload EXCEPT ![i] = "done"]
  /\ disk' = disk \ {i}
  /\ UNCHANGED <<tx, total, owner, rows, due, age, unlinking, account, sweep, reading>>

-----------------------------------------------------------------------------
(* Deleting rows, and the files after them *)

\* deleteFilesWhere: one DELETE ... RETURNING id, then the unlinks.
RowsAfterSelect(R) == rows
RowsAfterDelete(R) == rows \ R

DeleteRows(R) ==
  /\ rows' = RowsAfterDelete(R)
  /\ unlinking' = unlinking \cup (rows \cap R)

UnlinkQuiet(i) ==
  /\ i \in unlinking
  /\ unlinking' = unlinking \ {i}
  /\ disk' = disk \ {i}
  /\ UNCHANGED <<upload, tx, total, owner, rows, due, age, account, sweep, reading>>

\* expires_at or created_at + mailboxTtlMs passes.
Ripens(i) ==
  /\ i \in rows /\ due[i] # "old"
  /\ due' \in {[due EXCEPT ![i] = d] : d \in {"expired", "old"}}
  /\ UNCHANGED <<upload, tx, total, owner, rows, disk, age, unlinking, account, sweep, reading>>

\* pruneExpiredFiles every 30 s and hourly; store.prune takes the old ones too.
RipeExpiredOnly(why) == {i \in rows : due[i] = why /\ why = "expired"}
Ripe(why) == {i \in rows : due[i] = why}

PruneFiles ==
  /\ \E why \in {"expired", "old"} : Ripe(why) # {} /\ DeleteRows(Ripe(why))
  /\ UNCHANGED <<upload, tx, total, owner, due, disk, age, account, sweep, reading>>

\* store.deleteAccount: first the files, then sessions and the account itself.
WipeFiles(u) ==
  /\ account[u] = "alive"
  /\ account' = [account EXCEPT ![u] = "wiping"]
  /\ DeleteRows({i \in rows : owner[i] = u})
  /\ UNCHANGED <<upload, tx, total, owner, due, disk, age, sweep, reading>>

WipeAccount(u) ==
  /\ account[u] = "wiping"
  /\ account' = [account EXCEPT ![u] = "gone"]
  /\ UNCHANGED <<upload, tx, total, owner, rows, due, disk, age, unlinking, sweep, reading>>

-----------------------------------------------------------------------------
(* GET /api/file *)

\* getFile: the row, or the lazy deletion of an expired one.
LookUp(d, i) ==
  /\ reading[d] = None /\ i \in rows
  /\ IF due[i] = "expired"
     THEN DeleteRows({i}) /\ UNCHANGED reading
     ELSE /\ reading' = [reading EXCEPT ![d] = [state |-> "opening", id |-> i]]
          /\ UNCHANGED <<rows, unlinking>>
  /\ UNCHANGED <<upload, tx, total, owner, due, disk, age, account, sweep>>

\* Which rows a read error removes: ENOENT drops the row, EMFILE or EIO do not.
RowsDroppedOnAnyError(i) == {i}
RowsDroppedOnError(i) == {i} \ disk

\* The stream opens, or fails (always when the file is gone).
OpenFile(d) ==
  /\ reading[d] # None
  /\ \/ reading[d].id \in disk /\ UNCHANGED <<rows, unlinking>>
     \/ DeleteRows(RowsDroppedOnError(reading[d].id))
  /\ reading' = [reading EXCEPT ![d] = None]
  /\ UNCHANGED <<upload, tx, total, owner, due, disk, age, account, sweep>>

-----------------------------------------------------------------------------
(* reconcileOrphanFiles: readdir, one query, then stat and unlink each name. *)
(* cutoff is fixed right after the query, and a file that was older than the *)
(* cutoff is not written again, so the names to unlink are known there.      *)

SweepLists ==
  /\ sweep = Idle
  /\ disk # {}
  /\ sweep' = [state |-> "listed", names |-> disk]
  /\ UNCHANGED <<upload, tx, total, owner, rows, due, disk, age, unlinking, account, reading>>

\* st.mtimeMs >= cutoff: too fresh, may be mid-upload.
OrphanOfAnyAge(i) == TRUE
OldEnough(i) == age[i] > MinAge

SweepQueries ==
  /\ sweep.state = "listed"
  /\ sweep' = [state |-> "sweeping", names |-> {i \in sweep.names \ rows : OldEnough(i)}]
  /\ UNCHANGED <<upload, tx, total, owner, rows, due, disk, age, unlinking, account, reading>>

SweepUnlinks(i) ==
  /\ sweep.state = "sweeping" /\ i \in sweep.names
  /\ sweep' = [sweep EXCEPT !.names = @ \ {i}]
  /\ disk' = disk \ {i}
  /\ UNCHANGED <<upload, tx, total, owner, rows, due, age, unlinking, account, reading>>

SweepEnds ==
  /\ sweep.state = "sweeping" /\ sweep.names = {}
  /\ sweep' = Idle
  /\ UNCHANGED <<upload, tx, total, owner, rows, due, disk, age, unlinking, account, reading>>

-----------------------------------------------------------------------------
(* Time and crashes *)

\* No upload, and no transaction of one, sits still longer than UploadLimit.
Tick ==
  /\ \A i \in Ids : upload[i] \in InHandler \/ tx[i] # "none" => age[i] < UploadLimit
  /\ age' = [i \in Ids |-> IF i \in disk /\ age[i] <= MinAge THEN age[i] + 1 ELSE age[i]]
  /\ UNCHANGED <<upload, tx, total, owner, rows, due, disk, unlinking, account, sweep, reading>>

\* Handlers, pending unlinks and the sweep die; rows, files and what the database
\* is still doing stay.
Crash ==
  /\ upload' = [i \in Ids |-> IF upload[i] \in InHandler THEN "done" ELSE upload[i]]
  /\ unlinking' = {}
  /\ account' = [u \in Owners |-> IF account[u] = "wiping" THEN "alive" ELSE account[u]]
  /\ sweep' = Idle
  /\ reading' = [d \in Readers |-> None]
  /\ UNCHANGED <<tx, total, owner, rows, due, disk, age>>

SaveNext(i) ==
  \/ TakeQuotaLock(i) \/ SumOwned(i) \/ SaveRefused(i) \/ InsertRow(i)
  \/ SaveCommits(i) \/ SaveFails(i)

UploadNext(i) ==
  \/ UploadStarts(i) \/ StreamEnds(i) \/ StreamFails(i)
  \/ SaveNext(i) \/ AbandonedTxEnds(i) \/ CleanUp(i)

SweepNext ==
  \/ SweepLists \/ SweepQueries \/ SweepEnds
  \/ \E i \in Ids : SweepUnlinks(i)

Next ==
  \/ \E i \in Ids : UploadNext(i) \/ UnlinkQuiet(i) \/ Ripens(i)
  \/ \E d \in Readers : OpenFile(d) \/ \E i \in Ids : LookUp(d, i)
  \/ \E u \in Owners : WipeFiles(u) \/ WipeAccount(u)
  \/ PruneFiles \/ SweepNext \/ Tick \/ Crash

Spec == Init /\ [][Next]_vars

\* Handlers that run go on, the timers fire, and time passes.
Fairness ==
  /\ WF_vars(Tick) /\ WF_vars(SweepNext) /\ WF_vars(PruneFiles)
  /\ \A i \in Ids :
       /\ WF_vars(StreamEnds(i) \/ StreamFails(i))
       /\ WF_vars(SaveNext(i))
       /\ WF_vars(AbandonedTxEnds(i))
       /\ WF_vars(CleanUp(i))
       /\ WF_vars(UnlinkQuiet(i))
       /\ WF_vars(Ripens(i))

FairSpec == Spec /\ Fairness

-----------------------------------------------------------------------------
(* Properties *)

Saved == {i \in Ids : upload[i] \in {"cleaning", "done"} /\ tx[i] = "none"}

\* Every variable has its type, a row belongs to an upload past its save and to
\* no open transaction, and what awaits its unlink has no row.
TypeOK ==
  /\ upload \in [Ids -> InHandler \cup {"new", "done"}]
  /\ tx \in [Ids -> {"none", "locked", "summed", "inserted"}]
  /\ \A i \in Ids : tx[i] # "none" => upload[i] \in {"saving", "cleaning", "done"}
  /\ total \in [Ids -> Nat]
  /\ owner \in [Ids -> Owners]
  /\ rows \subseteq Saved /\ disk \subseteq Ids
  /\ unlinking \subseteq Saved \ rows
  /\ due \in [Ids -> {"no", "expired", "old"}]
  /\ age \in [Ids -> 0..(MinAge + 1)]
  /\ account \in [Owners -> {"alive", "wiping", "gone"}]
  /\ sweep \in SweepStates
  /\ reading \in [Readers -> {None} \cup [state : {"opening"}, id : Ids]]

\* What the table offers is on disk: no sweep, clean-up or delayed unlink takes
\* the file of a live row.  (A lost answer to COMMIT does: see GhostRowsGo.)
RowHasFile == rows \ LostCommits \subseteq disk

\* "Concurrent uploads from one account are now ordered, so the quota holds
\* exactly" (saveFileMetaChecked).
QuotaHolds == \A u \in Owners : OwnedBytes(u) <= Quota

\* A row goes only when it is due, its owner is being deleted, or its file is
\* gone: a transient read error never costs an attachment.
KeptUntilDue ==
  [][\A i \in rows \ rows' :
       due[i] # "no" \/ account'[owner[i]] = "wiping" \/ i \notin disk]_vars

\* A file that nobody answers for is swept once crashes stop.
OrphansSwept ==
  <>[][~Crash]_vars =>
    \A i \in Ids : (i \in disk /\ i \notin rows /\ upload[i] = "done") ~> i \notin disk

\* A row left without its file by a lost COMMIT goes in the end, even if nobody
\* ever downloads it.
GhostRowsGo == \A i \in Ids : (i \in rows /\ i \notin disk) ~> i \notin rows

\* So table and disk come to agree again, whichever of the two lost the other.
TableMeetsDisk == OrphansSwept /\ GhostRowsGo

-----------------------------------------------------------------------------
(* What a comment says and the code does not do *)

\* store.js, deleteAccount: "take the account's attachments (DB rows + disk)
\* with it".
DeletionTakesFiles ==
  \A i \in rows : account[owner[i]] # "gone"
=============================================================================
