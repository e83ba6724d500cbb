----------------------------- MODULE Attachments -----------------------------
(***************************************************************************)
(* An attachment from the page that sends it to the pages that open it     *)
(* (apps/web/src/main.js): the chunks it is encrypted in, the upload, the  *)
(* descriptor that travels in the message, and the two clocks that delete  *)
(* it: expires_at of the gateway, and expireAt of every page.              *)
(*                                                                         *)
(* The gateway's row is what FileStore promises of one id.  One file; a    *)
(* time is a count of ticks, the same on every machine.                    *)
(***************************************************************************)
EXTENDS Naturals, Sequences, SequencesExt

CONSTANTS
  Viewers,      \* pages that get the message, the sender's among them
  FileSizes,    \* sizes of the file (a bound)
  ExpireTicks,  \* what the menu offers (EXPIRE_OPTS), 0 to keep
  ChunkLen,     \* ENC_CHUNK (4 MiB)
  HeadLen, IvLen, TagLen,   \* 5, 12 and 16 bytes
  MaxTime       \* ticks in all (a bound)

ASSUME AttachmentsAssumption ==
  /\ FileSizes \subseteq Nat /\ ExpireTicks \subseteq Nat
  /\ {ChunkLen, HeadLen, IvLen, TagLen, MaxTime} \subseteq Nat \ {0}

VARIABLES
  time,         \* Date.now()
  file,         \* what the user picked: [size, expire, enc]
  sending,      \* where sendFile awaits, and what it has made
  cipher,       \* the gateway: [here, until, bytes], until = 0 for the usual TTL
  expireAt,     \* of the descriptor in the message, 0 for none
  attached,     \* attached[p]: the message on page p: "none", "kept", "expired"
  saving,       \* saving[p]: a save of p's history is due
  saved,        \* saved[p]: the message in p's stored history
  opening,      \* opening[p]: an openAttachment of p awaits its download
  shownTo       \* shownTo[p]: the files that opened, as they came out

attachmentVars == <<time, file, sending, cipher, expireAt, attached, saving, saved, opening, shownTo>>

-----------------------------------------------------------------------------
(* The format                                                              *)

NoBytes == <<>>
Picked == [k \in 1..file.size |-> k]
FileHeader == [k \in 1..HeadLen |-> <<"head", ChunkLen>>]
Iv(n) == [k \in 1..IvLen |-> <<"iv", n, k>>]

\* AES-GCM: as long as the plaintext and a tag, and of one piece.
encrypt(iv, plain) == [k \in 1..Len(plain) + TagLen |-> <<iv, plain, k>>]
decrypts(iv, ct) == ct # NoBytes /\ ct = encrypt(iv, ct[1][2])
decrypt(ct) == ct[1][2]

Chunks == IF file.size = 0 THEN 1 ELSE (file.size + ChunkLen - 1) \div ChunkLen
encryptFileChunked ==
  FileHeader \o FlattenSeq([n \in 1..Chunks |->
             Iv(n) \o encrypt(Iv(n), SubSeq(Picked, (n - 1) * ChunkLen + 1,
                                            IF n * ChunkLen < file.size THEN n * ChunkLen ELSE file.size))])

\* The plaintexts of the chunks, unless one does not decrypt.
Broken == <<"broken">>
decryptChunkedToBlob(bytes) ==
  LET whole == IvLen + bytes[1][2] + TagLen
      offs == {off \in HeadLen..Len(bytes) - 1 : (off - HeadLen) % whole = 0}
      ct(off) == SubSeq(bytes, off + IvLen + 1, IF off + whole < Len(bytes) THEN off + whole ELSE Len(bytes))
      at(n) == HeadLen + (n - 1) * whole
  IN IF \E off \in offs : ~decrypts(SubSeq(bytes, off + 1, off + IvLen), ct(off)) THEN Broken
     ELSE FlattenSeq([n \in {k \in 1..Len(bytes) : at(k) \in offs} |-> decrypt(ct(at(n)))])

\* The format of older clients: one piece.
encryptBytes == Iv(1) \o encrypt(Iv(1), Picked)
decryptBytes(bytes) ==
  LET iv == SubSeq(bytes, 1, IvLen)
      ct == SubSeq(bytes, IvLen + 1, Len(bytes))
  IN IF decrypts(iv, ct) THEN decrypt(ct) ELSE Broken

-----------------------------------------------------------------------------
(* The sender and the gateway                                              *)

AttachmentsInit ==
  /\ time = 1
  /\ file \in [size : FileSizes, expire : ExpireTicks, enc : {"c1", ""}]
  /\ sending = [at |-> "new", since |-> 0]
  /\ cipher = [here |-> FALSE, until |-> 0, bytes |-> NoBytes]
  /\ expireAt = 0
  /\ attached = [p \in Viewers |-> "none"] /\ saved = [p \in Viewers |-> "none"]
  /\ saving = [p \in Viewers |-> FALSE] /\ opening = [p \in Viewers |-> FALSE]
  /\ shownTo = [p \in Viewers |-> {}]

Pages == <<attached, saving, saved, opening, shownTo>>
Deadline(from) == IF file.expire = 0 THEN 0 ELSE from + file.expire

sendFile ==
  /\ sending.at = "new"
  /\ sending' = [at |-> "encrypting", since |-> time]
  /\ UNCHANGED <<time, file, cipher, expireAt, Pages>>

\* POST /api/upload: expires_at counts from its start, before the bytes stream.
uploadStarts ==
  /\ sending.at = "encrypting" /\ sending' = [sending EXCEPT !.at = "uploading"]
  /\ cipher' = [here |-> FALSE, until |-> Deadline(time),
                bytes |-> IF file.enc = "c1" THEN encryptFileChunked ELSE encryptBytes]
  /\ UNCHANGED <<time, file, expireAt, Pages>>

\* The row is in; its answer may still be lost.
uploadSaved ==
  /\ sending.at = "uploading" /\ sending' = [sending EXCEPT !.at = "saved"]
  /\ cipher' = [cipher EXCEPT !.here = TRUE]
  /\ UNCHANGED <<time, file, expireAt, Pages>>

\* An exception, a refusal, or the page is gone: there is no message.
sendFails ==
  /\ sending.at \in {"encrypting", "uploading", "saved"}
  /\ sending' = [sending EXCEPT !.at = "failed"]
  /\ UNCHANGED <<time, file, cipher, expireAt, Pages>>

\* (For the mutants: the page counts from the click.)
ExpiresAtClick == Deadline(sending.since)

\* The descriptor's expireAt counts from the end of the upload.
ExpiresAt == Deadline(time)

\* uploadWithProgress resolves; the message goes out.
uploadWithProgress ==
  /\ sending.at = "saved" /\ sending' = [sending EXCEPT !.at = "sent"]
  /\ expireAt' = ExpiresAt
  /\ UNCHANGED <<time, file, cipher, Pages>>

\* getFile, pruneExpiredFiles: an expired row is gone.
Served == cipher.here /\ (cipher.until = 0 \/ cipher.until >= time)
pruneExpiredFiles ==
  /\ cipher.here /\ ~Served
  /\ cipher' = [cipher EXCEPT !.here = FALSE]
  /\ UNCHANGED <<time, file, sending, expireAt, Pages>>

\* So is one past the mailbox TTL, or of an account that is deleted.
pruned ==
  /\ cipher.here /\ cipher' = [cipher EXCEPT !.here = FALSE]
  /\ UNCHANGED <<time, file, sending, expireAt, Pages>>

passes ==
  /\ time < MaxTime /\ time' = time + 1
  /\ UNCHANGED <<file, sending, cipher, expireAt, Pages>>

-----------------------------------------------------------------------------
(* A page that has the message (Inbox)                                     *)

Sender == <<time, file, sending, cipher, expireAt>>

\* pushMessage: the sender's own page, or a delivery, however late.
gets(p) ==
  /\ sending.at = "sent" /\ attached[p] = "none"
  /\ attached' = [attached EXCEPT ![p] = "kept"]
  /\ saving' = [saving EXCEPT ![p] = TRUE]
  /\ UNCHANGED <<Sender, saved, opening, shownTo>>

sweepExpiredImages(p) ==
  /\ attached[p] = "kept" /\ expireAt # 0 /\ time > expireAt
  /\ attached' = [attached EXCEPT ![p] = "expired"]
  /\ saving' = [saving EXCEPT ![p] = TRUE]
  /\ UNCHANGED <<Sender, saved, opening, shownTo>>

saves(p) ==
  /\ saving[p] /\ saving' = [saving EXCEPT ![p] = FALSE]
  /\ saved' = [saved EXCEPT ![p] = attached[p]]
  /\ UNCHANGED <<Sender, attached, opening, shownTo>>

\* A reload: loadConvos; startApp sweeps next.
reloads(p) ==
  /\ attached' = [attached EXCEPT ![p] = saved[p]]
  /\ saving' = [saving EXCEPT ![p] = FALSE] /\ opening' = [opening EXCEPT ![p] = FALSE]
  /\ UNCHANGED <<Sender, saved, shownTo>>

\* The descriptor is read here; a sweep during the download changes nothing.
openAttachment(p) ==
  /\ attached[p] = "kept" /\ ~opening[p]
  /\ opening' = [opening EXCEPT ![p] = TRUE]
  /\ UNCHANGED <<Sender, attached, saving, saved, shownTo>>

\* A download that is cut off, and one of a row that is gone, show a toast.
downloaded(p, whole) ==
  /\ opening[p] /\ opening' = [opening EXCEPT ![p] = FALSE]
  /\ shownTo' = IF ~whole \/ ~Served THEN shownTo
                ELSE [shownTo EXCEPT ![p] = @ \cup
                       {IF file.enc = "c1" THEN decryptChunkedToBlob(cipher.bytes) ELSE decryptBytes(cipher.bytes)}]
  /\ UNCHANGED <<Sender, attached, saving, saved>>

AttachmentsNext ==
  \/ sendFile \/ uploadStarts \/ uploadSaved \/ sendFails \/ uploadWithProgress
  \/ pruneExpiredFiles \/ pruned \/ passes
  \/ \E p \in Viewers :
       \/ gets(p) \/ sweepExpiredImages(p) \/ saves(p) \/ reloads(p) \/ openAttachment(p)
       \/ \E whole \in BOOLEAN : downloaded(p, whole)

AttachmentsSpec == AttachmentsInit /\ [][AttachmentsNext]_attachmentVars

AttachmentsTypeOK ==
  /\ time \in 1..MaxTime
  /\ file \in [size : FileSizes, expire : ExpireTicks, enc : {"c1", ""}]
  /\ sending \in [at : {"new", "encrypting", "uploading", "saved", "sent", "failed"}, since : 0..MaxTime]
  /\ cipher.here \in BOOLEAN /\ cipher.until \in Nat /\ expireAt \in Nat
  /\ {attached, saved} \subseteq [Viewers -> {"none", "kept", "expired"}]
  /\ {saving, opening} \subseteq [Viewers -> BOOLEAN]

\* The parts of the property below: what opens, who deletes first, and the disk.
OpensWhole == \A p \in Viewers : shownTo[p] \subseteq {Picked}
GoneUnserved == \A p \in Viewers : attached[p] = "expired" => ~Served
GoneFromDisk == \A p \in Viewers : attached[p] = "expired" => saved[p] = "expired" \/ saving[p]

\* Whatever opens is the whole file that was picked, at every length of the last
\* chunk.  A page deletes an attachment no sooner than the gateway has stopped
\* serving it, whatever encryption, upload and delivery took: what is gone from
\* one page cannot still be fetched by another.  And a page that forgot the key
\* has it nowhere on disk, or a save is due.
AttachmentsEnd == OpensWhole /\ GoneUnserved /\ GoneFromDisk
=============================================================================
