----------------------------- MODULE MediaCache -----------------------------
(***************************************************************************)
(* The file cache of media originals (media_cache_service.py) for one      *)
(* message: workers that fetch it under a lease in Redis, with resumable   *)
(* partial files, edits that replace the media, crashes, and the command   *)
(* that prunes files (cli/media_cache_prune.py).  Files outlive processes, *)
(* and what a worker has written may still be in its buffer.               *)
(***************************************************************************)
EXTENDS Naturals, Sequences, FiniteSets

CONSTANTS
    Fetchers,    \* workers that fetch the message's media
    Versions,    \* how many media the message has had, at most
    MaxObjects,  \* bound on the rows of the message, one after the other
    Chunks,      \* chunks of an original
    MaxMishaps,  \* bound on crashes, lapses and failed downloads, together
    MayLapse     \* whether the lease of a live worker may be lost

ASSUME CacheConstants == /\ Versions \in Nat \ {0} /\ Chunks \in Nat \ {0}
                         /\ MaxObjects \in Nat
                         /\ MaxMishaps \in Nat /\ MayLapse \in BOOLEAN
                         /\ "nobody" \notin Fetchers

VARIABLES
    media,     \* the version Telegram has
    row,       \* the media object: its number (0: none), version and the file it names
    part,      \* original.part of each version: the chunks in it
    original,  \* original.* of each version: its chunks, or Missing
    lease,     \* who holds media:fetch of the message
    fetch,     \* each worker: where it stands, its object, versions, offset and buffer
    prune,     \* the pruner: where it stands, the object it has read or the versions without
               \* a row, the files it saw of them; and the versions whose original it took
               \* from under a row
    mishaps    \* mishaps so far

cacheVars == <<media, row, part, original, lease, fetch, prune, mishaps>>

Ids == 1..Versions
Nobody == "nobody"
Missing == <<0>>
Whole == [i \in 1..Chunks |-> i]
Away == [at |-> "idle", obj |-> 0, first |-> 0, ident |-> 0, offset |-> 0, buffer |-> <<>>]

Resting(taken) == [at |-> "idle", id |-> 0, orphans |-> {}, parts |-> [v \in Ids |-> <<>>],
                   whole |-> {}, taken |-> taken]

CacheTypeOK ==
    /\ media \in Ids
    /\ row \in [id : 0..MaxObjects, last : 0..MaxObjects, ident : 0..Versions,
                file : 0..Versions]
    /\ part \in [Ids -> Seq(1..Chunks)]
    /\ original \in [Ids -> Seq(0..Chunks)]
    /\ lease \in Fetchers \cup {Nobody}
    /\ fetch \in [Fetchers -> [at : {"idle", "leasing", "asking", "asked", "identified",
                                     "loading", "loaded", "bereft", "replaced"},
                               obj : 0..MaxObjects, first : 0..Versions,
                               ident : 0..Versions, offset : 0..Chunks,
                               buffer : Seq(1..Chunks)]]
    /\ prune \in [at : {"idle", "unlinked", "sweeping"}, id : 0..MaxObjects,
                  orphans : SUBSET Ids, parts : [Ids -> Seq(1..Chunks)], whole : SUBSET Ids,
                  taken : SUBSET Ids]
    /\ mishaps \in 0..MaxMishaps

InitCache ==
    /\ media = 1
    /\ row = [id |-> 0, last |-> 0, ident |-> 0, file |-> 0]
    /\ part = [v \in Ids |-> <<>>]
    /\ original = [v \in Ids |-> Missing]
    /\ lease = Nobody
    /\ fetch = [f \in Fetchers |-> Away]
    /\ prune = Resting({})
    /\ mishaps = 0

Mishap == mishaps < MaxMishaps /\ mishaps' = mishaps + 1
At(f, place) == fetch[f].at = place
Reaches(f, place) == fetch' = [fetch EXCEPT ![f].at = place]
Freed(f) == IF lease = f THEN Nobody ELSE lease
HasFile(v) == v # 0 /\ original[v] # Missing

\* The fetch ends: its lease is given back, and closing the file writes its buffer.
Leaves(f) ==
    /\ lease' = Freed(f)
    /\ part' = IF fetch[f].buffer = <<>> THEN part
               ELSE [part EXCEPT ![fetch[f].ident] = @ \o fetch[f].buffer]
    /\ fetch' = [fetch EXCEPT ![f] = Away]

(***************************************************************************)
(* fetch_media_to_cache.                                                   *)
(***************************************************************************)

\* The object is created when there is none.  (One that names a file answers at once;
\* one whose file is gone is an error until it is pruned.)
FetchBegins(f) ==
    /\ At(f, "idle") /\ row.file = 0
    /\ \/ row.id # 0 /\ UNCHANGED row
       \/ /\ row.id = 0 /\ row.last < MaxObjects
          /\ row' = [id |-> row.last + 1, last |-> row.last + 1, ident |-> 0, file |-> 0]
    /\ fetch' = [fetch EXCEPT ![f] = [Away EXCEPT !.at = "leasing", !.obj = row'.id,
                                                  !.first = row'.ident]]
    /\ UNCHANGED <<media, part, original, lease, prune, mishaps>>

\* SET NX; a worker that does not get the lease leaves.
Leases(f) ==
    /\ At(f, "leasing")
    /\ \/ lease = Nobody /\ lease' = f /\ Reaches(f, "asking")
       \/ lease # Nobody /\ UNCHANGED lease /\ fetch' = [fetch EXCEPT ![f] = Away]
    /\ UNCHANGED <<media, row, part, original, prune, mishaps>>

SameObject(f) == row.id = fetch[f].obj

\* With the lease the object is read again.
Rereads(f) ==
    /\ At(f, "asking")
    /\ \/ /\ ~ SameObject(f) \/ HasFile(row.file)
          /\ Leaves(f)
       \/ /\ SameObject(f) /\ ~ HasFile(row.file)
          /\ Reaches(f, "asked")
          /\ UNCHANGED <<part, lease>>
    /\ UNCHANGED <<media, row, original, prune, mishaps>>

\* Telegram is asked for the message, and the version it has is recorded, unless
\* somebody recorded yet another one meanwhile or the object is gone.
Identifies(f) ==
    /\ At(f, "asked")
    /\ \/ /\ SameObject(f) /\ row.ident \in {fetch[f].first, media}
          /\ row' = [row EXCEPT !.ident = media]
          /\ fetch' = [fetch EXCEPT ![f].at = "identified", ![f].ident = media]
          /\ UNCHANGED <<part, lease>>
       \/ /\ ~ SameObject(f) \/ row.ident \notin {fetch[f].first, media}
          /\ Leaves(f)
          /\ UNCHANGED row
    /\ UNCHANGED <<media, original, prune, mishaps>>

Same(f) == SameObject(f) /\ row.ident = fetch[f].ident

\* A complete original that a crash left behind is adopted, if row and version are
\* still the same.
Adopts(f) ==
    /\ At(f, "identified") /\ HasFile(fetch[f].ident)
    /\ row' = IF Same(f) THEN [row EXCEPT !.file = fetch[f].ident] ELSE row
    /\ Leaves(f)
    /\ UNCHANGED <<media, original, prune, mishaps>>

\* The partial file is opened for appending, at the size it has; an oversized one is
\* emptied first.
OpensPart(f) ==
    /\ At(f, "identified") /\ ~ HasFile(fetch[f].ident)
    /\ LET v == fetch[f].ident
           kept == IF Len(part[v]) > Chunks THEN <<>> ELSE part[v]
       IN  /\ part' = [part EXCEPT ![v] = kept]
           /\ fetch' = [fetch EXCEPT ![f].at = "loading", ![f].offset = Len(kept)]
    /\ UNCHANGED <<media, row, original, lease, prune, mishaps>>

\* The next chunk: the lease is checked, then the chunk goes to the buffer.
Arrives(f) ==
    /\ At(f, "loading") /\ fetch[f].offset < Chunks
    /\ \/ /\ lease = f
          /\ fetch' = [fetch EXCEPT ![f].offset = @ + 1,
                                    ![f].buffer = Append(@, fetch[f].offset + 1)]
          /\ UNCHANGED <<part, lease>>
       \/ /\ lease # f /\ Leaves(f)
    /\ UNCHANGED <<media, row, original, prune, mishaps>>

Flushes(f) ==
    /\ At(f, "loading") /\ fetch[f].buffer # <<>>
    /\ part' = [part EXCEPT ![fetch[f].ident] = @ \o fetch[f].buffer]
    /\ fetch' = [fetch EXCEPT ![f].buffer = <<>>]
    /\ UNCHANGED <<media, row, original, lease, prune, mishaps>>

\* The end of the download; the offset must be the expected size.
Loaded(f) ==
    /\ At(f, "loading") /\ fetch[f].offset = Chunks /\ fetch[f].buffer = <<>>
    /\ Reaches(f, "loaded")
    /\ UNCHANGED <<media, row, part, original, lease, prune, mishaps>>

\* The download stalls, the session fails or the disk is full.
LoadFails(f) ==
    /\ At(f, "loading") /\ Mishap
    /\ Leaves(f)
    /\ UNCHANGED <<media, row, original, prune>>

\* The last transaction, with the row locked: object, version and lease are checked and
\* the file is moved to its name ...
Replaces(f) ==
    /\ At(f, "loaded")
    /\ \/ /\ Same(f) /\ lease = f
          /\ original' = [original EXCEPT ![fetch[f].ident] = part[fetch[f].ident]]
          /\ part' = [part EXCEPT ![fetch[f].ident] = <<>>]
          /\ Reaches(f, "replaced")
          /\ UNCHANGED lease
       \/ /\ ~ Same(f) \/ lease # f
          /\ Leaves(f)
          /\ UNCHANGED original
    /\ UNCHANGED <<media, row, prune, mishaps>>

\* The partial file is gone: what is written to it is lost, and hashing or moving it fails.
Bereft(f) ==
    /\ At(f, "bereft")
    /\ Leaves(f)
    /\ UNCHANGED <<media, row, original, prune, mishaps>>

\* ... and committed.
Cached(f) ==
    /\ At(f, "replaced")
    /\ row' = [row EXCEPT !.ident = fetch[f].ident, !.file = fetch[f].ident]
    /\ Leaves(f)
    /\ UNCHANGED <<media, original, prune, mishaps>>

\* A worker is lost: its buffer and its transaction with it; the lease remains.
FetcherDies(f) ==
    /\ ~ At(f, "idle") /\ Mishap
    /\ fetch' = [fetch EXCEPT ![f] = Away]
    /\ UNCHANGED <<media, row, part, original, lease, prune>>

\* The lease of a worker that is gone, or (MayLapse) of one that is not, runs out.
LeaseLapses ==
    /\ lease # Nobody
    /\ \/ fetch[lease].at \in {"idle", "leasing"} /\ UNCHANGED mishaps
       \/ MayLapse /\ Mishap
    /\ lease' = Nobody
    /\ UNCHANGED <<media, row, part, original, fetch, prune>>

(***************************************************************************)
(* Edits and pruning.                                                      *)
(***************************************************************************)

Held == \E f \in Fetchers : At(f, "replaced")   \* the row is locked

MediaReplaced ==
    /\ media < Versions
    /\ media' = media + 1
    /\ UNCHANGED <<row, part, original, lease, fetch, prune, mishaps>>

\* A bug: the edit keeps the file of the old media.
EditKeepsFile ==
    /\ row.id # 0 /\ row.ident # media /\ ~ Held
    /\ row' = [row EXCEPT !.ident = media]
    /\ UNCHANGED <<media, part, original, lease, fetch, prune, mishaps>>

\* _handle_edit: an object of another version forgets its file.
EditHandled ==
    /\ row.id # 0 /\ row.ident # media /\ ~ Held
    /\ row' = [row EXCEPT !.ident = media, !.file = 0]
    /\ UNCHANGED <<media, part, original, lease, fetch, prune, mishaps>>

\* prune_media_cache unlinks the file of a settled row that is old enough, or finds it
\* gone, ...
PruneUnlinks ==
    /\ prune.at = "idle" /\ row.file # 0
    /\ original' = [original EXCEPT ![row.file] = Missing]
    /\ prune' = [prune EXCEPT !.at = "unlinked", !.id = row.id]
    /\ UNCHANGED <<media, row, part, lease, fetch, mishaps>>

Deleted == [row EXCEPT !.id = 0, !.ident = 0, !.file = 0]

\* ... and deletes the rows it has read.
PruneDeletes ==
    /\ prune.at = "unlinked" /\ ~ Held
    /\ row' = IF row.id = prune.id THEN Deleted ELSE row
    /\ prune' = Resting(IF row.id = prune.id THEN {} ELSE prune.taken)
    /\ UNCHANGED <<media, part, original, lease, fetch, mishaps>>

\* Then it reads the keys of the rows; the other directories' files are orphans.
PruneReads ==
    /\ prune.at = "idle"
    /\ LET orphans == {v \in Ids : /\ row.ident # v /\ row.file # v
                                   /\ part[v] # <<>> \/ HasFile(v)}
       IN  /\ orphans # {}
           /\ prune' = [prune EXCEPT !.at = "sweeping", !.orphans = orphans, !.parts = part,
                                     !.whole = {v \in Ids : HasFile(v) \/ part[v] = Whole}]
    /\ UNCHANGED <<media, row, part, original, lease, fetch, mishaps>>

Writers(v) == {f \in Fetchers : fetch[f].ident = v /\ fetch[f].at \in {"loading", "loaded"}}
Cut(f) == [fetch[f] EXCEPT !.at = "bereft", !.buffer = <<>>]

\* An orphan that nobody has written since is unlinked; a worker that has opened it
\* meanwhile goes on writing to a file without a name.
SweepsPart(v) ==
    /\ part[v] # <<>> /\ part[v] = prune.parts[v]
    /\ part' = [part EXCEPT ![v] = <<>>]
    /\ fetch' = [f \in Fetchers |-> IF f \in Writers(v) THEN Cut(f) ELSE fetch[f]]
    /\ UNCHANGED <<original, prune>>

\* (Moving a file keeps its age.)
SweepsOriginal(v) ==
    /\ HasFile(v) /\ v \in prune.whole
    /\ original' = [original EXCEPT ![v] = Missing]
    /\ prune' = IF row.file = v \/ \E f \in Fetchers : At(f, "replaced") /\ fetch[f].ident = v
                THEN [prune EXCEPT !.taken = @ \cup {v}] ELSE prune
    /\ UNCHANGED <<part, fetch>>

PruneSweeps ==
    /\ prune.at = "sweeping"
    /\ \E v \in prune.orphans : SweepsPart(v) \/ SweepsOriginal(v)
    /\ UNCHANGED <<media, row, lease, mishaps>>

PruneEnds ==
    /\ prune.at = "sweeping"
    /\ prune' = Resting(prune.taken)
    /\ UNCHANGED <<media, row, part, original, lease, fetch, mishaps>>

\* The pruner dies between unlinking and deleting.  (While it sweeps, that is its end.)
PrunerDies ==
    /\ prune.at = "unlinked" /\ Mishap
    /\ prune' = Resting(prune.taken \cup ({row.file} \cap Ids))
    /\ UNCHANGED <<media, row, part, original, lease, fetch>>

FetcherStep(f) ==
    \/ FetchBegins(f) \/ Leases(f) \/ Rereads(f) \/ Identifies(f) \/ Adopts(f) \/ OpensPart(f)
    \/ Arrives(f) \/ Flushes(f) \/ Loaded(f) \/ LoadFails(f) \/ Replaces(f) \/ Cached(f)
    \/ Bereft(f) \/ FetcherDies(f)

NextCache ==
    \/ \E f \in Fetchers : FetcherStep(f)
    \/ LeaseLapses
    \/ MediaReplaced \/ EditHandled
    \/ PruneUnlinks \/ PruneDeletes \/ PruneReads \/ PruneSweeps \/ PruneEnds \/ PrunerDies

CacheSpec == InitCache /\ [][NextCache]_cacheVars

(***************************************************************************)
(* Properties.                                                             *)
(***************************************************************************)

\* Every original is whole, after any number of resumed, overtaken, swept and crashed
\* downloads of the version it belongs to; and a row that names a file names that of its
\* own version, which exists, but for three gaps of the pruner's: from its unlinking to its
\* commit; when it dies between them; and when its row came to name a file after the pruner
\* had read the keys.  The last two are closed by a later pruning, which deletes the row.
CacheIsWhole ==
    /\ \A v \in Ids : HasFile(v) => original[v] = Whole
    /\ row.file # 0 => \/ HasFile(row.file) /\ row.file = row.ident
                       \/ prune.at = "unlinked" \/ row.file \in prune.taken
=============================================================================
