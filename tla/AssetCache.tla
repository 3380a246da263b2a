----------------------------- MODULE AssetCache -----------------------------
(***************************************************************************)
(* The picture cache of the WeChat client (wechat/js/services/assets.js):  *)
(* files with an index that survive the application, pictures in memory,   *)
(* and the digests that the server gives out so that a file that was       *)
(* replaced behind its address is fetched again (wechat/js/app.js,         *)
(* refreshAssetHashes).                                                    *)
(*                                                                         *)
(* Loads run at once and share the file, the index and the memory of a     *)
(* key; each is cut where it waits for the network, the file system or the *)
(* decoder.  What a server's file holds is the number of its replacements, *)
(* and stands for its digest.                                              *)
(***************************************************************************)
EXTENDS Naturals, Sequences

CONSTANTS
    Keys,
    Loads,       \* bounds the loads at once
    Limit,       \* ASSET_CACHE_LIMIT_BYTES, in files
    Replaceable, \* bounds which files of the server are replaced, and looked up
    MaxContent,  \* bounds how often the server's file is replaced
    None

Contents == 1..MaxContent

\* A load: the digest it goes by, what it waits for and the picture it has
Stages == {"start", "digest", "read", "decode", "joined", "request", "write", "reread",
           "fallback", "shown"}
LoadRec == [key : Keys, known : Contents \cup {None}, at : Stages,
            content : Contents \cup {None}, vouched : BOOLEAN]

ASSUME CacheAssumption ==
    /\ Replaceable \subseteq Keys
    /\ Limit \in Nat \ {0}
    /\ MaxContent \in Nat \ {0}
    /\ None \notin Nat
    /\ None \notin Loads \cup LoadRec

VARIABLES
    remote,   \* what the server's files hold
    answer,   \* the digests on their way from the server, at most one answer
    hashes,   \* remoteHashes
    disk,     \* what the cached files hold
    index,    \* meta: the digest each file was fetched for, 0 when none was known
    order,    \* the keys of the index, the one used last at the end
    images,   \* what the pictures in memory show
    pending,  \* the load that fetches a key
    loads,    \* what each load stands at
    strayed   \* the keys whose picture in memory came when their file was gone

vars == <<remote, answer, hashes, disk, index, order, images, pending, loads, strayed>>

-----------------------------------------------------------------------------
(* The cache as a whole, which the synchronous parts of a load change      *)

Cache == [disk |-> disk, index |-> index, order |-> order, images |-> images,
          strayed |-> strayed]

Becomes(c) ==
    /\ disk' = c.disk
    /\ index' = c.index
    /\ order' = c.order
    /\ images' = c.images
    /\ strayed' = c.strayed

Indexed(c, k) == c.index[k] # None

Without(keys, k) == SelectSeq(keys, LAMBDA x : x # k)

Unindexed(c, k) ==
    [c EXCEPT !.disk[k] = None, !.index[k] = None, !.images[k] = None,
              !.order = Without(@, k), !.strayed = @ \ {k}]

\* Mutant: the picture stays in memory.
RemovedFile(c, k) ==
    IF Indexed(c, k) THEN [Unindexed(c, k) EXCEPT !.images[k] = c.images[k]] ELSE c

\* A file that the index does not know is not found, and stays.
RemoveCached(c, k) == IF Indexed(c, k) THEN Unindexed(c, k) ELSE c

Touched(c, k) ==
    IF Indexed(c, k)
    THEN [c EXCEPT !.order = Append(Without(@, k), k)]
    ELSE c

\* The files used least recently go, until what is left fits.
Prune(c) ==
    LET over == IF Len(c.order) > Limit THEN Len(c.order) - Limit ELSE 0
        gone == {k \in Keys : Indexed(c, k) /\ \E i \in 1..over : c.order[i] = k}
        kept(f) == [k \in Keys |-> IF k \in gone THEN None ELSE f[k]] IN
    [disk |-> kept(c.disk), index |-> kept(c.index),
     order |-> SubSeq(c.order, over + 1, Len(c.order)), images |-> kept(c.images),
     strayed |-> c.strayed \ gone]

\* The download is entered into the index, and the cache is cut to its limit.
Persisted(c, k, hash) ==
    Prune(Touched([c EXCEPT !.index[k] = IF hash = None THEN 0 ELSE hash], k))

-----------------------------------------------------------------------------
(* Loads                                                                   *)

At(l, at) == loads[l] # None /\ loads[l].at = at
Goes(l, r) == loads' = [loads EXCEPT ![l] = r]

\* The picture is drawn; vouched: it is not the older one of another load.
Shown(r, content) ==
    [r EXCEPT !.at = "shown", !.content = content,
              !.vouched = r.at # "joined" /\ r.key \notin strayed]

\* downloadImage is over for the load that fetches and for those that wait for it.
WaitsWith(l, m) ==
    \/ m = l
    \/ At(m, "joined") /\ loads[m].key = loads[l].key

Delivered(l, content) ==
    /\ loads' = [m \in Loads |->
                   IF WaitsWith(l, m) THEN Shown(loads[m], content) ELSE loads[m]]
    /\ pending' = [pending EXCEPT ![loads[l].key] = None]

\* Mutant: the download stays pending when it fails.
RefusedPending(l) ==
    /\ loads' = [m \in Loads |-> IF WaitsWith(l, m) THEN None ELSE loads[m]]
    /\ UNCHANGED pending

Refused(l) ==
    /\ loads' = [m \in Loads |-> IF WaitsWith(l, m) THEN None ELSE loads[m]]
    /\ pending' = [pending EXCEPT ![loads[l].key] = None]

\* downloadImage: one download for a key, which clears what is cached.
Download(l, r, c) ==
    IF pending[r.key] # None
    THEN /\ Goes(l, [r EXCEPT !.at = "joined"])
         /\ Becomes(c)
         /\ UNCHANGED pending
    ELSE /\ Goes(l, [r EXCEPT !.at = "request"])
         /\ Becomes(RemoveCached(c, r.key))
         /\ pending' = [pending EXCEPT ![r.key] = l]

\* The cached file is good: the picture in memory, or the file is read.
UseCached(l, r) ==
    /\ IF images[r.key] # None
       THEN /\ Goes(l, Shown(r, images[r.key]))
            /\ Becomes(Touched(Cache, r.key))
       ELSE /\ Goes(l, [r EXCEPT !.at = "read"])
            /\ Becomes(Cache)
    /\ UNCHANGED pending

CacheMiss(l, r) ==
    Download(l, r, IF disk[r.key] # None THEN RemoveCached(Cache, r.key) ELSE Cache)

Server == <<remote, answer, hashes>>
Files == <<disk, index, order, images, strayed>>

Init ==
    /\ remote = [k \in Keys |-> 1]
    /\ answer = None
    /\ hashes = [k \in Keys |-> None]
    /\ disk = [k \in Keys |-> None]
    /\ index = [k \in Keys |-> None]
    /\ order = <<>>
    /\ images = [k \in Keys |-> None]
    /\ pending = [k \in Keys |-> None]
    /\ loads = [l \in Loads |-> None]
    /\ strayed = {}

\* loadDescriptor, loadUrl: known is the digest the load goes by, or None.
Load(l, k) ==
    /\ loads[l] = None
    /\ LET r == [key |-> k, known |-> hashes[k], at |-> "start", content |-> None,
              vouched |-> TRUE]
           found == Indexed(Cache, k) /\ disk[k] # None IN
       IF ~found THEN CacheMiss(l, r)
       ELSE IF r.known = None \/ index[k] = r.known THEN UseCached(l, r)
       ELSE /\ Goes(l, [r EXCEPT !.at = "digest"])
            /\ UNCHANGED <<Files, pending>>
    /\ UNCHANGED Server

\* The digest of the file; a runtime that cannot give one gives none.
DigestRead(l) ==
    /\ At(l, "digest")
    /\ LET r == loads[l] IN
       \/ disk[r.key] = r.known /\ UseCached(l, r)
       \/ CacheMiss(l, r)
    /\ UNCHANGED Server

FileRead(l) ==
    /\ At(l, "read")
    /\ LET r == loads[l] IN
       \/ /\ disk[r.key] # None
          /\ Goes(l, [r EXCEPT !.at = "decode", !.content = disk[r.key]])
          /\ UNCHANGED <<Files, pending>>
       \/ Download(l, r, RemoveCached(Cache, r.key))
    /\ UNCHANGED Server

\* The picture goes into memory under its path, whatever the path holds by then.
Decoded(l) ==
    /\ At(l, "decode")
    /\ LET r == loads[l]
           late == IF Indexed(Cache, r.key) /\ disk[r.key] = r.content THEN {} ELSE {r.key}
           c == [Cache EXCEPT !.images[r.key] = r.content, !.strayed = (@ \ {r.key}) \cup late] IN
       \/ /\ Goes(l, [r EXCEPT !.at = "shown"])
          /\ Becomes(Touched(c, r.key))
          /\ UNCHANGED pending
       \/ Download(l, [r EXCEPT !.content = None], RemoveCached(Cache, r.key))
    /\ UNCHANGED Server

\* The bytes are not compared with the digest they were fetched for.
RequestBytes(l) ==
    /\ At(l, "request")
    /\ Goes(l, [loads[l] EXCEPT !.at = "write", !.content = remote[loads[l].key]])
    /\ UNCHANGED <<Server, Files, pending>>

\* The picture in memory is taken for the file that was just written, if there is one.
WriteFile(l) ==
    /\ At(l, "write")
    /\ LET r == loads[l]
           c == [Cache EXCEPT !.disk[r.key] = r.content] IN
       IF images[r.key] # None
       THEN /\ Becomes(Persisted(c, r.key, r.known))
            /\ Delivered(l, images[r.key])
       ELSE /\ Becomes(c)
            /\ Goes(l, [r EXCEPT !.at = "reread"])
            /\ UNCHANGED pending
    /\ UNCHANGED Server

\* imageFromCachedFile reads what was written, and replaces the picture in memory.
Reread(l) ==
    /\ At(l, "reread")
    /\ LET r == loads[l]
           c == [Cache EXCEPT !.images[r.key] = disk[r.key], !.strayed = @ \ {r.key}] IN
       /\ Becomes(Persisted(c, r.key, r.known))
       /\ Delivered(l, disk[r.key])
    /\ UNCHANGED Server

\* A step of the download fails: it is tried again without the cache.
FallBack(l) ==
    /\ \E at \in {"request", "write", "reread"} : At(l, at)
    /\ Becomes(RemoveCached(Cache, loads[l].key))
    /\ Goes(l, [loads[l] EXCEPT !.at = "fallback", !.content = None])
    /\ UNCHANGED <<Server, pending>>

FallbackEnds(l) ==
    /\ At(l, "fallback")
    /\ Delivered(l, remote[loads[l].key]) \/ Refused(l)
    /\ UNCHANGED <<Server, Files>>

\* The caller has drawn the picture.
Drawn(l) ==
    /\ At(l, "shown")
    /\ Goes(l, None)
    /\ UNCHANGED <<Server, Files, pending>>

-----------------------------------------------------------------------------
(* The server and the application                                          *)

Rest == <<Files, pending, loads>>

FileReplaced(k) ==
    /\ remote[k] < MaxContent
    /\ remote' = [remote EXCEPT ![k] = @ + 1]
    /\ UNCHANGED <<answer, hashes, Rest>>

\* refreshAssetHashes asks for some of the files.
AssetHashes ==
    /\ answer = None
    /\ answer' = remote
    /\ UNCHANGED <<remote, hashes, Rest>>

\* The loads go on without the digests when the request fails.
SetRemoteHashes ==
    /\ answer # None
    /\ \/ hashes' = [k \in Keys |-> IF k \in Replaceable THEN answer[k] ELSE hashes[k]]
       \/ UNCHANGED hashes
    /\ answer' = None
    /\ UNCHANGED <<remote, Rest>>

\* The application is closed at any moment; the files and the index stay.
Restart ==
    /\ answer' = None
    /\ hashes' = [k \in Keys |-> None]
    /\ images' = [k \in Keys |-> None]
    /\ pending' = [k \in Keys |-> None]
    /\ loads' = [l \in Loads |-> None]
    /\ strayed' = {}
    /\ UNCHANGED <<remote, disk, index, order>>

Continue(l) ==
    \/ DigestRead(l) \/ FileRead(l) \/ Decoded(l) \/ RequestBytes(l) \/ WriteFile(l)
    \/ Reread(l) \/ FallBack(l) \/ FallbackEnds(l)

Next ==
    \/ \E l \in Loads : Continue(l) \/ Drawn(l)
    \/ \E l \in Loads, k \in Keys : Load(l, k)
    \/ \E k \in Replaceable : FileReplaced(k)
    \/ AssetHashes \/ SetRemoteHashes \/ Restart

\* Every request has a timeout of 30 s, and the file system and the decoder answer.
Fairness == \A l \in Loads : WF_vars(Continue(l))

Spec == Init /\ [][Next]_vars /\ Fairness

-----------------------------------------------------------------------------
(* Properties                                                              *)

CacheTypeOK ==
    /\ remote \in [Keys -> Contents]
    /\ answer \in [Keys -> Contents] \cup {None}
    /\ hashes \in [Keys -> Contents \cup {None}]
    /\ disk \in [Keys -> Contents \cup {None}]
    /\ index \in [Keys -> 0..MaxContent \cup {None}]
    /\ order \in Seq(Keys)
    /\ loads \in [Loads -> LoadRec \cup {None}]
    /\ images \in [Keys -> Contents \cup {None}]
    /\ pending \in [Keys -> Loads \cup {None}]
    /\ strayed \subseteq Keys

\* A load that knows the digest of the server's file shows that file or a later one,
\* however the loads of the key overlap and whatever is pruned, lost or tried again,
\* unless it was served by the download that another load had begun, or from memory
\* by a picture whose file had been removed while it was decoded
\* (loadDescriptor, removeCached, imageFromCachedFile).
NeverOlderThanKnown ==
    \A l \in Loads :
      At(l, "shown") /\ loads[l].vouched /\ loads[l].known # None
        => loads[l].content >= loads[l].known

\* Every load ends with a picture or an error, also one that waits for the download
\* of another (downloadImage, pending).
EveryLoadEnds ==
    \A l \in Loads :
      (loads[l] # None /\ ~At(l, "shown")) ~> (loads[l] = None \/ At(l, "shown"))
=============================================================================
