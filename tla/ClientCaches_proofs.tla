------------------------- MODULE ClientCaches_proofs -------------------------
(***************************************************************************)
(* What the WeChat client keeps of the server's: its pictures (AssetCache) *)
(* and its catalogue (Catalogue), for any keys, loads, limit and number of *)
(* replacements, and any players, languages and museum items.  The two     *)
(* components are proved about side by side and share nothing.             *)
(***************************************************************************)
EXTENDS AssetCache, Catalogue, TLAPS

-----------------------------------------------------------------------------
(* The picture cache: what a load shows is never older than the digest it  *)
(* goes by.                                                                *)
(*                                                                         *)
(* The server's files only get newer.  So it is enough that what a load    *)
(* waits with is new enough, that a file of the index is as new as the     *)
(* index says, that a download in flight has the key to itself, and that a *)
(* picture in memory is the file's, or has strayed.                        *)

Typed ==
    /\ remote \in [Keys -> Contents]
    /\ answer \in [Keys -> Contents] \cup {None}
    /\ hashes \in [Keys -> Contents \cup {None}]
    /\ disk \in [Keys -> Contents \cup {None}]
    /\ index \in [Keys -> Nat \cup {None}]
    /\ images \in [Keys -> Contents \cup {None}]
    /\ pending \in [Keys -> Loads \cup {None}]
    /\ loads \in [Loads -> LoadRec \cup {None}]

AsNew(content, known) == known # None => content # None /\ content >= known

\* No digest runs ahead of the server.
Behind ==
    \A k \in Keys :
        /\ answer # None => answer[k] <= remote[k]
        /\ AsNew(remote[k], hashes[k])

Known(l) == AsNew(remote[loads[l].key], loads[l].known)

Fetching == {"request", "write", "reread", "fallback"}

\* A download has its key to itself.
Alone ==
    /\ \A l \in Loads :
         loads[l] # None /\ loads[l].at \in Fetching => pending[loads[l].key] = l
    /\ \A k \in Keys : pending[k] # None => index[k] = None

\* A file is as new as the index says, and a picture in memory is the file's.
Filed(k) ==
    /\ index[k] # None /\ disk[k] # None => disk[k] >= index[k]
    /\ images[k] # None /\ k \notin strayed => index[k] # None /\ images[k] = disk[k]

\* What a load has, or waits for
Holds(l) ==
    LET r == loads[l] IN
    /\ r.at \in {"decode", "write"} => AsNew(r.content, r.known) /\ r.content # None
    /\ r.at = "read" /\ disk[r.key] # None => AsNew(disk[r.key], r.known)
    /\ r.at = "reread" => AsNew(disk[r.key], r.known) /\ disk[r.key] # None
    /\ r.at = "shown" /\ r.vouched => AsNew(r.content, r.known)

\* A file that is about to be written is as new as those who read it want.
Meets(l, m) ==
    /\ loads[l].at \in {"digest", "read"}
    /\ loads[m].at = "write"
    /\ loads[l].key = loads[m].key
    => AsNew(loads[m].content, loads[l].known)

Inv ==
    /\ Typed
    /\ Behind
    /\ Alone
    /\ \A k \in Keys : Filed(k)
    /\ \A l \in Loads : loads[l] # None => Known(l) /\ Holds(l)
    /\ \A l, m \in Loads : loads[l] # None /\ loads[m] # None => Meets(l, m)

-----------------------------------------------------------------------------
(* What a step does to the files                                           *)

FilesTyped ==
    /\ disk \in [Keys -> Contents \cup {None}]
    /\ index \in [Keys -> Nat \cup {None}]
    /\ images \in [Keys -> Contents \cup {None}]

Gone(j) == index[j] # None /\ disk'[j] = None /\ index'[j] = None

Quiet == \A j \in Keys : (disk'[j] = disk[j] /\ index'[j] = index[j]) \/ Gone(j)

LEMMA Removed ==
    ASSUME Typed, NEW k \in Keys, \A j \in Keys : Filed(j),
           NEW c, c \in {Cache, RemoveCached(Cache, k)},
           NEW d, d \in {c, RemoveCached(c, k)}, Becomes(d)
    PROVE  /\ FilesTyped'
           /\ Quiet
           /\ \A j \in Keys : Filed(j)'
           /\ d = RemoveCached(c, k) => index'[k] = None
  <1> DEFINE cut == [disk |-> [disk EXCEPT ![k] = None], index |-> [index EXCEPT ![k] = None],
                     order |-> Without(order, k), images |-> [images EXCEPT ![k] = None],
                     strayed |-> strayed \ {k}]
  <1>1. RemoveCached(Cache, k) = IF index[k] # None THEN cut ELSE Cache
    <2>1. /\ Cache.disk = disk /\ Cache.index = index /\ Cache.order = order
          /\ Cache.images = images /\ Cache.strayed = strayed
      BY DEF Cache
    <2>2. Unindexed(Cache, k) =
            [Cache EXCEPT !.disk = [disk EXCEPT ![k] = None],
                          !.index = [index EXCEPT ![k] = None],
                          !.images = [images EXCEPT ![k] = None],
                          !.order = Without(order, k), !.strayed = strayed \ {k}]
      BY <2>1, Zenon DEF Unindexed
    <2>3. Unindexed(Cache, k) = cut
      BY <2>2 DEF Cache
    <2> QED
      BY <2>1, <2>3, Zenon DEF RemoveCached, Indexed
  <1>2. RemoveCached(cut, k) = cut
    BY DEF RemoveCached, Indexed, Typed
  <1>3. d = Cache \/ (index[k] # None /\ d = cut)
    BY <1>1, <1>2
  <1>4. d = RemoveCached(c, k) => index[k] = None \/ d = cut
    BY <1>1, <1>2
  <1>5. CASE d = Cache
    BY <1>4, <1>5 DEF Becomes, Cache, Filed, FilesTyped, Quiet, Typed
  <1>6. CASE index[k] # None /\ d = cut
    <2>1. /\ disk' = [disk EXCEPT ![k] = None]
          /\ index' = [index EXCEPT ![k] = None]
          /\ images' = [images EXCEPT ![k] = None]
          /\ strayed' = strayed \ {k}
      BY <1>6 DEF Becomes
    <2> QED
      BY <2>1, <1>6 DEF Filed, FilesTyped, Quiet, Gone, Typed
  <1> QED BY <1>3, <1>5, <1>6

LEMMA TouchedOnly ==
    ASSUME NEW k, Becomes(Touched(Cache, k))
    PROVE  UNCHANGED <<disk, index, images, strayed>>
  BY DEF Becomes, Touched, Cache

\* What is pruned is gone whole; the other keys are as they were put together.
LEMMA Pruned ==
    ASSUME NEW d, NEW x, NEW o, NEW i, NEW s,
           NEW k, NEW hash,
           Becomes(Persisted([disk |-> d, index |-> x, order |-> o, images |-> i,
                              strayed |-> s], k, hash))
    PROVE  LET y == [x EXCEPT ![k] = IF hash = None THEN 0 ELSE hash] IN
           \E gone \in SUBSET Keys :
             /\ \A j \in gone : y[j] # None
             /\ disk' = [j \in Keys |-> IF j \in gone THEN None ELSE d[j]]
             /\ index' = [j \in Keys |-> IF j \in gone THEN None ELSE y[j]]
             /\ images' = [j \in Keys |-> IF j \in gone THEN None ELSE i[j]]
             /\ strayed' = s \ gone
  <1> DEFINE y == [x EXCEPT ![k] = IF hash = None THEN 0 ELSE hash]
             c == [disk |-> d, index |-> y, order |-> o, images |-> i, strayed |-> s]
             t == Touched(c, k)
             over == IF Len(t.order) > Limit THEN Len(t.order) - Limit ELSE 0
             gone == {j \in Keys : t.index[j] # None /\ \E n \in 1..over : t.order[n] = j}
             kept(f) == [j \in Keys |-> IF j \in gone THEN None ELSE f[j]]
  <1>1. [[disk |-> d, index |-> x, order |-> o, images |-> i, strayed |-> s]
            EXCEPT !.index[k] = IF hash = None THEN 0 ELSE hash] = c
    OBVIOUS
  <1>2. /\ t.disk = d /\ t.index = y /\ t.images = i /\ t.strayed = s
    BY DEF Touched
  <1>3. Becomes(Prune(t))
    BY <1>1, Zenon DEF Persisted
  <1>4. Prune(t) = [disk |-> kept(t.disk), index |-> kept(t.index),
                    order |-> SubSeq(t.order, over + 1, Len(t.order)),
                    images |-> kept(t.images), strayed |-> t.strayed \ gone]
    BY Zenon DEF Prune, Indexed
  <1>5. /\ disk' = kept(t.disk) /\ index' = kept(t.index) /\ images' = kept(t.images)
        /\ strayed' = t.strayed \ gone
    <2> HIDE DEF t, kept, gone, over
    <2> QED BY <1>3, <1>4 DEF Becomes
  <1>6. /\ disk' = kept(d) /\ index' = kept(y) /\ images' = kept(i)
        /\ strayed' = s \ gone
    <2> HIDE DEF t, kept, gone, over, y
    <2> QED BY <1>5, <1>2
  <1>7. gone \in SUBSET Keys /\ \A j \in gone : y[j] # None
    <2> HIDE DEF t, over, y
    <2> QED BY <1>2
  <1> HIDE DEF t, over, gone, y
  <1> QED BY <1>6, <1>7 DEF y

-----------------------------------------------------------------------------
(* What a step of a load does                                              *)

\* A file changes when it is taken away, or written by the download of its key.
Moves(l, j) ==
    \/ disk'[j] = disk[j]
    \/ disk'[j] = None /\ (index[j] # None \/ pending[j] = l)
    \/ /\ loads[l] # None /\ loads[l].at = "write" /\ loads[l].key = j
       /\ disk'[j] = loads[l].content

\* What another load becomes: nothing, or one that shows a picture.
Served(m) ==
    \/ loads'[m] = loads[m]
    \/ loads'[m] = None
    \/ loads'[m] # None /\ loads'[m].at = "shown" /\ Known(m)' /\ Holds(m)'

LEMMA StepKeeps ==
    ASSUME Inv, Typed', Alone', UNCHANGED Server,
           NEW l \in Loads,
           \A j \in Keys : Moves(l, j) /\ Filed(j)',
           loads'[l] # None => Known(l)' /\ Holds(l)',
           \A m \in Loads \ {l} : Served(m),
           \A m \in Loads \ {l} :
             loads[m] # None /\ loads'[m] = loads[m] /\ loads'[l] # None
               => Meets(l, m)' /\ Meets(m, l)'
    PROVE  Inv'
  <1>1. Behind'
    BY DEF Inv, Behind, Server, AsNew
  <1>2. ASSUME NEW m \in Loads, loads'[m] # None
        PROVE  Known(m)' /\ Holds(m)'
    <2>1. CASE m = l
      BY <2>1, <1>2
    <2>2. CASE m # l /\ loads'[m] # loads[m]
      BY <2>2, <1>2 DEF Served
    <2>3. CASE m # l /\ loads'[m] = loads[m]
      <3> DEFINE r == loads[m]
      <3>1. r \in LoadRec /\ r.key \in Keys /\ loads'[m] = r /\ loads[m] # None
        BY <2>3, <1>2 DEF Inv, Typed, LoadRec
      <3>2. Known(m) /\ Holds(m)
        BY <3>1 DEF Inv
      <3>3. Known(m)'
        BY <3>1, <3>2 DEF Known, AsNew, Server
      <3>4. CASE r.at = "reread"
        <4>1. pending[r.key] = m /\ index[r.key] = None
          BY <3>1, <3>4, CacheAssumption DEF Inv, Alone, Fetching
        <4>2. ~(loads[l] # None /\ loads[l].at = "write" /\ loads[l].key = r.key)
          BY <4>1, <2>3 DEF Inv, Alone, Fetching
        <4>3. disk'[r.key] = disk[r.key]
          BY <4>1, <4>2, <3>1, <2>3 DEF Moves
        <4> QED BY <4>3, <3>1, <3>2, <3>3, <3>4 DEF Holds
      <3>5. CASE r.at = "read"
        <4>1. loads[l] # None /\ loads[l].at = "write" /\ loads[l].key = r.key
                => AsNew(loads[l].content, r.known)
          BY <3>1, <3>5 DEF Inv, Meets
        <4>2. disk'[r.key] # None => AsNew(disk'[r.key], r.known)
          BY <4>1, <3>1, <3>2, <3>5 DEF Moves, Holds
        <4> QED BY <4>2, <3>1, <3>3, <3>5 DEF Holds
      <3>6. CASE r.at \notin {"reread", "read"}
        BY <3>1, <3>2, <3>3, <3>6 DEF Holds
      <3> QED BY <3>4, <3>5, <3>6
    <2> QED BY <2>1, <2>2, <2>3
  <1>3. ASSUME NEW m \in Loads, NEW n \in Loads, loads'[m] # None, loads'[n] # None
        PROVE  Meets(m, n)'
    <2>1. CASE m = n
      BY <2>1 DEF Meets
    <2>2. CASE \E z \in {m, n} : z # l /\ loads'[z] # loads[z]
      BY <2>2, <1>3 DEF Served, Meets
    <2>3. CASE m # n /\ \A z \in {m, n} : z # l => loads'[z] = loads[z]
      <3>1. CASE m # l /\ n # l
        BY <3>1, <2>3, <1>3 DEF Inv, Meets
      <3>2. CASE m = l /\ n # l
        BY <3>2, <2>3, <1>3
      <3>3. CASE m # l /\ n = l
        BY <3>3, <2>3, <1>3
      <3> QED BY <3>1, <3>2, <3>3, <2>3
    <2> QED BY <2>1, <2>2, <2>3
  <1> QED BY <1>1, <1>2, <1>3 DEF Inv

-----------------------------------------------------------------------------
(* What the actions are put together from                                  *)

\* A load that waits for none of the steps of a download
Waiting(l) == loads[l] # None => loads[l].at \notin Fetching

LEMMA Advanced ==
    ASSUME NEW r \in LoadRec, NEW at \in Stages
    PROVE  LET s == [r EXCEPT !.at = at] IN
           /\ s \in LoadRec /\ s # None /\ s.at = at /\ s.key = r.key
           /\ s.known = r.known /\ s.content = r.content
  BY CacheAssumption DEF LoadRec

LEMMA Filled ==
    ASSUME NEW r \in LoadRec, NEW at \in Stages, NEW content \in Contents \cup {None}
    PROVE  LET s == [r EXCEPT !.at = at, !.content = content] IN
           /\ s \in LoadRec /\ s # None /\ s.at = at /\ s.key = r.key
           /\ s.known = r.known /\ s.content = content
  BY CacheAssumption DEF LoadRec

LEMMA Drawing ==
    ASSUME NEW r \in LoadRec, NEW content \in Contents
    PROVE  LET s == Shown(r, content) IN
           /\ s \in LoadRec /\ s # None /\ s.at = "shown" /\ s.key = r.key
           /\ s.known = r.known /\ s.content = content
           /\ s.vouched = (r.at # "joined" /\ r.key \notin strayed)
  BY CacheAssumption DEF LoadRec, Stages, Shown

\* A step of one load that is not a download's and leaves the files as they are,
\* or takes some away.
LEMMA QuietStep ==
    ASSUME Inv, NEW l \in Loads, Waiting(l), NEW r \in LoadRec \cup {None},
           Goes(l, r), r # None => r.at \notin Fetching,
           FilesTyped', Quiet, \A j \in Keys : Filed(j)',
           UNCHANGED <<Server, pending>>,
           r # None => Known(l)' /\ Holds(l)',
           \A m \in Loads \ {l} :
             loads[m] # None /\ loads[m].at = "write" /\ r # None => Meets(l, m)'
    PROVE  Inv'
  <1>1. /\ loads' = [loads EXCEPT ![l] = r]
        /\ loads' \in [Loads -> LoadRec \cup {None}]
        /\ loads'[l] = r
        /\ \A m \in Loads \ {l} : loads'[m] = loads[m]
    BY DEF Inv, Typed, Goes
  <1>2. Typed'
    BY <1>1 DEF Inv, Typed, FilesTyped, Server
  <1>3. Alone'
    BY <1>1 DEF Inv, Alone, Quiet, Gone
  <1>4. \A j \in Keys : Moves(l, j)
    BY DEF Moves, Quiet, Gone
  <1>5. \A m \in Loads \ {l} : Served(m)
    BY <1>1 DEF Served
  <1>6. ASSUME NEW m \in Loads \ {l}, loads[m] # None, loads'[l] # None
        PROVE  Meets(l, m)' /\ Meets(m, l)'
    BY <1>1, <1>6, CacheAssumption DEF Meets, Fetching
  <1> QED
    BY <1>1, <1>2, <1>3, <1>4, <1>5, <1>6, StepKeeps

LEMMA Downloads ==
    ASSUME Inv, NEW l \in Loads, Waiting(l), NEW r \in LoadRec,
           AsNew(remote[r.key], r.known),
           NEW c, c \in {Cache, RemoveCached(Cache, r.key)},
           Download(l, r, c), UNCHANGED Server
    PROVE  Inv'
  <1> DEFINE k == r.key
  <1>0. k \in Keys /\ Typed /\ \A j \in Keys : Filed(j)
    BY DEF Inv, LoadRec
  <1>1. CASE pending[k] # None
    <2> DEFINE s == [r EXCEPT !.at = "joined"]
    <2>1. Goes(l, s) /\ Becomes(c) /\ UNCHANGED pending
      BY <1>1 DEF Download
    <2>2. s \in LoadRec /\ s # None /\ s.at = "joined" /\ s.key = k /\ s.known = r.known
      BY Advanced DEF Stages
    <2>3. FilesTyped' /\ Quiet /\ \A j \in Keys : Filed(j)'
      BY <1>0, <2>1, Removed
    <2>4. loads'[l] = s /\ \A m \in Loads \ {l} : loads'[m] = loads[m]
      BY <2>1 DEF Goes, Inv, Typed
    <2>5. Known(l)' /\ Holds(l)' /\ \A m \in Loads : Meets(l, m)'
      BY <2>2, <2>4 DEF Known, Holds, Meets, Server
    <2> HIDE DEF s, k
    <2> QED BY <2>1, <2>2, <2>3, <2>5, QuietStep DEF Fetching
  <1>2. CASE pending[k] = None
    <2> DEFINE s == [r EXCEPT !.at = "request"]
    <2>1. /\ loads' = [loads EXCEPT ![l] = s]
          /\ Becomes(RemoveCached(c, k))
          /\ pending' = [pending EXCEPT ![k] = l]
      BY <1>2 DEF Download, Goes
    <2>2. s \in LoadRec /\ s # None /\ s.at = "request" /\ s.key = k /\ s.known = r.known
      BY Advanced DEF Stages
    <2>3. /\ FilesTyped' /\ Quiet /\ \A j \in Keys : Filed(j)'
          /\ index'[k] = None
      BY <1>0, <2>1, Removed
    <2>4. /\ loads' \in [Loads -> LoadRec \cup {None}]
          /\ loads'[l] = s /\ \A m \in Loads \ {l} : loads'[m] = loads[m]
      BY <2>1, <2>2 DEF Inv, Typed
    <2>5. /\ pending' \in [Keys -> Loads \cup {None}]
          /\ pending'[k] = l /\ \A j \in Keys \ {k} : pending'[j] = pending[j]
      BY <1>0, <2>1 DEF Typed
    <2> HIDE DEF s
    <2>6. Typed'
      BY <1>0, <2>3, <2>4, <2>5 DEF Typed, FilesTyped, Server
    <2>7. ASSUME NEW m \in Loads, loads'[m] # None, loads'[m].at \in Fetching
          PROVE  pending'[loads'[m].key] = m
      <3>1. CASE m = l
        BY <3>1, <2>2, <2>4, <2>5
      <3>2. CASE m # l
        <4>1. pending[loads[m].key] = m /\ loads[m].key \in Keys
          BY <3>2, <2>4, <2>7 DEF Inv, Alone, Typed, LoadRec
        <4>2. loads[m].key # k
          BY <4>1, <1>2, CacheAssumption
        <4> QED BY <4>1, <4>2, <3>2, <2>4, <2>5
      <3> QED BY <3>1, <3>2
    <2>8. ASSUME NEW j \in Keys, pending'[j] # None
          PROVE  index'[j] = None
      BY <2>3, <2>5, <2>8 DEF Quiet, Gone, Inv, Alone
    <2>9. Alone'
      BY <2>7, <2>8 DEF Alone
    <2>10. \A j \in Keys : Moves(l, j)
      BY <2>3 DEF Moves, Quiet, Gone
    <2>11. Known(l)' /\ Holds(l)' /\ \A m \in Loads : Meets(l, m)' /\ Meets(m, l)'
      BY <2>2, <2>4 DEF Known, Holds, Meets, Server
    <2> QED
      BY <2>3, <2>4, <2>6, <2>9, <2>10, <2>11, StepKeeps DEF Served
  <1> QED BY <1>1, <1>2

\* A download is over: all that waited for it show its picture.
LEMMA DeliveredKeeps ==
    ASSUME Inv, NEW l \in Loads, loads[l] # None, loads[l].at \in Fetching,
           NEW content \in Contents, Delivered(l, content),
           loads[l].key \notin strayed => AsNew(content, loads[l].known),
           FilesTyped', \A j \in Keys : Moves(l, j) /\ Filed(j)',
           \A j \in Keys \ {loads[l].key} : index[j] = None => index'[j] = None,
           UNCHANGED Server
    PROVE  Inv'
  <1> DEFINE k == loads[l].key
  <1>1. \A m \in Loads : loads[m] # None => loads[m] \in LoadRec /\ loads[m].key \in Keys
    BY DEF Inv, Typed, LoadRec
  <1>2. ASSUME NEW m \in Loads
        PROVE  loads'[m] = IF WaitsWith(l, m) THEN Shown(loads[m], content) ELSE loads[m]
    BY DEF Delivered
  <1>3. ASSUME NEW m \in Loads, WaitsWith(l, m)
        PROVE  /\ loads[m] # None /\ loads[m] \in LoadRec
               /\ loads'[m] \in LoadRec /\ loads'[m] # None
               /\ loads'[m].at = "shown" /\ Known(m)' /\ Holds(m)'
    <2>1. loads[m] # None /\ loads[m] \in LoadRec /\ Known(m)
      BY <1>1, <1>3 DEF WaitsWith, At, Inv
    <2>2. loads'[m] = Shown(loads[m], content)
      BY <1>2, <1>3
    <2>3. /\ loads'[m] \in LoadRec /\ loads'[m] # None
          /\ loads'[m].at = "shown" /\ loads'[m].content = content
          /\ loads'[m].key = loads[m].key /\ loads'[m].known = loads[m].known
          /\ loads'[m].vouched =
               (loads[m].at # "joined" /\ loads[m].key \notin strayed)
      BY <2>1, <2>2, Drawing
    <2>4. loads'[m].vouched => AsNew(content, loads[m].known)
      BY <1>3, <2>3 DEF WaitsWith, At
    <2> QED BY <2>1, <2>2, <2>3, <2>4 DEF Known, Holds, Server
  <1>4. loads' \in [Loads -> LoadRec \cup {None}]
    <2>1. \A m \in Loads : loads'[m] \in LoadRec \cup {None}
      BY <1>1, <1>2, <1>3
    <2> QED BY <2>1 DEF Delivered
  <1>5. /\ pending' = [pending EXCEPT ![k] = None]
        /\ pending' \in [Keys -> Loads \cup {None}]
    BY DEF Delivered, Inv, Typed
  <1>6. Typed'
    BY <1>4, <1>5 DEF Inv, Typed, FilesTyped, Server
  <1>7. ASSUME NEW m \in Loads, loads'[m] # None, loads'[m].at \in Fetching
        PROVE  pending'[loads'[m].key] = m
    <2>1. ~WaitsWith(l, m) /\ m # l /\ loads'[m] = loads[m]
      BY <1>2, <1>3, <1>7 DEF Fetching, WaitsWith
    <2>2. pending[loads[m].key] = m /\ pending[k] = l /\ loads[m].key \in Keys
      BY <1>1, <1>7, <2>1 DEF Inv, Alone
    <2> QED BY <2>1, <2>2, <1>5 DEF Inv, Typed
  <1>8. ASSUME NEW j \in Keys, pending'[j] # None
        PROVE  index'[j] = None
    BY <1>1, <1>5, <1>8 DEF Inv, Typed, Alone
  <1>9. Alone'
    BY <1>7, <1>8 DEF Alone
  <1>10. \A m \in Loads : Served(m)
    BY <1>2, <1>3 DEF Served
  <1>11. Known(l)' /\ Holds(l)' /\ \A m \in Loads : Meets(l, m)' /\ Meets(m, l)'
    BY <1>3 DEF WaitsWith, Meets
  <1> QED
    BY <1>6, <1>9, <1>10, <1>11, StepKeeps

-----------------------------------------------------------------------------
(* The steps                                                               *)

LEMMA Stored ==
    ASSUME Inv, NEW l \in Loads, loads[l] # None
    PROVE  /\ loads[l] \in LoadRec /\ loads[l].key \in Keys
           /\ loads[l].known \in Contents \cup {None}
           /\ loads[l].content \in Contents \cup {None}
           /\ Known(l) /\ Holds(l)
  BY DEF Inv, Typed, LoadRec

LEMMA FilesStay ==
    ASSUME Inv, UNCHANGED Files
    PROVE  /\ FilesTyped' /\ Quiet /\ \A j \in Keys : Filed(j)'
           /\ \A l \in Loads, j \in Keys : Moves(l, j)
  BY DEF Inv, Typed, FilesTyped, Files, Quiet, Filed, Moves

LEMMA UsingCached ==
    ASSUME Inv, NEW l \in Loads, Waiting(l), NEW r \in LoadRec, r.at \in {"start", "digest"},
           AsNew(remote[r.key], r.known),
           disk[r.key] # None => AsNew(disk[r.key], r.known),
           \A m \in Loads : loads[m] # None /\ loads[m].at = "write" /\ loads[m].key = r.key
             => AsNew(loads[m].content, r.known),
           UseCached(l, r), UNCHANGED Server
    PROVE  Inv'
  <1> DEFINE k == r.key
  <1>1. k \in Keys /\ r.known \in Contents \cup {None}
    BY DEF LoadRec
  <1>2. UNCHANGED <<disk, index, images, strayed, pending>>
    BY TouchedOnly DEF UseCached, Becomes, Cache
  <1>3. FilesTyped' /\ Quiet /\ \A j \in Keys : Filed(j)'
    BY <1>2 DEF Inv, Typed, FilesTyped, Quiet, Filed
  <1>4. CASE images[k] # None
    <2> DEFINE s == Shown(r, images[k])
    <2>1. Goes(l, s)
      BY <1>4 DEF UseCached
    <2>2. images[k] \in Contents
      BY <1>1, <1>4 DEF Inv, Typed
    <2>3. /\ s \in LoadRec /\ s # None /\ s.at = "shown" /\ s.key = k
          /\ s.known = r.known /\ s.content = images[k]
          /\ s.vouched = (r.at # "joined" /\ k \notin strayed)
      BY <2>2, Drawing
    <2>4. loads'[l] = s
      BY <2>1 DEF Goes, Inv, Typed
    <2>5. s.vouched => AsNew(images[k], r.known)
      BY <1>1, <1>4, <2>3 DEF Inv, Filed
    <2>6. Known(l)' /\ Holds(l)' /\ \A m \in Loads : Meets(l, m)'
      BY <2>3, <2>4, <2>5 DEF Known, Holds, Meets, Server
    <2> HIDE DEF s, k
    <2> QED BY <1>2, <1>3, <2>1, <2>3, <2>6, QuietStep DEF Fetching
  <1>5. CASE images[k] = None
    <2> DEFINE s == [r EXCEPT !.at = "read"]
    <2>1. Goes(l, s)
      BY <1>5 DEF UseCached
    <2>2. /\ s \in LoadRec /\ s # None /\ s.at = "read" /\ s.key = k
          /\ s.known = r.known
      BY Advanced DEF Stages
    <2>3. loads'[l] = s /\ \A m \in Loads \ {l} : loads'[m] = loads[m]
      BY <2>1 DEF Goes, Inv, Typed
    <2> HIDE DEF s
    <2>4. Known(l)' /\ Holds(l)'
      BY <1>2, <2>2, <2>3 DEF Known, Holds, Server
    <2>5. ASSUME NEW m \in Loads \ {l}, loads[m] # None, loads[m].at = "write"
          PROVE  Meets(l, m)'
      BY <2>2, <2>3, <2>5 DEF Meets
    <2> QED BY <1>2, <1>3, <2>1, <2>2, <2>4, <2>5, QuietStep DEF Fetching
  <1> QED BY <1>4, <1>5

LEMMA LoadKeeps ==
    ASSUME Inv, NEW l \in Loads, NEW k \in Keys, Load(l, k)
    PROVE  Inv'
  <1> DEFINE r == [key |-> k, known |-> hashes[k], at |-> "start", content |-> None,
                   vouched |-> TRUE]
             found == Indexed(Cache, k) /\ disk[k] # None
  <1>1. /\ loads[l] = None
        /\ IF ~found THEN CacheMiss(l, r)
           ELSE IF r.known = None \/ index[k] = r.known THEN UseCached(l, r)
           ELSE /\ Goes(l, [r EXCEPT !.at = "digest"])
                /\ UNCHANGED <<Files, pending>>
        /\ UNCHANGED Server
    BY DEF Load
  <1>2. r \in LoadRec /\ r.key = k /\ r.known = hashes[k] /\ r.at = "start"
    BY DEF Inv, Typed, LoadRec, Stages
  <1>3. AsNew(remote[k], r.known) /\ Waiting(l)
    BY <1>1 DEF Inv, Behind, Waiting
  <1>4. found => index[k] # None
    BY DEF Indexed, Cache
  <1>5. found => \A m \in Loads :
                   loads[m] # None /\ loads[m].at = "write" => loads[m].key # k
    BY <1>4, CacheAssumption DEF Inv, Alone, Fetching
  <1> HIDE DEF r, found
  <1>6. CASE ~found
    BY <1>1, <1>2, <1>3, <1>6, Downloads DEF CacheMiss
  <1>7. CASE found /\ (r.known = None \/ index[k] = r.known)
    <2>1. disk[k] # None => AsNew(disk[k], r.known)
      BY <1>4, <1>7 DEF Inv, Filed, AsNew
    <2> QED
      BY <1>1, <1>2, <1>3, <1>5, <1>7, <2>1, UsingCached
  <1>8. CASE found /\ ~(r.known = None \/ index[k] = r.known)
    <2> DEFINE s == [r EXCEPT !.at = "digest"]
    <2>1. Goes(l, s) /\ UNCHANGED <<Files, pending, Server>>
      BY <1>1, <1>8
    <2>2. /\ s \in LoadRec /\ s # None /\ s.at = "digest" /\ s.key = k
          /\ s.known = r.known
      BY <1>2, Advanced DEF Stages
    <2>3. loads'[l] = s /\ \A m \in Loads \ {l} : loads'[m] = loads[m]
      BY <2>1 DEF Goes, Inv, Typed
    <2> HIDE DEF s
    <2>4. Known(l)' /\ Holds(l)'
      BY <1>3, <2>1, <2>2, <2>3 DEF Known, Holds, Server
    <2>5. ASSUME NEW m \in Loads \ {l}, loads[m] # None, loads[m].at = "write"
          PROVE  Meets(l, m)'
      BY <1>5, <1>8, <2>2, <2>3, <2>5 DEF Meets
    <2> QED
      BY <1>3, <2>1, <2>2, <2>4, <2>5, FilesStay, QuietStep DEF Fetching
  <1> QED BY <1>6, <1>7, <1>8

LEMMA DigestReadKeeps ==
    ASSUME Inv, NEW l \in Loads, DigestRead(l)
    PROVE  Inv'
  <1> DEFINE r == loads[l]
  <1>1. /\ r # None /\ r.at = "digest" /\ UNCHANGED Server
        /\ (disk[r.key] = r.known /\ UseCached(l, r)) \/ CacheMiss(l, r)
    BY DEF DigestRead, At
  <1>2. r \in LoadRec /\ AsNew(remote[r.key], r.known) /\ r.known \in Contents \cup {None}
    BY <1>1, Stored DEF Known
  <1>3. Waiting(l)
    BY <1>1 DEF Waiting, Fetching
  <1>4. \A m \in Loads : loads[m] # None /\ loads[m].at = "write" /\ loads[m].key = r.key
          => AsNew(loads[m].content, r.known)
    BY <1>1 DEF Inv, Meets
  <1>5. CASE disk[r.key] = r.known /\ UseCached(l, r)
    <2>1. disk[r.key] # None => AsNew(disk[r.key], r.known)
      BY <1>2, <1>5, CacheAssumption DEF AsNew, Contents
    <2> HIDE DEF r
    <2> QED BY <1>1, <1>2, <1>3, <1>4, <1>5, <2>1, UsingCached
  <1>6. CASE CacheMiss(l, r)
    BY <1>1, <1>2, <1>3, <1>6, Downloads DEF CacheMiss
  <1> QED BY <1>1, <1>5, <1>6

LEMMA FileReadKeeps ==
    ASSUME Inv, NEW l \in Loads, FileRead(l)
    PROVE  Inv'
  <1> DEFINE r == loads[l]
             found == disk[r.key]
             s == [r EXCEPT !.at = "decode", !.content = found]
  <1>1. /\ r # None /\ r.at = "read" /\ UNCHANGED Server
        /\ \/ found # None /\ Goes(l, s) /\ UNCHANGED <<Files, pending>>
           \/ Download(l, r, RemoveCached(Cache, r.key))
    BY DEF FileRead, At
  <1>2. /\ r \in LoadRec /\ AsNew(remote[r.key], r.known) /\ r.key \in Keys
        /\ found # None => AsNew(found, r.known)
    BY <1>1, Stored DEF Known, Holds
  <1>3. Waiting(l)
    BY <1>1 DEF Waiting, Fetching
  <1>4. CASE Download(l, r, RemoveCached(Cache, r.key))
    <2> HIDE DEF r
    <2> QED BY <1>1, <1>2, <1>3, <1>4, Downloads
  <1>5. CASE found # None /\ Goes(l, s) /\ UNCHANGED <<Files, pending>>
    <2>1. found \in Contents
      BY <1>2, <1>5 DEF Inv, Typed
    <2>2. /\ s \in LoadRec /\ s # None /\ s.at = "decode" /\ s.key = r.key
          /\ s.known = r.known /\ s.content = found
      <3> HIDE DEF r, found
      <3> QED BY <1>2, <2>1, Filled DEF Stages
    <2>3. loads'[l] = s
      BY <1>5 DEF Goes, Inv, Typed
    <2> HIDE DEF s
    <2>4. Known(l)' /\ Holds(l)' /\ \A m \in Loads : Meets(l, m)'
      BY <1>1, <1>2, <1>5, <2>2, <2>3 DEF Known, Holds, Meets, Server
    <2> QED
      BY <1>1, <1>3, <1>5, <2>2, <2>4, FilesStay, QuietStep DEF Fetching
  <1> QED BY <1>1, <1>4, <1>5

LEMMA DecodedKeeps ==
    ASSUME Inv, NEW l \in Loads, Decoded(l)
    PROVE  Inv'
  <1> DEFINE r == loads[l]
             k == r.key
             late == IF Indexed(Cache, k) /\ disk[k] = r.content THEN {} ELSE {k}
             c == [Cache EXCEPT !.images[k] = r.content, !.strayed = (@ \ {k}) \cup late]
             s == [r EXCEPT !.at = "shown"]
             t == [r EXCEPT !.content = None]
  <1>1. /\ r # None /\ r.at = "decode" /\ UNCHANGED Server
        /\ \/ Goes(l, s) /\ Becomes(Touched(c, k)) /\ UNCHANGED pending
           \/ Download(l, t, RemoveCached(Cache, k))
    BY DEF Decoded, At
  <1>2. /\ r \in LoadRec /\ AsNew(remote[k], r.known) /\ k \in Keys
        /\ AsNew(r.content, r.known) /\ r.content \in Contents
    BY <1>1, Stored DEF Known, Holds
  <1>3. Waiting(l)
    BY <1>1 DEF Waiting, Fetching
  <1>4. CASE Download(l, t, RemoveCached(Cache, k))
    <2>1. t \in LoadRec /\ t.key = k /\ t.known = r.known
      BY <1>2 DEF LoadRec
    <2> HIDE DEF t, k, r
    <2> QED BY <1>1, <1>2, <1>3, <1>4, <2>1, Downloads
  <1>5. CASE Goes(l, s) /\ Becomes(Touched(c, k)) /\ UNCHANGED pending
    <2>1. c = [disk |-> disk, index |-> index, order |-> order,
               images |-> [images EXCEPT ![k] = r.content],
               strayed |-> (strayed \ {k}) \cup late]
      <3> HIDE DEF late, k, r
      <3>1. Cache.images = images /\ Cache.strayed = strayed
        BY DEF Cache
      <3>2. c = [Cache EXCEPT !.images = [images EXCEPT ![k] = r.content],
                              !.strayed = (strayed \ {k}) \cup late]
        BY <3>1, Zenon
      <3> DEFINE drawn == [images EXCEPT ![k] = r.content]
                 stray == (strayed \ {k}) \cup late
      <3> HIDE DEF c, drawn, stray
      <3>3. c = [Cache EXCEPT !.images = drawn, !.strayed = stray]
        BY <3>2, Zenon DEF drawn, stray
      <3>4. c = [disk |-> disk, index |-> index, order |-> order, images |-> drawn,
                 strayed |-> stray]
        BY <3>3 DEF Cache
      <3> QED BY <3>4, Zenon DEF drawn, stray
    <2>2. /\ disk' = disk /\ index' = index
          /\ images' = [images EXCEPT ![k] = r.content]
          /\ strayed' = (strayed \ {k}) \cup late
      <3> HIDE DEF r, k, late, c
      <3>1. Touched(c, k).disk = c.disk /\ Touched(c, k).index = c.index
            /\ Touched(c, k).images = c.images /\ Touched(c, k).strayed = c.strayed
        BY <2>1 DEF Touched
      <3> QED BY <1>5, <2>1, <3>1 DEF Becomes
    <2>3. late = {} => index[k] # None /\ disk[k] = r.content
      BY DEF Indexed, Cache
    <2>4. late \in {{}, {k}}
      OBVIOUS
    <2> HIDE DEF late, c
    <2>5. FilesTyped' /\ Quiet
      BY <1>2, <2>2 DEF Inv, Typed, FilesTyped, Quiet
    <2>6. ASSUME NEW j \in Keys
          PROVE  Filed(j)'
      <3>1. CASE j = k
        BY <3>1, <1>2, <2>2, <2>3, <2>4 DEF Inv, Typed, Filed
      <3>2. CASE j # k
        BY <3>2, <1>2, <2>2, <2>4 DEF Inv, Typed, Filed
      <3> QED BY <3>1, <3>2
    <2>7. /\ s \in LoadRec /\ s # None /\ s.at = "shown" /\ s.key = k
          /\ s.known = r.known /\ s.content = r.content
      <3> HIDE DEF k, r
      <3> QED BY <1>2, Advanced DEF Stages, k
    <2>8. loads'[l] = s
      BY <1>5 DEF Goes, Inv, Typed
    <2> HIDE DEF s
    <2>9. Known(l)' /\ Holds(l)' /\ \A m \in Loads : Meets(l, m)'
      BY <1>1, <1>2, <2>7, <2>8 DEF Known, Holds, Meets, Server
    <2> QED
      BY <1>1, <1>3, <1>5, <2>5, <2>6, <2>7, <2>9, QuietStep DEF Fetching
  <1> QED BY <1>1, <1>4, <1>5

LEMMA RequestBytesKeeps ==
    ASSUME Inv, NEW l \in Loads, RequestBytes(l)
    PROVE  Inv'
  <1> DEFINE r == loads[l]
             got == remote[r.key]
             s == [r EXCEPT !.at = "write", !.content = got]
  <1>1. /\ r # None /\ r.at = "request" /\ Goes(l, s)
        /\ UNCHANGED <<Server, Files, pending>>
    BY DEF RequestBytes, At
  <1>2. r \in LoadRec /\ r.key \in Keys /\ AsNew(got, r.known) /\ got \in Contents
    BY <1>1, Stored DEF Known, Inv, Typed
  <1>3. /\ s \in LoadRec /\ s # None /\ s.at = "write" /\ s.key = r.key
        /\ s.known = r.known /\ s.content = got
    <2> HIDE DEF r, got
    <2> QED BY <1>2, Filled DEF Stages
  <1>4. /\ loads' = [loads EXCEPT ![l] = s] /\ loads'[l] = s
        /\ \A m \in Loads \ {l} : loads'[m] = loads[m]
    BY <1>1 DEF Goes, Inv, Typed
  <1> HIDE DEF s
  <1>5. Typed' /\ Alone'
    <2>1. loads' \in [Loads -> LoadRec \cup {None}]
      BY <1>3, <1>4 DEF Inv, Typed
    <2> QED
      BY <1>1, <1>3, <1>4, <2>1 DEF Inv, Typed, Alone, Fetching, Server, Files
  <1>6. Known(l)' /\ Holds(l)'
    BY <1>1, <1>2, <1>3, <1>4, CacheAssumption DEF Known, Holds, Server, Contents
  <1>7. ASSUME NEW m \in Loads \ {l}, loads[m] # None
        PROVE  Meets(l, m)' /\ Meets(m, l)'
    <2>1. Known(m) /\ loads'[m] = loads[m]
      BY <1>4, <1>7 DEF Inv
    <2> QED BY <2>1, <1>3, <1>4 DEF Meets, Known
  <1> QED
    BY <1>1, <1>4, <1>5, <1>6, <1>7, FilesStay, StepKeeps DEF Served

LEMMA WriteFileKeeps ==
    ASSUME Inv, NEW l \in Loads, WriteFile(l)
    PROVE  Inv'
  <1> DEFINE r == loads[l]
             k == r.key
             written == [disk EXCEPT ![k] = r.content]
             c == [Cache EXCEPT !.disk[k] = r.content]
  <1>1. /\ r # None /\ r.at = "write" /\ UNCHANGED Server
        /\ IF images[k] # None
           THEN Becomes(Persisted(c, k, r.known)) /\ Delivered(l, images[k])
           ELSE Becomes(c) /\ Goes(l, [r EXCEPT !.at = "reread"]) /\ UNCHANGED pending
    BY DEF WriteFile, At
  <1>2. /\ r \in LoadRec /\ k \in Keys /\ r.known \in Contents \cup {None}
        /\ AsNew(r.content, r.known) /\ r.content \in Contents
    BY <1>1, Stored DEF Holds
  <1>3. pending[k] = l /\ index[k] = None
    BY <1>1, <1>2, CacheAssumption DEF Inv, Alone, Fetching
  <1>4. c = [disk |-> written, index |-> index, order |-> order, images |-> images,
             strayed |-> strayed]
    BY DEF Cache
  <1>5. written \in [Keys -> Contents \cup {None}] /\ written[k] = r.content
        /\ \A j \in Keys \ {k} : written[j] = disk[j]
    BY <1>2 DEF Inv, Typed
  <1>6. CASE images[k] # None
    <2> DEFINE h == IF r.known = None THEN 0 ELSE r.known
               y == [index EXCEPT ![k] = h]
    <2>1. Delivered(l, images[k]) /\ images[k] \in Contents
      BY <1>1, <1>2, <1>6 DEF Inv, Typed
    <2>2. k \in strayed
      BY <1>2, <1>3, <1>6 DEF Inv, Filed
    <2>3. /\ h \in Nat /\ y \in [Keys -> Nat \cup {None}] /\ y[k] = h
          /\ r.content >= h /\ \A j \in Keys \ {k} : y[j] = index[j]
      BY <1>2 DEF Inv, Typed, AsNew, Contents
    <2>4. PICK gone \in SUBSET Keys :
             /\ \A j \in gone : y[j] # None
             /\ disk' = [j \in Keys |-> IF j \in gone THEN None ELSE written[j]]
             /\ index' = [j \in Keys |-> IF j \in gone THEN None ELSE y[j]]
             /\ images' = [j \in Keys |-> IF j \in gone THEN None ELSE images[j]]
             /\ strayed' = strayed \ gone
      <3>1. Becomes(Persisted([disk |-> written, index |-> index, order |-> order,
                               images |-> images, strayed |-> strayed], k, r.known))
        BY <1>1, <1>4, <1>6
      <3> HIDE DEF written, k, r
      <3> QED BY <3>1, Pruned
    <2> HIDE DEF written, y, h, c
    <2>5. FilesTyped'
      BY <1>5, <2>3, <2>4 DEF FilesTyped, Inv, Typed
    <2>6. ASSUME NEW j \in Keys
          PROVE  Moves(l, j)
      BY <1>1, <1>3, <1>5, <2>3, <2>4 DEF Moves
    <2>7. ASSUME NEW j \in Keys
          PROVE  Filed(j)'
      <3>1. Filed(j)
        BY DEF Inv
      <3>2. CASE j \in gone
        BY <3>2, <2>4 DEF Filed
      <3>3. CASE j \notin gone
        BY <3>1, <3>3, <1>5, <2>2, <2>3, <2>4 DEF Filed
      <3> QED BY <3>2, <3>3
    <2>8. \A j \in Keys \ {k} : index[j] = None => index'[j] = None
      BY <2>3, <2>4
    <2> QED
      BY <1>1, <2>1, <2>2, <2>5, <2>6, <2>7, <2>8, DeliveredKeeps DEF Fetching
  <1>7. CASE images[k] = None
    <2> DEFINE s == [r EXCEPT !.at = "reread"]
    <2>1. Becomes(c) /\ Goes(l, s) /\ UNCHANGED pending
      BY <1>1, <1>7
    <2>2. /\ s \in LoadRec /\ s # None /\ s.at = "reread" /\ s.key = k
          /\ s.known = r.known /\ s.content = r.content
      <3> HIDE DEF k, r
      <3> QED BY <1>2, Advanced DEF Stages, k
    <2>3. /\ disk' = written /\ UNCHANGED <<index, images, strayed>>
      BY <1>4, <2>1 DEF Becomes
    <2>4. /\ loads' = [loads EXCEPT ![l] = s] /\ loads'[l] = s
          /\ \A m \in Loads \ {l} : loads'[m] = loads[m]
      BY <2>1 DEF Goes, Inv, Typed
    <2> HIDE DEF s, written, c
    <2>5. Typed' /\ Alone'
      <3>1. loads' \in [Loads -> LoadRec \cup {None}]
        BY <2>2, <2>4 DEF Inv, Typed
      <3> QED
        BY <1>1, <1>3, <1>5, <2>1, <2>2, <2>3, <2>4, <3>1
           DEF Inv, Typed, Alone, Fetching, Server
    <2>6. ASSUME NEW j \in Keys
          PROVE  Moves(l, j) /\ Filed(j)'
      <3>1. Filed(j)
        BY DEF Inv
      <3>2. CASE j = k
        BY <3>1, <3>2, <1>1, <1>3, <1>5, <1>7, <2>3 DEF Moves, Filed
      <3>3. CASE j # k
        BY <3>1, <3>3, <1>5, <2>3 DEF Moves, Filed
      <3> QED BY <3>2, <3>3
    <2>7. Known(l)' /\ Holds(l)'
      BY <1>1, <1>2, <1>5, <2>2, <2>3, <2>4, CacheAssumption, Stored
         DEF Known, Holds, Server, Contents
    <2>8. \A m \in Loads : Meets(l, m)' /\ Meets(m, l)'
      BY <2>2, <2>4 DEF Meets
    <2> QED
      BY <1>1, <2>4, <2>5, <2>6, <2>7, <2>8, StepKeeps DEF Served
  <1> QED BY <1>6, <1>7

LEMMA RereadKeeps ==
    ASSUME Inv, NEW l \in Loads, Reread(l)
    PROVE  Inv'
  <1> DEFINE r == loads[l]
             k == r.key
             drawn == [images EXCEPT ![k] = disk[k]]
             c == [Cache EXCEPT !.images[k] = disk[k], !.strayed = @ \ {k}]
             h == IF r.known = None THEN 0 ELSE r.known
             y == [index EXCEPT ![k] = h]
  <1>1. /\ r # None /\ r.at = "reread" /\ UNCHANGED Server
        /\ Becomes(Persisted(c, k, r.known)) /\ Delivered(l, disk[k])
    BY DEF Reread, At
  <1>2. /\ r \in LoadRec /\ k \in Keys /\ r.known \in Contents \cup {None}
        /\ AsNew(disk[k], r.known) /\ disk[k] \in Contents
    BY <1>1, Stored DEF Holds, Inv, Typed
  <1>3. pending[k] = l
    BY <1>1 DEF Inv, Alone, Fetching
  <1>4. c = [disk |-> disk, index |-> index, order |-> order, images |-> drawn,
             strayed |-> strayed \ {k}]
    <2> HIDE DEF k, r
    <2>1. Cache.images = images /\ Cache.strayed = strayed
      BY DEF Cache
    <2>2. c = [Cache EXCEPT !.images = [images EXCEPT ![k] = disk[k]],
                            !.strayed = strayed \ {k}]
      BY <2>1, Zenon
    <2> DEFINE stray == strayed \ {k}
    <2> HIDE DEF c, drawn, stray
    <2>3. c = [Cache EXCEPT !.images = drawn, !.strayed = stray]
      BY <2>2, Zenon DEF drawn, stray
    <2>4. c = [disk |-> disk, index |-> index, order |-> order, images |-> drawn,
               strayed |-> stray]
      BY <2>3 DEF Cache
    <2> QED BY <2>4, Zenon DEF stray
  <1>5. /\ drawn \in [Keys -> Contents \cup {None}] /\ drawn[k] = disk[k]
        /\ \A j \in Keys \ {k} : drawn[j] = images[j]
        /\ h \in Nat /\ y \in [Keys -> Nat \cup {None}] /\ y[k] = h
        /\ disk[k] >= h /\ \A j \in Keys \ {k} : y[j] = index[j]
    BY <1>2 DEF Inv, Typed, AsNew, Contents
  <1>6. PICK gone \in SUBSET Keys :
           /\ \A j \in gone : y[j] # None
           /\ disk' = [j \in Keys |-> IF j \in gone THEN None ELSE disk[j]]
           /\ index' = [j \in Keys |-> IF j \in gone THEN None ELSE y[j]]
           /\ images' = [j \in Keys |-> IF j \in gone THEN None ELSE drawn[j]]
           /\ strayed' = (strayed \ {k}) \ gone
    <2>1. Becomes(Persisted([disk |-> disk, index |-> index, order |-> order,
                             images |-> drawn, strayed |-> strayed \ {k}], k, r.known))
      BY <1>1, <1>4
    <2> HIDE DEF drawn, k, r
    <2> QED BY <2>1, Pruned
  <1> HIDE DEF drawn, y, h, c
  <1>7. FilesTyped'
    BY <1>5, <1>6 DEF FilesTyped, Inv, Typed
  <1>8. ASSUME NEW j \in Keys
        PROVE  Moves(l, j)
    BY <1>3, <1>5, <1>6 DEF Moves, Inv, Typed
  <1>9. ASSUME NEW j \in Keys
        PROVE  Filed(j)'
    <2>1. Filed(j)
      BY DEF Inv
    <2>2. CASE j \in gone
      BY <2>2, <1>6 DEF Filed
    <2>3. CASE j \notin gone
      BY <2>1, <2>3, <1>5, <1>6, CacheAssumption DEF Filed
    <2> QED BY <2>2, <2>3
  <1>10. \A j \in Keys \ {k} : index[j] = None => index'[j] = None
    BY <1>5, <1>6
  <1> QED
    BY <1>1, <1>2, <1>7, <1>8, <1>9, <1>10, DeliveredKeeps DEF Fetching

LEMMA FallBackKeeps ==
    ASSUME Inv, NEW l \in Loads, FallBack(l)
    PROVE  Inv'
  <1> DEFINE r == loads[l]
             k == r.key
             s == [r EXCEPT !.at = "fallback", !.content = None]
  <1>1. /\ r # None /\ r.at \in {"request", "write", "reread"}
        /\ Becomes(RemoveCached(Cache, k)) /\ Goes(l, s) /\ UNCHANGED <<Server, pending>>
    BY DEF FallBack, At
  <1>2. r \in LoadRec /\ k \in Keys /\ Known(l) /\ pending[k] = l
    BY <1>1, Stored DEF Inv, Alone, Fetching
  <1>3. /\ s \in LoadRec /\ s # None /\ s.at = "fallback" /\ s.key = k
        /\ s.known = r.known
    <2> HIDE DEF r
    <2> QED BY <1>2, CacheAssumption DEF LoadRec, Stages
  <1>4. /\ loads' = [loads EXCEPT ![l] = s] /\ loads'[l] = s
        /\ \A m \in Loads \ {l} : loads'[m] = loads[m]
    BY <1>1 DEF Goes, Inv, Typed
  <1>5. FilesTyped' /\ Quiet /\ \A j \in Keys : Filed(j)'
    <2> HIDE DEF k
    <2> QED BY <1>1, <1>2, Removed DEF Inv
  <1> HIDE DEF s
  <1>6. Typed' /\ Alone'
    <2>1. loads' \in [Loads -> LoadRec \cup {None}]
      BY <1>3, <1>4 DEF Inv, Typed
    <2> QED
      BY <1>1, <1>2, <1>3, <1>4, <1>5, <2>1
         DEF Inv, Typed, FilesTyped, Alone, Fetching, Server, Quiet, Gone
  <1>7. \A j \in Keys : Moves(l, j)
    BY <1>5 DEF Moves, Quiet, Gone
  <1>8. Known(l)' /\ Holds(l)' /\ \A m \in Loads : Meets(l, m)' /\ Meets(m, l)'
    BY <1>1, <1>2, <1>3, <1>4 DEF Known, Holds, Meets, Server
  <1> QED
    BY <1>1, <1>4, <1>5, <1>6, <1>7, <1>8, StepKeeps DEF Served

LEMMA FallbackEndsKeeps ==
    ASSUME Inv, NEW l \in Loads, FallbackEnds(l)
    PROVE  Inv'
  <1> DEFINE r == loads[l]
             k == r.key
  <1>1. /\ r # None /\ r.at = "fallback" /\ UNCHANGED <<Server, Files>>
        /\ Delivered(l, remote[k]) \/ Refused(l)
    BY DEF FallbackEnds, At
  <1>2. /\ r \in LoadRec /\ k \in Keys /\ AsNew(remote[k], r.known)
        /\ remote[k] \in Contents /\ pending[k] = l
    BY <1>1, Stored DEF Known, Inv, Typed, Alone, Fetching
  <1>3. CASE Delivered(l, remote[k])
    BY <1>1, <1>2, <1>3, FilesStay, DeliveredKeeps DEF Fetching, Files
  <1>4. CASE Refused(l)
    <2>1. /\ \A m \in Loads : loads'[m] \in {loads[m], None}
          /\ loads' \in [Loads -> LoadRec \cup {None}]
          /\ loads'[l] = None
      BY <1>4 DEF Refused, WaitsWith, Inv, Typed
    <2>2. /\ pending' = [pending EXCEPT ![k] = None]
          /\ pending' \in [Keys -> Loads \cup {None}]
      BY <1>4 DEF Refused, Inv, Typed
    <2>3. Typed'
      BY <1>1, <2>1, <2>2 DEF Inv, Typed, Files, Server
    <2>4. ASSUME NEW m \in Loads, loads'[m] # None, loads'[m].at \in Fetching
          PROVE  pending'[loads'[m].key] = m
      <3>1. m # l /\ loads'[m] = loads[m] /\ loads[m].key \in Keys
            /\ pending[loads[m].key] = m
        BY <2>1, <2>4, Stored DEF Inv, Alone
      <3> QED BY <3>1, <1>2, <2>2 DEF Inv, Typed
    <2>5. ASSUME NEW j \in Keys, pending'[j] # None
          PROVE  index'[j] = None
      BY <1>1, <1>2, <2>2, <2>5 DEF Inv, Typed, Alone, Files
    <2>6. Alone'
      BY <2>4, <2>5 DEF Alone
    <2> QED
      BY <1>1, <2>1, <2>3, <2>6, FilesStay, StepKeeps DEF Served
  <1> QED BY <1>1, <1>3, <1>4

LEMMA DrawnKeeps ==
    ASSUME Inv, NEW l \in Loads, Drawn(l)
    PROVE  Inv'
  BY FilesStay, QuietStep DEF Drawn, At, Waiting, Fetching

-----------------------------------------------------------------------------
(* The server and the application                                          *)

\* A file of the server is replaced by a newer one.
LEMMA NewerKeeps ==
    ASSUME Inv, UNCHANGED Rest,
           remote' \in [Keys -> Contents], \A k \in Keys : remote'[k] >= remote[k],
           answer' \in [Keys -> Contents] \cup {None},
           hashes' \in [Keys -> Contents \cup {None}], Behind'
    PROVE  Inv'
  <1>1. Typed'
    BY DEF Inv, Typed, Rest, Files
  <1>2. ASSUME NEW l \in Loads, loads'[l] # None
        PROVE  Known(l)' /\ Holds(l)'
    <2>1. loads'[l] = loads[l] /\ disk' = disk /\ Known(l) /\ Holds(l) /\ loads[l].key \in Keys
      BY <1>2, Stored DEF Rest, Files
    <2>2. loads[l].known \in Contents \cup {None} /\ remote \in [Keys -> Contents]
      BY <1>2, Stored DEF Rest, Inv, Typed
    <2>3. Known(l)'
      BY <2>1, <2>2, CacheAssumption DEF Known, AsNew, Contents
    <2> QED BY <2>1, <2>3 DEF Holds
  <1> QED
    BY <1>1, <1>2 DEF Inv, Rest, Files, Alone, Filed, Meets

LEMMA ServerKeeps ==
    ASSUME Inv, (\E k \in Replaceable : FileReplaced(k)) \/ AssetHashes \/ SetRemoteHashes
    PROVE  Inv'
  <1>1. ASSUME NEW k \in Replaceable, FileReplaced(k)
        PROVE  Inv'
    <2>1. k \in Keys /\ remote[k] \in Contents /\ remote[k] < MaxContent
          /\ remote' = [remote EXCEPT ![k] = remote[k] + 1]
          /\ UNCHANGED <<answer, hashes, Rest>>
      BY <1>1, CacheAssumption DEF FileReplaced, Inv, Typed
    <2>2. remote[k] + 1 \in Contents
      BY <2>1, CacheAssumption DEF Contents
    <2>3. remote' \in [Keys -> Contents] /\ \A j \in Keys : remote'[j] >= remote[j]
      BY <2>1, <2>2 DEF Inv, Typed, Contents
    <2>4. Behind'
      BY <2>1, <2>3, CacheAssumption DEF Behind, AsNew, Inv, Typed, Contents
    <2> QED BY <2>1, <2>3, <2>4, NewerKeeps DEF Inv, Typed
  <1>2. CASE AssetHashes
    <2>1. answer' = remote /\ UNCHANGED <<remote, hashes, Rest>>
      BY <1>2 DEF AssetHashes
    <2>2. \A j \in Keys : remote[j] \in Nat
      BY DEF Inv, Typed, Contents
    <2>3. Behind'
      BY <2>1, <2>2 DEF Behind, Inv
    <2> QED BY <2>1, <2>2, <2>3, NewerKeeps DEF Inv, Typed
  <1>3. CASE SetRemoteHashes
    <2>1. /\ answer # None /\ answer' = None /\ UNCHANGED <<remote, Rest>>
          /\ \A j \in Keys : hashes'[j] \in {hashes[j], answer[j]}
          /\ hashes' \in [Keys -> Contents \cup {None}]
      BY <1>3, CacheAssumption DEF SetRemoteHashes, Inv, Typed
    <2>2. \A j \in Keys : remote[j] \in Nat
      BY DEF Inv, Typed, Contents
    <2>3. Behind'
      <3>1. ASSUME NEW j \in Keys
            PROVE  AsNew(remote'[j], hashes'[j])
        BY <2>1, <2>2, CacheAssumption DEF Inv, Behind, AsNew, Typed, Contents
      <3> QED BY <2>1, <3>1 DEF Behind
    <2> QED BY <2>1, <2>2, <2>3, NewerKeeps DEF Inv, Typed
  <1> QED BY <1>1, <1>2, <1>3

\* What survives the application is as new as the index says.
LEMMA RestartKeeps == Inv /\ Restart => Inv'
  <1> SUFFICES ASSUME Inv, Restart PROVE Inv'
    OBVIOUS
  <1>1. Typed' /\ Behind'
    BY DEF Restart, Inv, Typed, Behind, AsNew
  <1>2. Alone'
    BY DEF Restart, Alone
  <1>3. \A k \in Keys : Filed(k)'
    BY DEF Restart, Inv, Filed
  <1>4. \A l \in Loads : loads'[l] = None
    BY DEF Restart
  <1> QED BY <1>1, <1>2, <1>3, <1>4 DEF Inv

-----------------------------------------------------------------------------
(* The theorem                                                             *)

LEMMA InitInv == Init => Inv
  <1> SUFFICES ASSUME Init PROVE Inv
    OBVIOUS
  <1>1. Typed
    BY CacheAssumption DEF Init, Typed, Contents
  <1>2. Behind
    BY DEF Init, Behind, AsNew
  <1>3. Alone /\ \A k \in Keys : Filed(k)
    BY DEF Init, Alone, Filed
  <1>4. \A l \in Loads : loads[l] = None
    BY DEF Init
  <1> QED BY <1>1, <1>2, <1>3, <1>4 DEF Inv

LEMMA NextInv == Inv /\ [Next]_vars => Inv'
  <1> SUFFICES ASSUME Inv, [Next]_vars PROVE Inv'
    OBVIOUS
  <1>1. ASSUME NEW l \in Loads, Continue(l) \/ Drawn(l)
        PROVE  Inv'
    BY <1>1, DigestReadKeeps, FileReadKeeps, DecodedKeeps, RequestBytesKeeps,
       WriteFileKeeps, RereadKeeps, FallBackKeeps, FallbackEndsKeeps, DrawnKeeps
       DEF Continue
  <1>2. CASE UNCHANGED vars
    <2>1. UNCHANGED <<remote, answer, hashes, Rest>>
      BY <1>2 DEF vars, Rest, Files
    <2>2. Behind' /\ \A k \in Keys : remote[k] \in Nat
      BY <2>1 DEF Inv, Behind, Typed, Contents
    <2> QED BY <2>1, <2>2, NewerKeeps DEF Inv, Typed
  <1> QED
    BY <1>1, <1>2, LoadKeeps, ServerKeeps, RestartKeeps DEF Next

\* However loads overlap and whatever is pruned, lost, tried again or restarted, a
\* load that knows the digest of the server's file shows that file or a later one,
\* with the exceptions that NeverOlderThanKnown names (wechat/js/services/assets.js,
\* loadDescriptor, downloadImage).
THEOREM NeverOlder == Spec => []NeverOlderThanKnown
  <1>1. Inv => NeverOlderThanKnown
    BY DEF Inv, Holds, At, AsNew, NeverOlderThanKnown
  <1> QED BY <1>1, InitInv, NextInv, PTL DEF Spec

-----------------------------------------------------------------------------
(* The catalogue: a screen draws it in the language of the player, and a   *)
(* level announces only what the player has.                               *)
(*                                                                         *)
(* Neither property is inductive: what is drawn comes from the load that   *)
(* all share, what is announced from a picture on its way, and the         *)
(* language of the device from the start of the application and from       *)
(* changes that may overtake each other.  Sane says what each of these     *)
(* carries while it is on its way.                                         *)


Scenes == {"loading", "login"} \cup Inside
Catalogues == [lang : Locales, items : SUBSET Items, sure : BOOLEAN]
SharedLoads == [by : Users \cup {Nil}, answer : Catalogues \cup {Nil}]
Boots == [by : Users, at : {"config", "flush"}, lang : Locales \cup {Nil}, sure : BOOLEAN]
Gifts == [item : Items, late : BOOLEAN]

CatalogueTypeOK ==
    /\ language \in [Users -> Locales]
    /\ unlocked \in [Users -> SUBSET Items]
    /\ user \in Users \cup {Nil}
    /\ locale \in Locales
    /\ cache \in [Locales -> Catalogues \cup {Nil}]
    /\ scene \in Scenes
    /\ catalogData \in Catalogues \cup {Nil}
    /\ itemReward \in Gifts \cup {Nil}
    /\ arriving \in SUBSET Gifts
    /\ loading \in SharedLoads \cup {Nil}
    /\ rewards \in SUBSET SUBSET Items
    /\ boot \in Boots \cup {Nil}
    /\ writes \in SUBSET [by : Users, lang : Locales]
    /\ finishing \in BOOLEAN
    /\ doubt \in BOOLEAN

\* A start of the application that the server was sure about has the language of its player.
BootSane ==
    boot # Nil =>
      /\ scene \in {"loading", "login"}
      /\ user \in {boot.by, Nil}
      /\ writes # {} => doubt
      /\ boot.lang # Nil =>
           IF boot.sure THEN writes = {} /\ language[boot.by] = boot.lang ELSE doubt
      /\ boot.at = "flush" => boot.lang # Nil /\ (Settled => language[boot.by] = locale)

\* Who plays is signed in and has started; a change open while the application loads is in
\* doubt.
SceneSane ==
    /\ scene \in Inside => boot = Nil
    /\ user # Nil => scene # "login"
    /\ scene = "loading" /\ writes # {} => doubt

\* Without doubt one change is open at most, for the player of the moment, to the language
\* of the device.
WritesSane ==
    ~doubt => /\ \A w \in writes : w.lang = locale /\ (user # Nil => w.by = user)
              /\ \A v, w \in writes : v = w

\* The load on its way has the items its player has, and if sure, the language of the device.
LoadSane ==
    loading # Nil /\ loading.answer # Nil =>
      /\ loading.by # Nil
      /\ loading.answer.items \subseteq unlocked[loading.by]
      /\ loading.answer.sure => loading.answer.lang = locale

\* A reward on its way, or on the screen, is an item of the player of the moment.
RewardSane ==
    /\ \A r \in arriving : ~r.late => user # Nil /\ r.item \in unlocked[user]
    /\ scene = "game" /\ itemReward # Nil /\ ~itemReward.late
         => user # Nil /\ itemReward.item \in unlocked[user]

Sane == BootSane /\ SceneSane /\ WritesSane /\ LoadSane /\ LanguagesAgree /\ RewardSane

\* What Unsure makes of a load: the same load, but its answer is not sure.
LEMMA UnsureLoad ==
    ASSUME NEW load \in SharedLoads \cup {Nil}
    PROVE  /\ Unsure(load) \in SharedLoads \cup {Nil}
           /\ load = Nil => Unsure(load) = Nil
           /\ load # Nil /\ load.answer = Nil => Unsure(load) = load
           /\ load # Nil /\ load.answer # Nil =>
                /\ Unsure(load).by = load.by
                /\ Unsure(load).answer.items = load.answer.items
                /\ Unsure(load).answer.sure = FALSE
<1>1. CASE load = Nil \/ load.answer = Nil
  BY <1>1 DEF Unsure
<1>2. CASE ~ (load = Nil \/ load.answer = Nil)
  <2>. DEFINE kept == load.answer
              other == [kept EXCEPT !.sure = FALSE]
  <2>1. load \in SharedLoads /\ kept \in Catalogues
    BY <1>2 DEF SharedLoads
  <2>2. other \in Catalogues /\ other.items = kept.items /\ other.sure = FALSE
    <3>. HIDE DEF kept
    <3>. QED
      BY <2>1 DEF Catalogues
  <2>3. Unsure(load) = [load EXCEPT !.answer = other]
    BY <1>2 DEF Unsure
  <2>. HIDE DEF other
  <2>4. /\ Unsure(load) \in SharedLoads
        /\ Unsure(load).by = load.by
        /\ Unsure(load).answer = other
    BY <2>1, <2>2, <2>3 DEF SharedLoads
  <2>. QED
    BY <1>2, <2>2, <2>4
<1>. QED
  BY <1>1, <1>2

\* Every step keeps the types.
LEMMA TypeKept ==
    ASSUME CatalogueTypeOK, [CatalogueNext]_catalogueVars
    PROVE  CatalogueTypeOK'
<1>. USE DEF CatalogueTypeOK
<1>1. CASE ServerAnswers
  BY <1>1 DEF ServerAnswers, server, gift, Settled, SharedLoads, Catalogues
<1>2. CASE LoadEnds
  <2>1. /\ loading \in SharedLoads \cup {Nil}
        /\ cache \in [Locales -> Catalogues \cup {Nil}]
        /\ locale \in Locales
        /\ arriving \in SUBSET Gifts
        /\ catalogData \in Catalogues \cup {Nil}
    BY DEF CatalogueTypeOK
  <2>2. \A data \in Catalogues, late \in BOOLEAN :
          CatalogArrives(data, late) =>
            /\ catalogData' \in Catalogues \cup {Nil}
            /\ arriving' \in SUBSET Gifts
    BY <2>1 DEF CatalogArrives, Catalogues, Gifts
  <2>3. /\ cache' \in [Locales -> Catalogues \cup {Nil}]
        /\ catalogData' \in Catalogues \cup {Nil}
        /\ arriving' \in SUBSET Gifts
    <3>1. CASE /\ loading # Nil
               /\ loading.answer # Nil
               /\ cache' = [cache EXCEPT ![Key] = loading.answer]
               /\ CatalogArrives(loading.answer, loading.by # user)
      <4>1. loading.answer \in Catalogues
        BY <2>1, <3>1 DEF SharedLoads
      <4>. QED
        BY <2>1, <2>2, <3>1, <4>1 DEF Key
    <3>2. CASE /\ Cached # Nil
               /\ CatalogArrives(Cached, TRUE)
               /\ UNCHANGED cache
      <4>1. Cached \in Catalogues
        BY <2>1, <3>2 DEF Cached, Key
      <4>. QED
        BY <2>1, <2>2, <3>2, <4>1
    <3>3. CASE UNCHANGED <<cache, catalogData, arriving>>
      BY <2>1, <3>3
    <3>. QED
      BY <1>2, <3>1, <3>2, <3>3 DEF LoadEnds
  <2>. QED
    BY <1>2, <2>3 DEF LoadEnds, server, CatalogueTypeOK, Scenes, Inside, Catalogues,
       SharedLoads, Boots, Gifts
<1>3. CASE \E r \in arriving : RewardShown(r)
  BY <1>3 DEF RewardShown, server, shared
<1>4. CASE ShowHome
  BY <1>4 DEF ShowHome, Home, Joined, server, gift, SharedLoads, Scenes, Inside
<1>5. CASE ShowLevelSelect
  BY <1>5 DEF ShowLevelSelect, GoesTo, server, gift, shared, Scenes, Inside
<1>6. CASE LoadGame
  BY <1>6 DEF LoadGame, GoesTo, server, shared, Scenes, Inside
<1>7. CASE ShowSettings
  BY <1>7 DEF ShowSettings, GoesTo, server, gift, shared, Scenes, Inside
<1>8. CASE FinishLevel
  BY <1>8 DEF FinishLevel, gift, shared
<1>9. CASE RefreshNewMuseumItems
  BY <1>9 DEF RefreshNewMuseumItems, Joined, Key, server, gift, SharedLoads, Catalogues
<1>10. CASE CompleteQueued
  BY <1>10 DEF CompleteQueued, server, gift, shared, CatalogueTypeOK
<1>11. CASE ToggleLanguage
  <2>1. loading' \in SharedLoads \cup {Nil}
    BY <1>11, UnsureLoad DEF ToggleLanguage, CatalogueTypeOK
  <2>2. /\ locale' \in Locales
        /\ cache' \in [Locales -> Catalogues \cup {Nil}]
        /\ writes' \in SUBSET [by : Users, lang : Locales]
        /\ doubt' \in BOOLEAN
    BY <1>11 DEF ToggleLanguage, CatalogueTypeOK
  <2>. QED
    BY <1>11, <2>1, <2>2 DEF ToggleLanguage, server, gift, CatalogueTypeOK
<1>12. CASE \E w \in writes : UpdateLocale(w)
  BY <1>12 DEF UpdateLocale, gift, shared
<1>13. CASE Bootstrap
  <2>1. CASE user = Nil
    <3>1. scene' \in Scenes /\ UNCHANGED boot
      BY <1>13, <2>1 DEF Bootstrap, Scenes
    <3>. QED
      BY <1>13, <3>1 DEF Bootstrap, server, gift, shared, CatalogueTypeOK
  <2>2. CASE user # Nil
    <3>1. user \in Users
      BY <2>2 DEF CatalogueTypeOK
    <3>2. boot' = [by |-> user, at |-> "config", lang |-> Nil, sure |-> FALSE]
      BY <1>13, <2>2 DEF Bootstrap
    <3>3. boot' \in Boots /\ UNCHANGED scene
      BY <1>13, <2>2, <3>1, <3>2 DEF Bootstrap, Boots
    <3>. QED
      BY <1>13, <3>3 DEF Bootstrap, server, gift, shared, CatalogueTypeOK
  <2>. QED
    BY <2>1, <2>2
<1>14. CASE ServerBoots
  BY <1>14 DEF ServerBoots, server, gift, shared, Boots
<1>15. CASE Configured
  <2>1. loading' \in SharedLoads \cup {Nil}
    BY <1>15, UnsureLoad DEF Configured, CatalogueTypeOK
  <2>2. /\ boot' \in Boots \cup {Nil}
        /\ locale' \in Locales
        /\ doubt' \in BOOLEAN
    BY <1>15 DEF Configured, CatalogueTypeOK, Boots
  <2>. QED
    BY <1>15, <2>1, <2>2 DEF Configured, server, gift, CatalogueTypeOK
<1>16. CASE Flushed
  BY <1>16 DEF Flushed, Home, Joined, server, gift, SharedLoads, Scenes, Inside
<1>17. CASE BootFails
  BY <1>17 DEF BootFails, server, gift, shared, Scenes
<1>18. CASE \E u \in Users : LoginWechat(u)
  BY <1>18 DEF LoginWechat, gift, shared, Scenes
<1>19. CASE SessionEnds
  <2>1. ASSUME NEW r \in Gifts
        PROVE  [r EXCEPT !.late = TRUE] \in Gifts
    BY DEF Gifts
  <2>2. arriving' \in SUBSET Gifts
    BY <1>19, <2>1 DEF SessionEnds, CatalogueTypeOK
  <2>. QED
    BY <1>19, <2>2 DEF SessionEnds, server, shared, CatalogueTypeOK, Scenes
<1>20. CASE Reopen
  BY <1>20 DEF Reopen, server, Scenes
<1>21. CASE UNCHANGED catalogueVars
  BY <1>21 DEF catalogueVars
<1>. QED
  BY <1>1, <1>2, <1>3, <1>4, <1>5, <1>6, <1>7, <1>8, <1>9, <1>10, <1>11, <1>12, <1>13,
     <1>14, <1>15, <1>16, <1>17, <1>18, <1>19, <1>20, <1>21 DEF CatalogueNext

\* The start of the application keeps what it was told, through sign-outs and late changes.
LEMMA BootSaneKept ==
    ASSUME CatalogueTypeOK, Sane, [CatalogueNext]_catalogueVars
    PROVE  BootSane'
<1>. USE DEF CatalogueTypeOK, Boots, Inside, Settled, Sane, BootSane, SceneSane
<1>1. CASE ServerAnswers
  BY <1>1 DEF ServerAnswers, server, gift, Settled
<1>2. CASE LoadEnds
  BY <1>2 DEF LoadEnds, CatalogArrives, Cached, Key, server
<1>3. CASE \E r \in arriving : RewardShown(r)
  BY <1>3 DEF RewardShown, server, shared
<1>4. CASE ShowHome
  BY <1>4 DEF ShowHome, Home, Joined, server, gift
<1>5. CASE ShowLevelSelect
  BY <1>5 DEF ShowLevelSelect, GoesTo, server, gift, shared
<1>6. CASE LoadGame
  BY <1>6 DEF LoadGame, GoesTo, server, shared
<1>7. CASE ShowSettings
  BY <1>7 DEF ShowSettings, GoesTo, server, gift, shared
<1>8. CASE FinishLevel
  BY <1>8 DEF FinishLevel, gift, shared
<1>9. CASE RefreshNewMuseumItems
  BY <1>9 DEF RefreshNewMuseumItems, Joined, Key, server, gift
<1>10. CASE CompleteQueued
  BY <1>10 DEF CompleteQueued, server, gift, shared
<1>11. CASE ToggleLanguage
  BY <1>11 DEF ToggleLanguage, Unsure, server, gift
<1>12. CASE \E w \in writes : UpdateLocale(w)
  BY <1>12 DEF UpdateLocale, gift, shared
<1>13. CASE Bootstrap
  BY <1>13 DEF Bootstrap, server, gift, shared
<1>14. CASE ServerBoots
  BY <1>14 DEF ServerBoots, server, gift, shared
<1>15. CASE Configured
  BY <1>15 DEF Configured, Unsure, server, gift
<1>16. CASE Flushed
  BY <1>16 DEF Flushed, Home, Joined, server, gift
<1>17. CASE BootFails
  BY <1>17 DEF BootFails, server, gift, shared
<1>18. CASE \E u \in Users : LoginWechat(u)
  BY <1>18 DEF LoginWechat, gift, shared
<1>19. CASE SessionEnds
  BY <1>19 DEF SessionEnds, server, shared
<1>20. CASE Reopen
  BY <1>20 DEF Reopen, server
<1>21. CASE UNCHANGED catalogueVars
  BY <1>21 DEF catalogueVars
<1>. QED
  BY <1>1, <1>2, <1>3, <1>4, <1>5, <1>6, <1>7, <1>8, <1>9, <1>10, <1>11, <1>12, <1>13,
     <1>14, <1>15, <1>16, <1>17, <1>18, <1>19, <1>20, <1>21 DEF CatalogueNext

\* Only a player who is signed in and has started gets inside.
LEMMA SceneSaneKept ==
    ASSUME CatalogueTypeOK, Sane, [CatalogueNext]_catalogueVars
    PROVE  SceneSane'
<1>. USE DEF CatalogueTypeOK, Inside, Sane, BootSane, SceneSane
<1>1. CASE ServerAnswers
  BY <1>1 DEF ServerAnswers, server, gift, Settled
<1>2. CASE LoadEnds
  BY <1>2 DEF LoadEnds, CatalogArrives, Cached, Key, server
<1>3. CASE \E r \in arriving : RewardShown(r)
  BY <1>3 DEF RewardShown, server, shared
<1>4. CASE ShowHome
  BY <1>4 DEF ShowHome, Home, Joined, server, gift
<1>5. CASE ShowLevelSelect
  BY <1>5 DEF ShowLevelSelect, GoesTo, server, gift, shared
<1>6. CASE LoadGame
  BY <1>6 DEF LoadGame, GoesTo, server, shared
<1>7. CASE ShowSettings
  BY <1>7 DEF ShowSettings, GoesTo, server, gift, shared
<1>8. CASE FinishLevel
  BY <1>8 DEF FinishLevel, gift, shared
<1>9. CASE RefreshNewMuseumItems
  BY <1>9 DEF RefreshNewMuseumItems, Joined, Key, server, gift
<1>10. CASE CompleteQueued
  BY <1>10 DEF CompleteQueued, server, gift, shared
<1>11. CASE ToggleLanguage
  BY <1>11 DEF ToggleLanguage, Unsure, server, gift
<1>12. CASE \E w \in writes : UpdateLocale(w)
  BY <1>12 DEF UpdateLocale, gift, shared
<1>13. CASE Bootstrap
  BY <1>13 DEF Bootstrap, server, gift, shared
<1>14. CASE ServerBoots
  BY <1>14 DEF ServerBoots, server, gift, shared
<1>15. CASE Configured
  BY <1>15 DEF Configured, Unsure, server, gift
<1>16. CASE Flushed
  BY <1>16 DEF Flushed, Home, Joined, server, gift
<1>17. CASE BootFails
  BY <1>17 DEF BootFails, server, gift, shared
<1>18. CASE \E u \in Users : LoginWechat(u)
  BY <1>18 DEF LoginWechat, gift, shared
<1>19. CASE SessionEnds
  BY <1>19 DEF SessionEnds, server, shared
<1>20. CASE Reopen
  BY <1>20 DEF Reopen, server
<1>21. CASE UNCHANGED catalogueVars
  BY <1>21 DEF catalogueVars
<1>. QED
  BY <1>1, <1>2, <1>3, <1>4, <1>5, <1>6, <1>7, <1>8, <1>9, <1>10, <1>11, <1>12, <1>13,
     <1>14, <1>15, <1>16, <1>17, <1>18, <1>19, <1>20, <1>21 DEF CatalogueNext

\* A change that overtakes another, or is sent for another player, leaves a doubt.
LEMMA WritesSaneKept ==
    ASSUME CatalogueTypeOK, Sane, [CatalogueNext]_catalogueVars
    PROVE  WritesSane'
<1>. USE DEF CatalogueTypeOK, Inside, Sane, BootSane, SceneSane, WritesSane
<1>1. CASE ServerAnswers
  BY <1>1 DEF ServerAnswers, server, gift, Settled
<1>2. CASE LoadEnds
  BY <1>2 DEF LoadEnds, CatalogArrives, Cached, Key, server
<1>3. CASE \E r \in arriving : RewardShown(r)
  BY <1>3 DEF RewardShown, server, shared
<1>4. CASE ShowHome
  BY <1>4 DEF ShowHome, Home, Joined, server, gift
<1>5. CASE ShowLevelSelect
  BY <1>5 DEF ShowLevelSelect, GoesTo, server, gift, shared
<1>6. CASE LoadGame
  BY <1>6 DEF LoadGame, GoesTo, server, shared
<1>7. CASE ShowSettings
  BY <1>7 DEF ShowSettings, GoesTo, server, gift, shared
<1>8. CASE FinishLevel
  BY <1>8 DEF FinishLevel, gift, shared
<1>9. CASE RefreshNewMuseumItems
  BY <1>9 DEF RefreshNewMuseumItems, Joined, Key, server, gift
<1>10. CASE CompleteQueued
  BY <1>10 DEF CompleteQueued, server, gift, shared
<1>11. CASE ToggleLanguage
  <2>. SUFFICES ASSUME ~doubt'
                PROVE  WritesSane'
    BY DEF WritesSane
  <2>1. writes = {} /\ user # Nil /\ UNCHANGED user
    BY <1>11 DEF ToggleLanguage
  <2>2. writes' = {[by |-> user, lang |-> locale']}
    BY <1>11, <2>1 DEF ToggleLanguage
  <2>. QED
    BY <2>1, <2>2
<1>12. CASE \E w \in writes : UpdateLocale(w)
  BY <1>12 DEF UpdateLocale, gift, shared
<1>13. CASE Bootstrap
  BY <1>13 DEF Bootstrap, server, gift, shared
<1>14. CASE ServerBoots
  BY <1>14 DEF ServerBoots, server, gift, shared
<1>15. CASE Configured
  BY <1>15 DEF Configured, Unsure, server, gift
<1>16. CASE Flushed
  BY <1>16 DEF Flushed, Home, Joined, server, gift
<1>17. CASE BootFails
  BY <1>17 DEF BootFails, server, gift, shared
<1>18. CASE \E u \in Users : LoginWechat(u)
  BY <1>18 DEF LoginWechat, gift, shared
<1>19. CASE SessionEnds
  BY <1>19 DEF SessionEnds, server, shared
<1>20. CASE Reopen
  BY <1>20 DEF Reopen, server
<1>21. CASE UNCHANGED catalogueVars
  BY <1>21 DEF catalogueVars
<1>. QED
  BY <1>1, <1>2, <1>3, <1>4, <1>5, <1>6, <1>7, <1>8, <1>9, <1>10, <1>11, <1>12, <1>13,
     <1>14, <1>15, <1>16, <1>17, <1>18, <1>19, <1>20, <1>21 DEF CatalogueNext

\* The language of the device changes over no load without making its answer unsure.
LEMMA LoadSaneKept ==
    ASSUME CatalogueTypeOK, Sane, [CatalogueNext]_catalogueVars
    PROVE  LoadSane'
<1>. USE DEF CatalogueTypeOK, SharedLoads, Catalogues, Inside, Settled, Sane, SceneSane,
            LanguagesAgree, LoadSane
<1>1. CASE ServerAnswers
  BY <1>1 DEF ServerAnswers, server, gift, Settled
<1>2. CASE LoadEnds
  BY <1>2 DEF LoadEnds, CatalogArrives, Cached, Key, server
<1>3. CASE \E r \in arriving : RewardShown(r)
  BY <1>3 DEF RewardShown, server, shared
<1>4. CASE ShowHome
  BY <1>4 DEF ShowHome, Home, Joined, server, gift
<1>5. CASE ShowLevelSelect
  BY <1>5 DEF ShowLevelSelect, GoesTo, server, gift, shared
<1>6. CASE LoadGame
  BY <1>6 DEF LoadGame, GoesTo, server, shared
<1>7. CASE ShowSettings
  BY <1>7 DEF ShowSettings, GoesTo, server, gift, shared
<1>8. CASE FinishLevel
  BY <1>8 DEF FinishLevel, gift, shared
<1>9. CASE RefreshNewMuseumItems
  BY <1>9 DEF RefreshNewMuseumItems, Joined, Key, server, gift
<1>10. CASE CompleteQueued
  BY <1>10 DEF CompleteQueued, server, gift, shared
<1>11. CASE ToggleLanguage
  <2>1. loading' = Unsure(loading) /\ UNCHANGED unlocked
    BY <1>11 DEF ToggleLanguage, server
  <2>. QED
    BY <2>1, UnsureLoad
<1>12. CASE \E w \in writes : UpdateLocale(w)
  BY <1>12 DEF UpdateLocale, gift, shared
<1>13. CASE Bootstrap
  BY <1>13 DEF Bootstrap, server, gift, shared
<1>14. CASE ServerBoots
  BY <1>14 DEF ServerBoots, server, gift, shared
<1>15. CASE Configured
  <2>1. loading' = Unsure(loading) /\ UNCHANGED unlocked
    BY <1>15 DEF Configured, server
  <2>. QED
    BY <2>1, UnsureLoad
<1>16. CASE Flushed
  BY <1>16 DEF Flushed, Home, Joined, server, gift
<1>17. CASE BootFails
  BY <1>17 DEF BootFails, server, gift, shared
<1>18. CASE \E u \in Users : LoginWechat(u)
  BY <1>18 DEF LoginWechat, gift, shared
<1>19. CASE SessionEnds
  BY <1>19 DEF SessionEnds, server, shared
<1>20. CASE Reopen
  BY <1>20 DEF Reopen, server
<1>21. CASE UNCHANGED catalogueVars
  BY <1>21 DEF catalogueVars
<1>. QED
  BY <1>1, <1>2, <1>3, <1>4, <1>5, <1>6, <1>7, <1>8, <1>9, <1>10, <1>11, <1>12, <1>13,
     <1>14, <1>15, <1>16, <1>17, <1>18, <1>19, <1>20, <1>21 DEF CatalogueNext

\* No step makes what a screen draws differ from the language of the player.
LEMMA LanguagesAgreeKept ==
    ASSUME CatalogueTypeOK, Sane, [CatalogueNext]_catalogueVars
    PROVE  LanguagesAgree'
<1>. USE DEF CatalogueTypeOK, SharedLoads, Catalogues, Inside, Settled, Sane, BootSane,
            SceneSane, WritesSane, LoadSane, LanguagesAgree
<1>1. CASE ServerAnswers
  BY <1>1 DEF ServerAnswers, server, gift, Settled
<1>2. CASE LoadEnds
  BY <1>2 DEF LoadEnds, CatalogArrives, Cached, Key, server
<1>3. CASE \E r \in arriving : RewardShown(r)
  BY <1>3 DEF RewardShown, server, shared
<1>4. CASE ShowHome
  BY <1>4 DEF ShowHome, Home, Joined, server, gift
<1>5. CASE ShowLevelSelect
  BY <1>5 DEF ShowLevelSelect, GoesTo, server, gift, shared
<1>6. CASE LoadGame
  BY <1>6 DEF LoadGame, GoesTo, server, shared
<1>7. CASE ShowSettings
  BY <1>7 DEF ShowSettings, GoesTo, server, gift, shared
<1>8. CASE FinishLevel
  BY <1>8 DEF FinishLevel, gift, shared
<1>9. CASE RefreshNewMuseumItems
  BY <1>9 DEF RefreshNewMuseumItems, Joined, Key, server, gift
<1>10. CASE CompleteQueued
  BY <1>10 DEF CompleteQueued, server, gift, shared
<1>11. CASE ToggleLanguage
  <2>. SUFFICES ASSUME NEW l \in Locales, cache[l]' # Nil, cache[l].sure'
                PROVE  cache[l].lang' = l
    <3>1. UNCHANGED <<user, scene, boot>> /\ catalogData' = Nil
      BY <1>11 DEF ToggleLanguage
    <3>2. user # Nil => writes' # {}
      BY <1>11 DEF ToggleLanguage
    <3>. QED
      BY <3>1, <3>2
  <2>. QED
    BY <1>11 DEF ToggleLanguage
<1>12. CASE \E w \in writes : UpdateLocale(w)
  BY <1>12 DEF UpdateLocale, gift, shared
<1>13. CASE Bootstrap
  BY <1>13 DEF Bootstrap, server, gift, shared
<1>14. CASE ServerBoots
  BY <1>14 DEF ServerBoots, server, gift, shared
<1>15. CASE Configured
  BY <1>15 DEF Configured, Unsure, server, gift
<1>16. CASE Flushed
  BY <1>16 DEF Flushed, Home, Joined, server, gift
<1>17. CASE BootFails
  BY <1>17 DEF BootFails, server, gift, shared
<1>18. CASE \E u \in Users : LoginWechat(u)
  BY <1>18 DEF LoginWechat, gift, shared
<1>19. CASE SessionEnds
  BY <1>19 DEF SessionEnds, server, shared
<1>20. CASE Reopen
  BY <1>20 DEF Reopen, server
<1>21. CASE UNCHANGED catalogueVars
  BY <1>21 DEF catalogueVars
<1>. QED
  BY <1>1, <1>2, <1>3, <1>4, <1>5, <1>6, <1>7, <1>8, <1>9, <1>10, <1>11, <1>12, <1>13,
     <1>14, <1>15, <1>16, <1>17, <1>18, <1>19, <1>20, <1>21 DEF CatalogueNext

\* No step puts on the screen what the player does not have, unless it comes late.
LEMMA RewardSaneKept ==
    ASSUME CatalogueTypeOK, Sane, [CatalogueNext]_catalogueVars
    PROVE  RewardSane'
<1>. USE DEF CatalogueTypeOK, SharedLoads, Catalogues, Gifts, Inside, Sane, SceneSane, LoadSane,
            RewardSane
<1>1. CASE ServerAnswers
  BY <1>1 DEF ServerAnswers, server, gift, Settled
<1>2. CASE LoadEnds
  <2>1. UNCHANGED <<scene, itemReward, unlocked, user>>
    BY <1>2 DEF LoadEnds, server
  <2>2. ASSUME NEW data \in Catalogues, NEW late \in BOOLEAN, CatalogArrives(data, late),
               late \/ (user # Nil /\ data.items \subseteq unlocked[user])
        PROVE  \A r \in arriving' : ~r.late => user # Nil /\ r.item \in unlocked[user]
    BY <2>2 DEF CatalogArrives
  <2>3. CASE loading.answer # Nil /\ CatalogArrives(loading.answer, loading.by # user)
    <3>1. /\ loading.answer \in Catalogues
          /\ loading.by # Nil
          /\ loading.answer.items \subseteq unlocked[loading.by]
      BY <1>2, <2>3 DEF LoadEnds
    <3>. QED
      BY <2>1, <2>2, <2>3, <3>1
  <2>4. CASE Cached # Nil /\ CatalogArrives(Cached, TRUE)
    <3>1. Cached \in Catalogues
      BY <2>4 DEF Cached, Key
    <3>. QED
      BY <2>1, <2>2, <2>4, <3>1
  <2>5. CASE UNCHANGED arriving
    BY <2>1, <2>5
  <2>. QED
    BY <1>2, <2>3, <2>4, <2>5 DEF LoadEnds
<1>3. CASE \E r \in arriving : RewardShown(r)
  BY <1>3 DEF RewardShown, server, shared
<1>4. CASE ShowHome
  BY <1>4 DEF ShowHome, Home, Joined, server, gift
<1>5. CASE ShowLevelSelect
  BY <1>5 DEF ShowLevelSelect, GoesTo, server, gift, shared
<1>6. CASE LoadGame
  BY <1>6 DEF LoadGame, GoesTo, server, shared
<1>7. CASE ShowSettings
  BY <1>7 DEF ShowSettings, GoesTo, server, gift, shared
<1>8. CASE FinishLevel
  BY <1>8 DEF FinishLevel, gift, shared
<1>9. CASE RefreshNewMuseumItems
  BY <1>9 DEF RefreshNewMuseumItems, Joined, Key, server, gift
<1>10. CASE CompleteQueued
  BY <1>10 DEF CompleteQueued, server, gift, shared
<1>11. CASE ToggleLanguage
  BY <1>11 DEF ToggleLanguage, Unsure, server, gift
<1>12. CASE \E w \in writes : UpdateLocale(w)
  BY <1>12 DEF UpdateLocale, gift, shared
<1>13. CASE Bootstrap
  BY <1>13 DEF Bootstrap, server, gift, shared
<1>14. CASE ServerBoots
  BY <1>14 DEF ServerBoots, server, gift, shared
<1>15. CASE Configured
  BY <1>15 DEF Configured, Unsure, server, gift
<1>16. CASE Flushed
  BY <1>16 DEF Flushed, Home, Joined, server, gift
<1>17. CASE BootFails
  BY <1>17 DEF BootFails, server, gift, shared
<1>18. CASE \E u \in Users : LoginWechat(u)
  BY <1>18 DEF LoginWechat, gift, shared
<1>19. CASE SessionEnds
  BY <1>19 DEF SessionEnds, server, shared
<1>20. CASE Reopen
  BY <1>20 DEF Reopen, server
<1>21. CASE UNCHANGED catalogueVars
  BY <1>21 DEF catalogueVars
<1>. QED
  BY <1>1, <1>2, <1>3, <1>4, <1>5, <1>6, <1>7, <1>8, <1>9, <1>10, <1>11, <1>12, <1>13,
     <1>14, <1>15, <1>16, <1>17, <1>18, <1>19, <1>20, <1>21 DEF CatalogueNext

\* The invariant that the theorems are drawn from.
Sound == CatalogueTypeOK /\ Sane

LEMMA SoundInit == CatalogueInit => Sound
<1>. SUFFICES ASSUME CatalogueInit
              PROVE  Sound
  OBVIOUS
<1>1. CatalogueTypeOK
  BY DEF CatalogueInit, CatalogueTypeOK, Scenes
<1>2. Sane
  BY DEF CatalogueInit, Sane, BootSane, SceneSane, WritesSane, LoadSane, LanguagesAgree, RewardSane,
         Inside, Settled
<1>. QED
  BY <1>1, <1>2 DEF Sound

LEMMA SoundKept == Sound /\ [CatalogueNext]_catalogueVars => Sound'
<1>. SUFFICES ASSUME Sound, [CatalogueNext]_catalogueVars
              PROVE  Sound'
  OBVIOUS
<1>1. CatalogueTypeOK /\ Sane
  BY DEF Sound
<1>2. CatalogueTypeOK'
  BY <1>1, TypeKept
<1>3. Sane'
  BY <1>1, BootSaneKept, SceneSaneKept, WritesSaneKept, LoadSaneKept, LanguagesAgreeKept,
     RewardSaneKept DEF Sane
<1>. QED
  BY <1>2, <1>3 DEF Sound

\* Every value stays what the code can put there.
THEOREM CatalogueTypeCorrect == CatalogueSpec => []CatalogueTypeOK
<1>1. Sound => CatalogueTypeOK
  BY DEF Sound
<1>. QED
  BY <1>1, SoundInit, SoundKept, PTL DEF CatalogueSpec

\* What a screen draws is in the language of the player, and the language of the device is
\* the player's, unless a change is open, or was lost or overtaken (toggleLanguage,
\* bootstrap, CatalogRepository.refresh).
THEOREM DrawnInOwnLanguage == CatalogueSpec => []LanguagesAgree
<1>1. Sound => LanguagesAgree
  BY DEF Sound, Sane
<1>. QED
  BY <1>1, SoundInit, SoundKept, PTL DEF CatalogueSpec

\* A level announces no museum item that the player does not have, except from a kept
\* catalogue or over a change of the account (refreshNewMuseumItems).
THEOREM AnnouncedIsOwned == CatalogueSpec => []RewardsAreEarned
<1>1. Sound => RewardsAreEarned
  BY DEF Sound, Sane, RewardSane, RewardsAreEarned
<1>. QED
  BY <1>1, SoundInit, SoundKept, PTL DEF CatalogueSpec
=============================================================================
