-------------------------------- MODULE Api --------------------------------
(***************************************************************************)
(* The HTTP API as a device uses it: the chat requests of Peers, and photo *)
(* requests with the media ids that GetMessages handed out.  The photo     *)
(* cache is here what a lookup finds in it; how it gets there, and in      *)
(* which state its files are, is the subject of MediaCache.                *)
(***************************************************************************)
EXTENDS Peers, MediaId

CONSTANTS Photos,   \* [id, hash, ref, sizes] records
          KEY,      \* media.key
          OLD_KEY,  \* a media.key that the operator has removed since
          Disks,    \* sets of [photo, key] ids whose files an earlier run may have left
          Nothing

\* Photos are as Telegram sends them: widths, heights and sizes are not negative,
\* and file references and type names are bytes.  The keys differ.
ASSUME ApiAssumption ==
    /\ \A p \in Photos :
          p \in [id : Int, hash : Int, ref : Seq(Nat),
                sizes : Seq([class : STRING, type : Seq(Nat), px : Nat, sizes : Seq(Nat)])]
    /\ KEY # OLD_KEY
    /\ \A d \in Disks : \A i \in d : i.photo \in Photos /\ i.key \in {KEY, OLD_KEY}

VARIABLES
    shown,  \* the photo in the messages a request has returned
    asked,  \* the id a photo request carries: [photo, key, whole]
    loc,    \* the location it decodes to, unless its photo is cached
    cached, \* entries of the photo cache: the key, and what the file was downloaded from
    served  \* history: what the file it was answered with was downloaded from

mediaVars == <<shown, asked, loc, cached, served>>
apiVars   == <<vars, mediaVars>>

\* A summary has a media id if some size can be fetched.
Servable(photo) == pickSmallestPhotoSize(photo.sizes).ok

\* A cache that knows its files by the photo, whatever the size.
CacheKeyOfPhoto(m) == <<m.payload[2], m.payload[3]>>

\* The name of the file for an id, a hash of the whole id that is taken to be injective.
cacheKey(m) == <<m.payload, m.tag>>

\* The entry for the photo that id i names.
Entry(i) ==
    LET m == encodeMediaID(i.key, mediaRef(i.photo))
    IN  [key |-> cacheKey(m), file |-> unmarshalMediaRef(m.payload)]

\* newMediaCache loads the files it finds.
ApiInit ==
    /\ Init
    /\ shown = [r \in Requests |-> Nothing]
    /\ asked = [r \in Requests |-> Nothing]
    /\ loc = [r \in Requests |-> Nothing]
    /\ cached \in {{Entry(i) : i \in d} : d \in Disks}
    /\ served = [r \in Requests |-> Nothing]

\* GetMessages calls summarizeMedia for the photo of a message.
CallShows(r) ==
    /\ Call(r)
    /\ IF r \in Requests /\ req[r].op = "messages" /\ answer'[r] = 200
       THEN \E photo \in Photos : shown' = [shown EXCEPT ![r] = photo]
       ELSE UNCHANGED shown
    /\ UNCHANGED <<asked, loc, cached, served>>

\* The media ids a device may send: one that was handed out, whole or damaged on
\* its way, or one signed with an earlier key.
Ids == {[photo |-> shown[q], key |-> KEY, whole |-> w] :
            q \in {r \in Requests : shown[r] # Nothing /\ Servable(shown[r])}, w \in BOOLEAN}
       \cup {[photo |-> p, key |-> OLD_KEY, whole |-> TRUE] : p \in {q \in Photos : Servable(q)}}

\* The id as it arrives.
Received(i) ==
    LET m == encodeMediaID(i.key, mediaRef(i.photo))
    IN  IF i.whole THEN m ELSE [m EXCEPT !.payload = Front(@)]

Hits(i) == {e \in cached : e.key = cacheKey(Received(i))}

\* On a miss, an id with a bad signature is refused.
Decode(r, ref) ==
    /\ loc' = [loc EXCEPT ![r] = ref]
    /\ IF ref = Bad THEN Answer(r, 400)
       ELSE Goto(r, "ready") /\ UNCHANGED <<todo, target, answer>>

\* handleGetMedia: withAuth, and no allow-list.  FetchMedia looks in the cache first,
\* before it checks the signature of the id and before the login.
ArriveMedia(r, token) ==
    /\ pc[r] = "new" /\ \A s \in Requests : s < r => pc[s] # "new"
    /\ \/ /\ TokenToClient(token) = 0
          /\ Answer(r, 401) /\ UNCHANGED <<asked, loc>>
       \/ /\ TokenToClient(token) # 0
          /\ \E i \in Ids :
                /\ asked' = [asked EXCEPT ![r] = i]
                /\ IF Hits(i) # {} THEN Goto(r, "serve") /\ UNCHANGED <<loc, todo, target, answer>>
                   ELSE Decode(r, decodeMediaID(KEY, Received(i)))
    /\ UNCHANGED <<self, peerCache, req, page, effects, shown, cached, served>>

\* waitReady polls until the login.
waitReady(r) ==
    /\ pc[r] = "ready" /\ self
    /\ Goto(r, "download")
    /\ UNCHANGED <<self, peerCache, localVars, answer, effects, mediaVars>>

\* The device gives up and its ctx ends.
GiveUp(r) ==
    /\ pc[r] = "ready"
    /\ Answer(r, 400)
    /\ UNCHANGED <<self, peerCache, req, page, effects, mediaVars>>

\* The kind decides; the download fails, or Put makes the file the entry of the id
\* and evicts some others.
Download(r) ==
    LET new == [key |-> cacheKey(Received(asked[r])), file |-> loc[r]]
    IN  /\ pc[r] = "download"
        /\ \/ /\ loc[r].kind = mediaKindPhoto
              /\ \E kept \in SUBSET (cached \ Hits(asked[r])) : cached' = kept \cup {new}
              /\ Goto(r, "serve") /\ UNCHANGED <<todo, target, answer>>
           \/ Answer(r, 400) /\ UNCHANGED cached
        /\ UNCHANGED <<self, peerCache, req, page, effects, shown, asked, loc, served>>

\* http.ServeFile opens the path that FetchMedia returned, which may have been evicted.
ServeFile(r) ==
    /\ pc[r] = "serve"
    /\ \/ \E e \in Hits(asked[r]) : served' = [served EXCEPT ![r] = e.file] /\ Answer(r, 200)
       \/ Answer(r, 404) /\ UNCHANGED served
    /\ UNCHANGED <<self, peerCache, req, page, effects, shown, asked, loc, cached>>

-----------------------------------------------------------------------------
\* Steps a request takes on its own.
ServeApi(r) ==
    \/ (Lookup(r) \/ GetDialogs(r) \/ DialogsFail(r) \/ cachePeer(r) \/ ListReturns(r))
       /\ UNCHANGED mediaVars
    \/ CallShows(r)
    \/ waitReady(r)
    \/ Download(r)
    \/ ServeFile(r)

ApiNext ==
    \/ Login /\ UNCHANGED mediaVars
    \/ \E r \in Requests, q \in Queries, fault \in {"no", "path", "body"} :
          Arrive(r, q, fault) /\ UNCHANGED mediaVars
    \/ \E r \in Requests, token \in Tokens : ArriveMedia(r, token)
    \/ \E r \in Requests : GiveUp(r)
    \/ \E r \in Callers : ServeApi(r)

\* Handlers go on, and calls of Telegram end.  As every handler ends by itself, it is
\* enough that one of those that can go on does.
ApiSpec == ApiInit /\ [][ApiNext]_apiVars /\ WF_apiVars(\E r \in Callers : ServeApi(r))

-----------------------------------------------------------------------------
\* The photo that a device gets for an id is the one in the message that carried the
\* id: downloaded only for an intact id under the key in use, or found in the cache,
\* where an intact id under an earlier key is still good.  A damaged id gets nothing,
\* and no file is served for an id other than the one it was downloaded for.  The file
\* reference must fit its length field.
FetchedIsShown ==
    \A r \in Requests :
        LET i   == asked[r]
            ref == mediaRef(i.photo)
        IN  i # Nothing /\ Fits(ref) =>
                /\ loc[r] \in {Nothing, IF i.whole /\ i.key = KEY THEN ref ELSE Bad}
                /\ served[r] \in {Nothing} \cup (IF i.whole THEN {ref} ELSE {})

\* "Photo fetch ...; smallest thumbnail served": no size that can be fetched is
\* smaller than the one in the id, every photo with such a size has an id, and the
\* size in bytes is that of this thumbnail if it has one.
SmallestServed ==
    \A r \in Requests : shown[r] # Nothing =>
        LET sizes == shown[r].sizes
            best  == pickSmallestPhotoSize(sizes)
            fetch == {j \in 1..Len(sizes) : Downloadable(sizes[j])}
        IN  /\ best.ok <=> fetch # {}
            /\ best.ok => \E j \in fetch :
                  /\ sizes[j].type = best.type
                  /\ \A k \in fetch : sizes[j].px <= sizes[k].px
                  /\ sizes[j].sizes # <<>> => best.bytes = sizes[j].sizes[1]

\* Every request is answered, except that a photo request waits for the login.
Answered ==
    \A r \in Requests :
        pc[r] \notin {"new", "done"} ~> pc[r] = "done" \/ (pc[r] = "ready" /\ ~self)

=============================================================================
