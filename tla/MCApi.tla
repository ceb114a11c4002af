------------------------------- MODULE MCApi -------------------------------
(* TLC instance of Api. *)
EXTENDS Api

\* A group and a channel with the same bare id.
Twins == {[kind |-> "chat", id |-> 2], [kind |-> "channel", id |-> 2]}

\* One client without a list, one that may access the channel only; the third
\* has the token of the second.
ThreeClients == <<[token |-> "t1", allowed |-> {}],
                  [token |-> "t2", allowed |-> {-12}],
                  [token |-> "t2", allowed |-> {}]>>

Size(class, type, px, sizes) == [class |-> class, type |-> <<type>>, px |-> px, sizes |-> sizes]

Small       == Size("PhotoSize", 7, 1, <<10>>)
Medium      == Size("PhotoSize", 8, 2, <<20>>)
Progressive == Size("PhotoSizeProgressive", 9, 1, <<5, 30>>)
Unsized     == Size("PhotoSizeProgressive", 6, 0, <<>>)
Stripped    == Size("PhotoStrippedSize", 5, 0, <<>>)

Photo(ref, sizes) == [id |-> 3, hash |-> 4, ref |-> ref, sizes |-> sizes]

\* File references whose bytes look like lengths, the second too long for its field;
\* sizes in several orders, and none that can be fetched.
Rich  == Photo(<<1, 7>>, <<Medium, Small, Progressive, Stripped>>)
Long  == Photo(<<1, 7, 0, 1>>, <<Unsized, Medium>>)
Plain == Photo(<<>>, <<Medium>>)
None  == Photo(<<>>, <<Stripped>>)

SomePhotos == {Rich, Long, Plain, None}

\* An earlier run has left one photo under the old key and another under the key in use.
OneDisk == {{[photo |-> Rich, key |-> OLD_KEY], [photo |-> Plain, key |-> KEY]}}
=============================================================================
