--------------------------- MODULE MCInotifyTree ---------------------------
(* Two roots, r and s; inside them, or outside at x, directories x and y,   *)
(* two of them siblings: nftw() may give up between the two.               *)
EXTENDS InotifyTree, TLC

MCRootSeq == <<<<"r">>, <<"s">>>>
MCPaths == {<<"r">>, <<"s">>, <<"x">>, <<"r", "x">>, <<"r", "y">>, <<"r", "x", "y">>, <<"s", "x">>, <<"s", "x", "y">>}
MCGone == <<"gone">>
Interchangeable == Permutations(Dirs)

\* With every event processed, the cache has the directories there are, each
\* with its watch, unless something happened that the program cannot know of
\* or nftw() gave a walk up;
\* and at any time the watches of the kernel are known to the cache.
CacheInSync == TypeOK /\ InSync /\ WatchesKnown
=============================================================================
