----------------------------- MODULE MCLiveSync -----------------------------
(* LiveSync on a project of a few tracks and items, for TLC.                *)
EXTENDS LiveSync, TLC

CONSTANTS
    s,          \* an item that is only moved and changed
    m,          \* an item that is also created, deleted and reshaped
    t1, t2,     \* tracks that stay
    x           \* a track that comes and goes

MCItems == {s, m}
MCTracks == {t1, t2, x}
MCRank == (s :> 1) @@ (m :> 2) @@ (t1 :> 1) @@ (t2 :> 2) @@ (x :> 3) @@ (None :> 0)
MCStart == (s :> t1) @@ (m :> t1)
MCStartOnSpare == (s :> t1) @@ (m :> x)
MCHome == (s :> {t1, t2}) @@ (m :> {t1, x})
=============================================================================
