---------------------------- MODULE MCImageCache -----------------------------
(* Values of the constants for model checking ImageCache. *)
EXTENDS ImageCache, TLC

CONSTANTS c1, c2, b1, b2, base, built, i0, i1, i2

MCCreators == {c1, c2}
MCOneCreator == {c1}
MCBuilders == {b1, b2}
MCOneBuilder == {b1}
MCNoBuilders == {}

\* A reference that is pulled and one that is built; i0 is an older image.
MCReferences == {base, built}
MCTags == {built}
MCNoTags == {}
MCJustBase == {base}
MCJustBuilt == {built}
MCImages == {i0, i1, i2}
MCBuiltImages == {i0, i2}
MCImagesOf == base :> {i1} @@ built :> {i2}
MCImagesOfBase == base :> {i1}

\* Building again may give another image.
MCRebuilt == built :> {i0, i2}

Recall(ids) == [ref \in DOMAIN ids |-> [id |-> ids[ref], last |-> 0]]

\* An inventory without the image, a current one and an outdated one.
MCBuildInventories ==
    {Recall(built :> NoImage), Recall(built :> i2), Recall(built :> i0)}

\* The same for two references: each time one of them has no record.
MCInventories ==
    {Recall(base :> NoImage @@ built :> i0),
     Recall(base :> i1 @@ built :> NoImage)}

\* One image recorded, the one that is pulled.
MCOneRecord == {Recall(base :> i1)}

\* Below the minimum, and at the target.
MCFreeBytes == {0, 2}

\* Threads of one kind are interchangeable.
MCSymmetry == Permutations(MCCreators) \cup Permutations(MCBuilders)
=============================================================================
