--------------------------- MODULE MCCacheRecovery ---------------------------
EXTENDS CacheRecovery

\* One document, two, or one of two blocks in an aggregation write.
SmallBatches == {<<1>>, <<2>>, <<1, 1>>}

\* One document in every write.
SingleDocs == {<<1>>, <<2>>}

HalfFull == <<2, 1, 2, 1>>
=============================================================================
