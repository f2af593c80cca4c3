--------------------------- MODULE MCCacheDirSync ---------------------------
EXTENDS CacheDirSync
=============================================================================
