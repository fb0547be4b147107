---------------------------- MODULE MCEmbedding ----------------------------
(***************************************************************************)
(* The merchant and the stdio MCP server on one cache file.  A search asks *)
(* for two product texts or for a query.                                   *)
(***************************************************************************)
EXTENDS EmbeddingCache

CONSTANTS headset, mouse

MCTexts == {headset, mouse}
MCBatches == {<<headset, mouse>>, <<mouse>>}
=============================================================================
