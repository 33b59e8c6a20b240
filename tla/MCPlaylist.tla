----------------------------- MODULE MCPlaylist -----------------------------
(* Playlist for TLC: a catalogue with a source of two pages, one that shares *)
(* a song with it, a playlist and a storage device.                          *)
EXTENDS Playlist

CONSTANTS h1, h2, h3, l1, l2, hot, pop, pl, local

MCCatalog == [s \in Sources |->
  CASE s = hot   -> <<h1, h2, h3>>
    [] s = pop   -> <<h3>>
    [] s = pl    -> <<h2>>
    [] s = local -> <<l1, l2>>]
=============================================================================
