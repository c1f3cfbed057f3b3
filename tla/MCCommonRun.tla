----------------------------- MODULE MCCommonRun -----------------------------
(* Small instances of CommonRun.                                           *)
EXTENDS CommonRun

CONSTANTS MaxStreams, MaxConnsSet, KindSet, PlaybackSet, ReconnectSet

\* The command lines of an instance.
MCConfigs ==
  [kind : KindSet, reconnect : ReconnectSet, max_conns : MaxConnsSet,
   concurrent_streams : 1..MaxStreams, close_listener : BOOLEAN,
   stats : BOOLEAN, playback : PlaybackSet]
=============================================================================
