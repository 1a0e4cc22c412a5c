----------------------------- MODULE MCDownload -----------------------------
(* Three files.  The block of the first is wanted from two peers and        *)
(* received twice.  The second has a root that a provider search finds, and *)
(* a leaf.  The third is on a line without a newline.                       *)
EXTENDS Download, TLC

CONSTANTS blkA, blkB, leafB, blkC, peerP, peerQ

MCCidFile == <<blkA, blkB, blkC>>
MCBlocksOf == (blkA :> {blkA}) @@ (blkB :> {blkB, leafB}) @@ (blkC :> {blkC})

Calls(once, from, peers) == (once \X {NoPeer}) \cup (from \X peers)
MCCallsOf ==
    (blkA :> Calls({"NewBlockEvent"}, {"SendWant", "ReceiveBlock"}, {peerP, peerQ})) @@
    (blkC :> Calls({"NewBlockEvent"}, {"SendWant", "ReceiveBlock"}, {peerP})) @@
    (blkB :> Calls({"NewBlockEvent", "BlockServiceGet", "BitswapGet", "FindProviders"},
                   {"FoundProvide", "SendWant", "ReceiveBlock"}, {peerP})) @@
    (leafB :> Calls({"NewBlockEvent", "FindProviders", "PutStore", "BeginVisit", "FinishVisit"},
                    {"FoundProvide", "SendWant", "ReceiveBlock"}, {peerP}))
=============================================================================
