----------------------------- MODULE MCTimeline -----------------------------
(***************************************************************************)
(* Timeline over the items of the demo.  A batch may leave the first 15    *)
(* items in mongod, the last of which refers to item 38, or all of them.   *)
(***************************************************************************)
EXTENDS Timeline, TimelineSeed

MCBreaks == {15, Len(timelineItems)}
MCPath == {NoEvent, 15}
=============================================================================
