---------------------------- MODULE TimelineSeed ----------------------------
(***************************************************************************)
(* The items that the servers of the timeline demo insert                  *)
(* (server/data/timelineItems-seed.js), in their order: of each its _id,   *)
(* its dates as year, month and day, and the _ids of its timelineEvents,   *)
(* the items its page shows beside it.  A day its month does not have      *)
(* (items 32 and 36) is the first of the next, as new Date makes it.  The  *)
(* texts, which nothing depends on, are left out.                          *)
(***************************************************************************)
EXTENDS Integers, Sequences

Item(id, start, end, timelineEvents) ==
  [id |-> id, start |-> start, end |-> end, associated |-> timelineEvents]

Items1 == <<
  Item(1, 20030401, 20030531, {}),
  Item(2, 20050501, 20050531, {}),
  Item(3, 20050510, 20050531, {}),
  Item(4, 20050201, 20050228, {}),
  Item(5, 20060201, 20060228, {}),
  Item(6, 20060501, 20060531, {}),
  Item(7, 20060805, 20060807, {})>>

Items8 == <<
  Item(8, 20060101, 20061231, {}),
  Item(9, 20060531, 20060613, {}),
  Item(10, 20060315, 20060322, {}),
  Item(11, 20040601, 20061231, {}),
  Item(12, 20070101, 20070312, {}),
  Item(13, 20070703, 20070727, {})>>

Items14 == <<
  Item(14, 20070901, 20070914, {}),
  Item(15, 20070401, 20080301, {38}),
  Item(16, 20070821, 20070821, {}),
  Item(17, 20070501, 20070731, {}),
  Item(18, 20081031, 20081031, {}),
  Item(19, 20080206, 20080207, {}),
  Item(20, 20080227, 20080227, {})>>

Items21 == <<
  Item(21, 20080501, 20080531, {}),
  Item(22, 20030212, 20030227, {}),
  Item(23, 20080918, 20080918, {}),
  Item(24, 20080501, 20080511, {}),
  Item(25, 20081007, 20081007, {}),
  Item(26, 20081031, 20081031, {}),
  Item(27, 20081110, 20081223, {})>>

Items28 == <<
  Item(28, 20081001, 20081031, {}),
  Item(29, 20080801, 20080831, {}),
  Item(30, 20080506, 20080510, {}),
  Item(31, 20080101, 20081231, {}),
  Item(32, 20081101, 20081201, {}),
  Item(33, 20091201, 20091231, {})>>

Items34 == <<
  Item(34, 20081202, 20081202, {}),
  Item(35, 20091002, 20091002, {}),
  Item(36, 20100401, 20100501, {}),
  Item(37, 20090430, 20090504, {}),
  Item(38, 20090430, 20090504, {15, 28}),
  Item(39, 20081006, 20090409, {}),
  Item(40, 20090727, 20090727, {})>>

Items41 == <<
  Item(41, 20090401, 20090401, {}),
  Item(42, 20100321, 20100321, {}),
  Item(43, 20070501, 20070501, {}),
  Item(44, 20100301, 20100430, {}),
  Item(45, 20101211, 20101212, {}),
  Item(46, 20100226, 20100226, {}),
  Item(47, 20100610, 20100610, {})>>

Items48 == <<
  Item(48, 20100101, 20111001, {49, 50, 51, 53, 59}),
  Item(49, 20110502, 20110502, {48, 52, 54, 55, 56, 57}),
  Item(50, 20110603, 20110603, {48, 52, 54, 55, 56, 57}),
  Item(51, 20110513, 20110513, {48, 52, 54, 55, 56, 57}),
  Item(52, 20100301, 20110720, {49, 50, 51, 53, 59})>>

Items53 == <<
  Item(53, 20110130, 20110206, {48, 52, 54, 55, 56, 57}),
  Item(54, 20100101, 20110607, {49, 50, 51, 53, 59}),
  Item(55, 20100101, 20110727, {49, 50, 51, 53, 59}),
  Item(56, 20100101, 20110701, {49, 50, 51, 53, 59})>>

Items57 == <<
  Item(57, 20100101, 20110703, {49, 50, 51, 53, 59}),
  Item(58, 19790101, 19950215, {}),
  Item(59, 20110507, 20110512, {48, 52, 54, 55, 56, 57})>>

Items60 == <<
  Item(60, 20000209, 20000213, {}),
  Item(61, 20000209, 20000213, {}),
  Item(62, 20000209, 20000213, {}),
  Item(63, 19900609, 20071001, {}),
  Item(64, 19820101, 19861001, {})>>
timelineItems ==
  Items1 \o Items8 \o Items14 \o Items21 \o Items28 \o Items34 \o
  Items41 \o Items48 \o Items53 \o Items57 \o Items60
=============================================================================
