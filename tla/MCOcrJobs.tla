----------------------------- MODULE MCOcrJobs -----------------------------
(* A document with four images, two of them equal; lists of pages with     *)
(* repeats, out of order, with runs and with gaps.                         *)
EXTENDS OcrJobs

CONSTANTS b1, b2, b3

MCImages == <<b1, b2, b1, b3>>
MCPageLists ==
  {<<>>, <<3>>, <<1, 2>>, <<2, 1>>, <<1, 3>>, <<2, 2, 3>>, <<6, 2, 3, 4, 2>>, <<1, 3, 5>>,
   <<5, 4, 2, 1>>}
=============================================================================
